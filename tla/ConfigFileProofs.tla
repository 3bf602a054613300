-------------------------- MODULE ConfigFileProofs --------------------------
(***************************************************************************)
(* Proofs about ConfigFile, for any number of servers, definitions,        *)
(* requests, commands and edits: what is found after a power failure, and  *)
(* what becomes of an edit that the API has acknowledged.                  *)
(***************************************************************************)
EXTENDS ConfigFile, TLAPS

USE DefsAssumption, FixedAssumption, WritersAssumption, TextsAssumption, EditsAssumption

-----------------------------------------------------------------------------
(* Shapes.                                                                 *)

\* A configuration that is complete: neither torn nor missing.
Config(c) == {"fixed", "servers"} \subseteq DOMAIN c /\ c.fixed \in Fixed \union {1}
FileOK(f) == f \in {Missing, Torn} \/ Config(f)

\* An edit under way.
WriterOK(p) == {"pc", "cfg", "server", "stamp", "synced"} \subseteq DOMAIN p /\ Config(p.cfg)

WatcherOK == {"pc", "seen", "cfg"} \subseteq DOMAIN watcher /\ Config(watcher.cfg)

Shapes ==
    /\ FileOK(file) /\ \A f \in disk : FileOK(f)
    /\ Config(running) /\ WatcherOK
    /\ writer = [w \in Writers |-> writer[w]]
    /\ \A w \in Writers : WriterOK(writer[w])

\* A file about to be put in place is complete on the disk, or excused.
Unsynced(p) == p.pc = "rename" /\ ~p.synced
SyncInv == \A w \in Writers : Unsynced(writer[w]) => excused

TornInv == Shapes /\ SyncInv /\ NeverTorn

LEMMA ConfigsComplete == ASSUME NEW c, Config(c) PROVE c # Torn /\ c # Missing
  BY DEF Config, Torn, Missing

LEMMA Conversions ==
    ASSUME NEW c, Config(c)
    PROVE  /\ Config(Effective(c)) /\ Config(ApplyDefaults(c))
           /\ \A s, d : Config(Edited(c, s, d))
           /\ \A n \in Fixed \union {1} : Config([c EXCEPT !.fixed = n])
  BY DEF Config, Effective, ApplyDefaults, Edited

LEMMA DefaultConfig == Config(Default)
  BY DEF Config, Default

LEMMA LoadedConfig == ASSUME NEW f, FileOK(f), Loads(f) PROVE Config(Loaded(f))
<1>1. f = Missing \/ Config(f)
  BY DEF FileOK, Loads
<1>. QED
  BY <1>1, DefaultConfig, Conversions DEF Loaded

LEMMA IdleOK == WriterOK(Idle) /\ Idle.pc = "idle"
  BY DefaultConfig DEF WriterOK, Idle

\* A step of one writer, whatever else it does.
LEMMA WriterMoves ==
    ASSUME Shapes, SyncInv, NEW w \in Writers, NEW p, writer' = [writer EXCEPT ![w] = p],
           WriterOK(p), Unsynced(p) => excused', excused => excused'
    PROVE  /\ writer' = [v \in Writers |-> writer'[v]] /\ \A v \in Writers : WriterOK(writer'[v])
           /\ SyncInv'
<1>1. writer' = [v \in Writers |-> IF v = w THEN p ELSE writer[v]]
  BY DEF Shapes
<1>2. \A v \in Writers : WriterOK(writer[v]) /\ (Unsynced(writer[v]) => excused)
  BY DEF Shapes, SyncInv
<1>. QED
  BY <1>1, <1>2 DEF SyncInv

\* Several of them at once, back to the beginning.
LEMMA WritersEnd ==
    ASSUME Shapes, SyncInv, NEW W \in SUBSET Writers, UNCHANGED excused,
           writer' = [w \in Writers |-> IF w \in W THEN Idle ELSE writer[w]]
    PROVE  /\ writer' = [v \in Writers |-> writer'[v]] /\ \A v \in Writers : WriterOK(writer'[v])
           /\ SyncInv'
  BY IdleOK DEF Shapes, SyncInv, Unsynced

LEMMA TornInit == Init => TornInv
<1>. SUFFICES ASSUME Init PROVE TornInv
  OBVIOUS
<1>1. FileOK(file) /\ file # Torn
  BY DEF Init, FileOK, Config, Default, Missing, Torn
<1>2. WatcherOK /\ Config(running)
  BY DefaultConfig DEF Init, WatcherOK, Asleep
<1>3. writer = [w \in Writers |-> Idle]
  BY DEF Init
<1>4. Shapes
  BY <1>1, <1>2, <1>3, IdleOK DEF Init, Shapes
<1>5. SyncInv
  BY <1>3, IdleOK DEF SyncInv, Unsynced
<1>6. NeverTorn
  BY <1>1 DEF Init, NeverTorn
<1>. QED
  BY <1>4, <1>5, <1>6 DEF TornInv

-----------------------------------------------------------------------------
(* Never torn.                                                             *)

\* The file and what may be there after a power failure stay.
FileStays == UNCHANGED <<file, disk, excused>>

LEMMA EditTorn ==
    ASSUME TornInv, NEW w \in Writers, NEW c, Config(c), NEW s, StartEdit(w, c, s)
    PROVE  TornInv'
<1>. DEFINE p == [Idle EXCEPT !.pc = "save", !.cfg = ApplyDefaults(c), !.server = s]
<1>1. writer' = [writer EXCEPT ![w] = p] /\ FileStays /\ UNCHANGED <<running, watcher>>
  BY DEF StartEdit, FileStays
<1>2. WriterOK(p) /\ p.pc = "save"
  BY Conversions DEF WriterOK, Idle
<1>. HIDE DEF p
<1>3. ~Unsynced(p)
  BY <1>2 DEF Unsynced
<1>. QED
  BY <1>1, <1>2, <1>3, WriterMoves DEF TornInv, Shapes, FileStays, NeverTorn, WatcherOK

LEMMA RequestTorn ==
    ASSUME TornInv, NEW r \in Requests, PostServer(r) \/ PutServer(r) \/ RemoveServer(r)
    PROVE  TornInv'
<1>1. \E s, d : StartEdit(r, Edited(running, s, d), s)
  BY DEF PostServer, PutServer, RemoveServer, MutateConfig
<1>2. \A s, d : Config(Edited(running, s, d))
  BY Conversions DEF TornInv, Shapes
<1>. QED
  BY <1>1, <1>2, EditTorn DEF Writers

LEMMA CommandTorn ==
    ASSUME TornInv, NEW k \in Commands, ServerAdd(k) \/ ServerRemove(k) \/ InitConfig(k)
    PROVE  TornInv'
<1>1. \/ \E s, d : Loads(file) /\ StartEdit(k, Edited(Loaded(file), s, d), s)
      \/ \E s : StartEdit(k, Default, s)
  BY DEF ServerAdd, ServerRemove, InitConfig
<1>2. Loads(file) => \A s, d : Config(Edited(Loaded(file), s, d))
  BY LoadedConfig, Conversions DEF TornInv, Shapes
<1>. QED
  BY <1>1, <1>2, DefaultConfig, EditTorn DEF Writers

LEMMA WriteTmpTorn == ASSUME TornInv, NEW w \in Writers, WriteTmp(w) PROVE TornInv'
<1>1. PICK ok \in BOOLEAN :
        /\ writer' = [writer EXCEPT ![w] = [@ EXCEPT !.pc = "rename", !.synced = ok]]
        /\ excused' = (excused \/ ~ok)
  BY Zenon DEF WriteTmp
<1>. DEFINE p == [writer[w] EXCEPT !.pc = "rename", !.synced = ok]
<1>2. UNCHANGED <<file, disk, running, watcher>>
  BY DEF WriteTmp
<1>3. WriterOK(p) /\ p.synced = ok
  BY DEF TornInv, Shapes, WriterOK
<1>4. writer' = [writer EXCEPT ![w] = p]
  BY <1>1
<1>. HIDE DEF p
<1>5. (Unsynced(p) => excused') /\ (excused => excused')
  BY <1>1, <1>3 DEF Unsynced
<1>. QED
  BY <1>2, <1>3, <1>4, <1>5, WriterMoves DEF TornInv, Shapes, NeverTorn, WatcherOK

LEMMA RenameTorn == ASSUME TornInv, NEW w \in Writers, Rename(w) PROVE TornInv'
<1>. DEFINE p == writer[w]
            q == [p EXCEPT !.pc = "dir", !.stamp = stamp + 1]
<1>1. /\ p.pc = "rename" /\ file' = p.cfg
      /\ disk' = disk \union {p.cfg} \union (IF p.synced THEN {} ELSE {Torn})
      /\ writer' = [writer EXCEPT ![w] = q] /\ UNCHANGED <<running, watcher, excused>>
  BY Zenon DEF Rename
<1>2. Config(p.cfg) /\ p.cfg # Torn
  BY ConfigsComplete DEF TornInv, Shapes, WriterOK
<1>3. WriterOK(q) /\ q.pc = "dir"
  BY DEF TornInv, Shapes, WriterOK
<1>4. ~p.synced => excused
  BY <1>1 DEF TornInv, SyncInv, Unsynced
<1>. HIDE DEF q
<1>5. ~Unsynced(q)
  BY <1>3 DEF Unsynced
<1>6. NeverTorn'
  BY <1>1, <1>2, <1>4 DEF TornInv, NeverTorn
<1>. QED
  BY <1>1, <1>2, <1>3, <1>5, <1>6, WriterMoves DEF TornInv, Shapes, FileOK, WatcherOK

LEMMA SyncDirTorn == ASSUME TornInv, NEW w \in Writers, SyncDir(w) PROVE TornInv'
<1>. DEFINE p == IF w \in Requests THEN [writer[w] EXCEPT !.pc = "apply"] ELSE Idle
<1>1. /\ disk' \subseteq disk \union {file}
      /\ excused => excused'
      /\ writer' = [writer EXCEPT ![w] = p] /\ UNCHANGED <<file, running, watcher>>
  BY DEF SyncDir
<1>2. WriterOK(p) /\ p.pc # "rename"
  BY IdleOK DEF TornInv, Shapes, WriterOK
<1>. HIDE DEF p
<1>3. ~Unsynced(p)
  BY <1>2 DEF Unsynced
<1>. QED
  BY <1>1, <1>2, <1>3, WriterMoves DEF TornInv, Shapes, WatcherOK, NeverTorn

LEMMA WriterEndsTorn ==
    ASSUME TornInv, NEW w \in Writers, FailSave(w) \/ (w \in Requests /\ Answer(w)) PROVE TornInv'
<1>1. writer' = [writer EXCEPT ![w] = Idle] /\ UNCHANGED <<file, disk, watcher, excused>>
  BY DEF FailSave, Answer
<1>2. Config(running')
  BY DEF FailSave, Answer, TornInv, Shapes, WriterOK
<1>3. ~Unsynced(Idle)
  BY IdleOK DEF Unsynced
<1>. QED
  BY <1>1, <1>2, <1>3, IdleOK, WriterMoves DEF TornInv, Shapes, WatcherOK, NeverTorn

LEMMA EditorTorn == ASSUME TornInv, StartEditor \/ EndEditor PROVE TornInv'
<1>1. PICK f : /\ file' = f /\ disk' = {f} /\ UNCHANGED <<running, watcher, writer>>
               /\ \/ f \in {Torn, Missing} /\ excused'
                  \/ f \in Texts /\ UNCHANGED excused
  BY DEF StartEditor, EndEditor, Touch
<1>2. f \in Texts => Config(f)
  BY DEF Config
<1>3. FileOK(f) /\ (f = Torn => excused') /\ (excused => excused')
  <2>1. CASE f \in {Torn, Missing} /\ excused'
    BY <2>1 DEF FileOK
  <2>2. CASE f \in Texts /\ UNCHANGED excused
    BY <1>2, <2>2, ConfigsComplete DEF FileOK
  <2>. QED
    BY <1>1, <2>1, <2>2
<1>. QED
  BY <1>1, <1>3 DEF TornInv, Shapes, WatcherOK, SyncInv, NeverTorn

LEMMA ProcessTorn == ASSUME TornInv, Serve \/ Exit \/ PowerFailure PROVE TornInv'
<1>1. CASE Serve
  <2>1. Config(running')
    BY <1>1, LoadedConfig, Conversions DEF Serve, TornInv, Shapes
  <2>2. WatcherOK'
    BY <1>1, DefaultConfig DEF Serve, WatcherOK, Asleep
  <2>3. UNCHANGED <<file, disk, writer, excused>>
    BY <1>1 DEF Serve
  <2>. QED
    BY <2>1, <2>2, <2>3 DEF TornInv, Shapes, SyncInv, NeverTorn
<1>2. CASE Exit \/ PowerFailure
  <2>1. running' = Default /\ watcher' = Asleep /\ UNCHANGED excused
    BY <1>2 DEF Exit, PowerFailure, Down
  <2>2. Config(running') /\ WatcherOK'
    BY <2>1, DefaultConfig DEF WatcherOK, Asleep
  <2>3. \E W \in SUBSET Writers : writer' = [w \in Writers |-> IF w \in W THEN Idle ELSE writer[w]]
    <3>1. CASE Exit
      <4>1. Requests \in SUBSET Writers
        BY DEF Writers
      <4>2. writer' = [w \in Writers |-> IF w \in Requests THEN Idle ELSE writer[w]]
        BY <3>1 DEF Exit
      <4>. QED
        BY <4>1, <4>2
    <3>2. CASE PowerFailure
      <4>1. writer' = [w \in Writers |-> IF w \in Writers THEN Idle ELSE writer[w]]
        BY <3>2 DEF PowerFailure
      <4>. QED
        BY <4>1
    <3>. QED
      BY <1>2, <3>1, <3>2
  <2>4. (\A w \in Writers : WriterOK(writer'[w])) /\ writer' = [w \in Writers |-> writer'[w]] /\ SyncInv'
    BY <2>1, <2>3, WritersEnd DEF TornInv
  <2>5. disk' \subseteq disk /\ (file' = file \/ file' \in disk)
    BY <1>2 DEF Exit, PowerFailure
  <2>. QED
    BY <2>1, <2>2, <2>4, <2>5 DEF TornInv, Shapes, NeverTorn
<1>. QED
  BY <1>1, <1>2

LEMMA WatcherTorn == ASSUME TornInv, Check \/ Load \/ Reload PROVE TornInv'
<1>1. UNCHANGED <<file, disk, writer, excused>>
  BY DEF Check, Load, Reload
<1>2. WatcherOK'
  <2>1. CASE Check
    BY <2>1 DEF Check, TornInv, Shapes, WatcherOK
  <2>2. CASE Load
    <3>1. Loads(file) => Config(Loaded(file))
      BY LoadedConfig DEF TornInv, Shapes
    <3>. QED
      BY <2>2, <3>1 DEF Load, TornInv, Shapes, WatcherOK
  <2>3. CASE Reload
    BY <2>3, DefaultConfig DEF Reload, TornInv, Shapes, WatcherOK
  <2>. QED
    BY <2>1, <2>2, <2>3
<1>3. Config(running')
  <2>1. CASE Reload
    <3>1. Config(Effective(watcher.cfg)) /\ running.fixed \in Fixed \union {1}
      BY Conversions DEF TornInv, Shapes, WatcherOK, Config
    <3>. QED
      BY <2>1, <3>1, Conversions DEF Reload
  <2>2. CASE Check \/ Load
    BY <2>2 DEF Check, Load, TornInv, Shapes
  <2>. QED
    BY <2>1, <2>2
<1>. QED
  BY <1>1, <1>2, <1>3 DEF TornInv, Shapes, SyncInv, NeverTorn

LEMMA TornStep == ASSUME TornInv, [Next]_vars PROVE TornInv'
<1>0. Requests \subseteq Writers /\ Commands \subseteq Writers
  BY DEF Writers
<1>1. ASSUME NEW w \in Writers, Step(w) PROVE TornInv'
  BY <1>1, WriteTmpTorn, RenameTorn, SyncDirTorn, WriterEndsTorn DEF Step
<1>2. ASSUME NEW r \in Requests, PostServer(r) \/ PutServer(r) \/ RemoveServer(r) \/ Answer(r) PROVE TornInv'
  BY <1>0, <1>2, RequestTorn, WriterEndsTorn
<1>3. CASE UNCHANGED vars
  BY <1>3 DEF vars, TornInv, Shapes, WatcherOK, SyncInv, NeverTorn
<1>. QED
  BY <1>1, <1>2, <1>3, CommandTorn, EditorTorn, ProcessTorn, WatcherTorn DEF Next

\* A torn file is found, at any moment and after a power failure at any
\* moment, only where an editor or an unreported fsync error is the cause:
\* the order of write, sync and rename in Config.Save, for any number of
\* concurrent Saves.
THEOREM FileNeverTorn == Spec => []NeverTorn
<1>1. Init => TornInv
  BY TornInit
<1>2. TornInv /\ [Next]_vars => TornInv'
  BY TornStep
<1>3. TornInv => NeverTorn
  BY DEF TornInv
<1>. QED
  BY <1>1, <1>2, <1>3, PTL DEF Spec

-----------------------------------------------------------------------------
(* What a definition comes to: completed, then resolved.                   *)

Filling(x)  == IF x = None THEN None ELSE Completed(x)
Settling(x) == IF x = None THEN None ELSE Resolved(x)
Runs(x) == Settling(Filling(x))

\* The values in memory, and those a file may hold.
Values == Saved \union {None}
Texted == Values \union Defs

LEMMA ValueFacts ==
    ASSUME ResolvedOnce
    PROVE  /\ \A x \in Texted : Filling(x) \in Values /\ Runs(Filling(x)) = Runs(x)
           /\ \A x \in Values : /\ Filling(x) = x /\ Settling(x) \in Values
                                /\ Runs(Settling(x)) = Runs(x) /\ Runs(x) = Settling(x)
           /\ None \in Values /\ Free \notin Values
<1>1. \A d \in Defs : Completed(d) \in Saved /\ Resolved(Completed(d)) \in Saved
  BY DEF Saved
<1>2. \A e \in Saved : Completed(e) = e /\ Resolved(Resolved(e)) = Resolved(e) /\ e # None /\ e # Free
  BY CompletedAssumption DEF ResolvedOnce
<1>3. \A e \in Saved : Resolved(e) \in Saved
  BY <1>1, <1>2 DEF Saved
<1>4. None # Free
  BY DEF None, Free
<1>5. \A d \in Defs : d # None
  OBVIOUS
<1>6. \A x \in Texted : Filling(x) \in Values
  BY <1>1, <1>2, <1>5 DEF Texted, Values, Filling
<1>7. \A x \in Values : Filling(x) = x
  BY <1>2 DEF Values, Filling
<1>8. \A x \in Values : Settling(x) \in Values /\ Settling(Settling(x)) = Settling(x)
  BY <1>2, <1>3 DEF Values, Settling
<1>. QED
  BY <1>2, <1>4, <1>6, <1>7, <1>8 DEF Runs, Values

Filled(c) == "servers" \in DOMAIN c /\ c.servers \in [Servers -> Values]
Found(f)  == "servers" \in DOMAIN f /\ f.servers \in [Servers -> Texted]

LEMMA FilledIsFound == ASSUME NEW c, Filled(c) PROVE Found(c)
  BY DEF Filled, Found, Texted

AllFilling(f)  == [s \in Servers |-> Filling(f[s])]
AllSettling(f) == [s \in Servers |-> Settling(f[s])]

LEMMA DefaultsValues ==
    ASSUME NEW c, "servers" \in DOMAIN c
    PROVE  /\ "servers" \in DOMAIN ApplyDefaults(c)
           /\ ApplyDefaults(c).servers = AllFilling(c.servers)
  BY DEF ApplyDefaults, Filling, AllFilling

LEMMA EffectiveValues ==
    ASSUME NEW c, "servers" \in DOMAIN c
    PROVE  /\ "servers" \in DOMAIN Effective(c)
           /\ Effective(c).servers = AllSettling(c.servers)
  BY DEF Effective, Settling, AllSettling

LEMMA ConversionValues ==
    ASSUME ResolvedOnce, NEW c, Found(c)
    PROVE  /\ Filled(ApplyDefaults(c)) /\ \A s \in Servers : ApplyDefaults(c).servers[s] = Filling(c.servers[s])
           /\ Filled(c) => /\ Filled(Effective(c))
                           /\ \A s \in Servers : Effective(c).servers[s] = Settling(c.servers[s])
           /\ \A s \in Servers : Effective(ApplyDefaults(c)).servers[s] = Runs(c.servers[s])
<1>. DEFINE e == Effective(c)
            a == ApplyDefaults(c)
            ea == Effective(a)
<1>1. "servers" \in DOMAIN c /\ c.servers \in [Servers -> Texted]
  BY DEF Found
<1>2. "servers" \in DOMAIN a /\ a.servers = AllFilling(c.servers)
  BY <1>1, DefaultsValues
<1>3. "servers" \in DOMAIN e /\ e.servers = AllSettling(c.servers)
  BY <1>1, EffectiveValues
<1>4. ea.servers = AllSettling(a.servers)
  BY <1>2, EffectiveValues
<1>. HIDE DEF e, a, ea
<1>5. Filled(a) /\ \A s \in Servers : a.servers[s] = Filling(c.servers[s])
  BY <1>1, <1>2, ValueFacts DEF Filled, AllFilling
<1>6. \A s \in Servers : e.servers[s] = Settling(c.servers[s])
  BY <1>3, Zenon DEF AllSettling
<1>8. \A s \in Servers : ea.servers[s] = Runs(c.servers[s])
  <2>1. \A s \in Servers : ea.servers[s] = Settling(a.servers[s])
    BY <1>4, Zenon DEF AllSettling
  <2>. QED
    BY <1>5, <2>1, Zenon DEF Runs
<1>7. ASSUME Filled(c) PROVE Filled(e)
  <2>1. \A s \in Servers : Settling(c.servers[s]) \in Values
    BY <1>7, ValueFacts DEF Filled
  <2>. QED
    BY <1>3, <2>1 DEF Filled, AllSettling
<1>. QED
  BY <1>5, <1>6, <1>7, <1>8 DEF e, a, ea

LEMMA DefaultFilled == Filled(Default) /\ Found(Missing) /\ Found(Torn)
  BY DEF Filled, Found, Default, Missing, Torn, Values, Texted

LEMMA LoadedValues ==
    ASSUME ResolvedOnce, NEW f, Found(f)
    PROVE  Filled(Loaded(f)) /\ \A s \in Servers : Runs(Loaded(f).servers[s]) = Runs(f.servers[s])
<1>1. CASE f = Missing
  BY <1>1, DefaultFilled DEF Loaded, Missing
<1>2. CASE f # Missing
  BY <1>2, ConversionValues, ValueFacts DEF Loaded, Found
<1>. QED
  BY <1>1, <1>2

LEMMA EditedValues ==
    ASSUME NEW c, Filled(c), NEW s \in Servers, NEW d \in Defs \union {None}
    PROVE  Found(Edited(c, s, d)) /\ \A t \in Servers \ {s} : Edited(c, s, d).servers[t] = c.servers[t]
  BY DEF Edited, Filled, Found, Texted, Values

\* What c comes to is what was promised.
Keeps(c, pr) == \A s \in Servers : pr[s] # Free => Runs(c.servers[s]) = Runs(pr[s])

LEMMA NothingKept == ASSUME NEW c PROVE Keeps(c, Nothing)
  BY DEF Keeps, Nothing

LEMMA SameServerIs ==
    ASSUME ResolvedOnce, NEW c, Found(c), NEW s \in Servers, NEW d \in Values
    PROVE  SameServer(c, s, d) <=> Runs(c.servers[s]) = Runs(d)
<1>1. Runs(d) = IF d = None THEN None ELSE Resolved(d)
  BY ValueFacts DEF Settling
<1>. QED
  BY <1>1, ConversionValues DEF SameServer

-----------------------------------------------------------------------------
(* Acknowledged edits.                                                     *)

WriterValues(p) == Filled(p.cfg) /\ (p.pc # "idle" => p.server \in Servers) /\ p.stamp \in 0..stamp

ValueInv ==
    /\ Found(file) /\ (\A f \in disk : Found(f)) /\ Filled(running) /\ Filled(watcher.cfg)
    /\ \A w \in Writers : WriterValues(writer[w])
    /\ promised \in [Servers -> Values \union {Free}]
    /\ stamp \in Nat

\* configMu: one request at a time.
SerialInv == \A q, r \in Requests : writer[q].pc # "idle" /\ writer[r].pc # "idle" => q = r

\* What the request is about to save has the other promised servers as
\* promised; unless somebody changed the file since, it is there, and on the
\* disk once the directory is synced.
Saving(r) ==
    LET p == writer[r] IN
    /\ p.pc \in {"save", "rename"} => \A t \in Servers \ {p.server} :
            promised[t] # Free => Runs(p.cfg.servers[t]) = Runs(promised[t])
    /\ p.pc \in {"dir", "apply"} /\ p.stamp = stamp => file = p.cfg
    /\ p.pc = "apply" /\ p.stamp = stamp /\ ~excused => disk = {file}

KeptInv ==
    /\ Keeps(file, promised)
    /\ ~excused => \A f \in disk : Keeps(f, promised)
    /\ up => Keeps(running, promised)

AckInv == ValueInv /\ SerialInv /\ (\A r \in Requests : Saving(r)) /\ KeptInv

LEMMA AckMeans == ASSUME ResolvedOnce, AckInv PROVE AcknowledgedKept
<1>. SUFFICES ASSUME NEW s \in Servers, promised[s] # Free
              PROVE  /\ \A c \in {file} \union (IF excused THEN {} ELSE disk) : SameServer(c, s, promised[s])
                     /\ up => SameServer(running, s, promised[s])
  BY DEF AcknowledgedKept
<1>1. promised[s] \in Values
  BY DEF AckInv, ValueInv
<1>2. \A c \in {file} \union (IF excused THEN {} ELSE disk) : Found(c) /\ Keeps(c, promised)
  BY DEF AckInv, ValueInv, KeptInv
<1>3. Found(running) /\ (up => Keeps(running, promised))
  BY FilledIsFound DEF AckInv, ValueInv, KeptInv
<1>. QED
  BY <1>1, <1>2, <1>3, SameServerIs DEF Keeps

LEMMA AckInit == ASSUME ResolvedOnce, Init PROVE AckInv
<1>1. Found(file)
  BY DefaultFilled, FilledIsFound DEF Init, Default, Found, Filled
<1>2. \A w \in Writers : writer[w] = Idle
  BY DEF Init
<1>3. Idle.cfg = Default /\ Idle.stamp = 0 /\ Idle.pc = "idle"
  BY DEF Idle
<1>4. ValueInv
  <2>1. watcher.cfg = Default
    BY DEF Init, Asleep
  <2>2. promised \in [Servers -> Values \union {Free}]
    BY DEF Init, Nothing
  <2>3. \A w \in Writers : WriterValues(writer[w])
    BY <1>2, <1>3, DefaultFilled DEF WriterValues, Init
  <2>. QED
    BY <1>1, <2>1, <2>2, <2>3, DefaultFilled DEF Init, ValueInv
<1>5. SerialInv /\ \A r \in Requests : Saving(r)
  BY <1>2, <1>3 DEF SerialInv, Saving, Writers
<1>6. KeptInv
  BY NothingKept DEF Init, KeptInv
<1>. QED
  BY <1>4, <1>5, <1>6 DEF AckInv

\* Nothing more is promised than before.
Weaker == promised' \in [Servers -> Values \union {Free}] /\ \A t \in Servers : promised'[t] \in {promised[t], Free}

LEMMA WeakerKept == ASSUME Weaker, NEW c, Keeps(c, promised) PROVE Keeps(c, promised')
  BY DEF Weaker, Keeps

LEMMA WeakerThan ==
    ASSUME ValueInv, promised' = promised \/ promised' = Nothing
    PROVE  Weaker
  BY DEF ValueInv, Weaker, Nothing

\* Somebody else's step: the file stays and no more than before may be on the
\* disk, or it is a new file.
Elsewhere ==
    \/ UNCHANGED <<stamp, file>> /\ (excused => excused') /\ (~excused' => disk' = disk \/ disk' = {file})
    \/ stamp' = stamp + 1

LEMMA SavingGoesOn ==
    ASSUME ValueInv, Weaker, Elsewhere, NEW r \in Requests, Saving(r), writer'[r] = writer[r]
    PROVE  Saving(r)'
<1>1. writer[r].stamp \in 0..stamp /\ stamp \in Nat
  BY DEF ValueInv, WriterValues, Writers
<1>. QED
  BY <1>1 DEF Saving, Weaker, Elsewhere

LEMMA WriterAdvances ==
    ASSUME Shapes, ValueInv, SerialInv, NEW w \in Writers, NEW p, writer' = [writer EXCEPT ![w] = p],
           Filled(p.cfg), p.pc # "idle" => p.server \in Servers, p.stamp \in 0..stamp', stamp' \in {stamp, stamp + 1},
           \/ p.pc = "idle" \/ writer[w].pc # "idle" \/ w \in Commands
           \/ \A q \in Requests : writer[q].pc = "idle"
    PROVE  /\ \A v \in Writers : WriterValues(writer[v])'
           /\ SerialInv'
           /\ \A v \in Writers \ {w} : writer'[v] = writer[v]
           /\ writer'[w] = p
<1>1. \A v \in Writers : writer'[v] = IF v = w THEN p ELSE writer[v]
  BY DEF Shapes
<1>2. \A v \in Writers : WriterValues(writer[v])'
  BY <1>1 DEF ValueInv, WriterValues
<1>3. SerialInv'
  BY <1>1 DEF SerialInv, Writers
<1>. QED
  BY <1>1, <1>2, <1>3

\* A step after which file, disk and what runs are as before.
LEMMA Untouched ==
    ASSUME AckInv, UNCHANGED <<file, disk, up, running, stamp, promised>>, excused => excused'
    PROVE  KeptInv' /\ Weaker /\ Elsewhere /\ Found(file)' /\ (\A f \in disk' : Found(f)) /\ Filled(running)'
<1>1. KeptInv'
  BY DEF AckInv, KeptInv
<1>. QED
  BY <1>1, WeakerThan DEF AckInv, ValueInv, Elsewhere

LEMMA EditAck ==
    ASSUME ResolvedOnce, Shapes, AckInv, NEW w \in Writers, NEW c, Found(c), NEW s \in Servers, StartEdit(w, c, s),
           w \notin Commands => /\ \A q \in Requests : writer[q].pc = "idle"
                                /\ \A t \in Servers \ {s} :
                                        promised[t] # Free => Runs(c.servers[t]) = Runs(promised[t])
    PROVE  AckInv'
<1>. DEFINE p == [Idle EXCEPT !.pc = "save", !.cfg = ApplyDefaults(c), !.server = s]
<1>1. /\ writer' = [writer EXCEPT ![w] = p]
      /\ UNCHANGED <<file, disk, stamp, up, running, watcher, promised, overtaken, excused>>
  BY DEF StartEdit
<1>2. p.pc = "save" /\ p.cfg = ApplyDefaults(c) /\ p.server = s /\ p.stamp = 0
  BY DEF Idle
<1>. HIDE DEF p
<1>3. Filled(p.cfg) /\ p.stamp \in 0..stamp /\ \A t \in Servers : Runs(p.cfg.servers[t]) = Runs(c.servers[t])
  BY <1>2, ConversionValues, ValueFacts DEF Found, AckInv, ValueInv
<1>4. /\ KeptInv' /\ Weaker /\ Elsewhere
      /\ Found(file)' /\ (\A f \in disk' : Found(f)) /\ Filled(running)'
  BY <1>1, Untouched
<1>5. /\ (\A v \in Writers : WriterValues(writer[v])') /\ SerialInv'
      /\ (\A v \in Writers \ {w} : writer'[v] = writer[v]) /\ writer'[w] = p
  BY <1>1, <1>2, <1>3, WriterAdvances DEF AckInv, ValueInv
<1>6. ValueInv'
  BY <1>1, <1>4, <1>5 DEF AckInv, ValueInv
<1>7. ASSUME NEW r \in Requests PROVE Saving(r)'
  <2>1. CASE r # w
    BY <1>4, <1>5, <2>1, SavingGoesOn DEF AckInv, Writers
  <2>2. CASE r = w
    BY <1>1, <1>2, <1>3, <1>5, <2>2 DEF Saving
  <2>. QED
    BY <2>1, <2>2
<1>. QED
  BY <1>4, <1>5, <1>6, <1>7 DEF AckInv

LEMMA RequestAck ==
    ASSUME ResolvedOnce, Shapes, AckInv, NEW r \in Requests, PostServer(r) \/ PutServer(r) \/ RemoveServer(r)
    PROVE  AckInv'
<1>1. PICK s \in Servers, d \in Defs \union {None} : MutateConfig(r, s, d)
  BY DEF PostServer, PutServer, RemoveServer
<1>2. /\ StartEdit(r, Edited(running, s, d), s)
      /\ up /\ \A q \in Requests : writer[q].pc = "idle"
  BY <1>1 DEF MutateConfig
<1>3. Found(Edited(running, s, d)) /\ \A t \in Servers \ {s} : Edited(running, s, d).servers[t] = running.servers[t]
  BY EditedValues DEF AckInv, ValueInv
<1>4. Keeps(running, promised)
  BY <1>2 DEF AckInv, KeptInv
<1>5. \A t \in Servers \ {s} : promised[t] # Free => Runs(Edited(running, s, d).servers[t]) = Runs(promised[t])
  BY <1>3, <1>4, Zenon DEF Keeps
<1>. QED
  BY <1>2, <1>3, <1>5, EditAck DEF Writers

LEMMA CommandAck ==
    ASSUME ResolvedOnce, Shapes, AckInv, NEW k \in Commands, ServerAdd(k) \/ ServerRemove(k) \/ InitConfig(k)
    PROVE  AckInv'
<1>1. \/ \E s \in Servers, d \in Defs \union {None} : StartEdit(k, Edited(Loaded(file), s, d), s)
      \/ \E s \in Servers : StartEdit(k, Default, s)
  BY DEF ServerAdd, ServerRemove, InitConfig
<1>2. Filled(Loaded(file))
  BY LoadedValues DEF AckInv, ValueInv
<1>3. \A s \in Servers, d \in Defs \union {None} : Found(Edited(Loaded(file), s, d))
  BY <1>2, EditedValues
<1>4. PICK c, s : s \in Servers /\ Found(c) /\ StartEdit(k, c, s)
  BY <1>1, <1>3, DefaultFilled, FilledIsFound
<1>5. k \in Writers
  BY DEF Writers
<1>. QED
  BY <1>4, <1>5, EditAck

LEMMA WriteTmpAck == ASSUME Shapes, AckInv, NEW w \in Writers, WriteTmp(w) PROVE AckInv'
<1>1. PICK ok \in BOOLEAN :
        /\ writer' = [writer EXCEPT ![w] = [@ EXCEPT !.pc = "rename", !.synced = ok]]
        /\ excused' = (excused \/ ~ok)
  BY Zenon DEF WriteTmp
<1>. DEFINE o == writer[w]
            p == [o EXCEPT !.pc = "rename", !.synced = ok]
<1>2. o.pc = "save" /\ UNCHANGED <<file, disk, stamp, up, running, watcher, promised, overtaken>>
  BY DEF WriteTmp
<1>3. p.pc = "rename" /\ p.cfg = o.cfg /\ p.server = o.server /\ p.stamp = o.stamp
  BY DEF Shapes, WriterOK
<1>4. writer' = [writer EXCEPT ![w] = p]
  BY <1>1
<1>. HIDE DEF p
<1>5. /\ KeptInv' /\ Weaker /\ Elsewhere
      /\ Found(file)' /\ (\A f \in disk' : Found(f)) /\ Filled(running)'
  BY <1>1, <1>2, Untouched
<1>6. Filled(p.cfg) /\ p.server \in Servers /\ p.stamp \in 0..stamp
  BY <1>2, <1>3 DEF AckInv, ValueInv, WriterValues
<1>7. /\ (\A v \in Writers : WriterValues(writer[v])') /\ SerialInv'
      /\ (\A v \in Writers \ {w} : writer'[v] = writer[v]) /\ writer'[w] = p
  BY <1>2, <1>4, <1>6, WriterAdvances DEF AckInv
<1>8. ValueInv'
  BY <1>2, <1>5, <1>7 DEF AckInv, ValueInv
<1>9. ASSUME NEW r \in Requests PROVE Saving(r)'
  <2>1. CASE r # w
    BY <1>5, <1>7, <2>1, SavingGoesOn DEF AckInv, Writers
  <2>2. CASE r = w
    <3>1. \A t \in Servers \ {o.server} : promised[t] # Free => Runs(o.cfg.servers[t]) = Runs(promised[t])
      BY <1>2, <2>2 DEF AckInv, Saving
    <3>. QED
      BY <1>2, <1>3, <1>7, <2>2, <3>1 DEF Saving
  <2>. QED
    BY <2>1, <2>2
<1>. QED
  BY <1>5, <1>7, <1>8, <1>9 DEF AckInv

LEMMA RenameAck == ASSUME TornInv, AckInv, NEW w \in Writers, Rename(w) PROVE AckInv'
<1>. DEFINE o == writer[w]
            p == [o EXCEPT !.pc = "dir", !.stamp = stamp + 1]
<1>1. /\ o.pc = "rename" /\ file' = o.cfg /\ stamp' = stamp + 1
      /\ disk' = disk \union {o.cfg} \union (IF o.synced THEN {} ELSE {Torn})
      /\ writer' = [writer EXCEPT ![w] = p]
      /\ UNCHANGED <<up, running, watcher, overtaken, excused>>
  BY Zenon DEF Rename
<1>2. promised' = [s \in Servers |-> IF w \in Commands \/ s = o.server THEN Free ELSE promised[s]]
  BY DEF Rename
<1>3. p.pc = "dir" /\ p.cfg = o.cfg /\ p.server = o.server /\ p.stamp = stamp + 1
  BY DEF TornInv, Shapes, WriterOK
<1>. HIDE DEF p
<1>4. Filled(o.cfg) /\ o.server \in Servers /\ stamp \in Nat
  BY <1>1 DEF AckInv, ValueInv, WriterValues
<1>5. ~o.synced => excused
  BY <1>1 DEF TornInv, SyncInv, Unsynced
<1>6. Weaker /\ Elsewhere
  BY <1>1, <1>2 DEF AckInv, ValueInv, Weaker, Elsewhere
<1>7. Keeps(o.cfg, promised')
  <2>1. CASE w \in Commands
    BY <1>2, <2>1 DEF Keeps
  <2>2. CASE w \notin Commands
    <3>1. \A t \in Servers \ {o.server} : promised[t] # Free => Runs(o.cfg.servers[t]) = Runs(promised[t])
      BY <1>1, <2>2 DEF AckInv, Saving, Writers
    <3>. QED
      BY <1>2, <2>2, <3>1 DEF Keeps
  <2>. QED
    BY <2>1, <2>2
<1>8. KeptInv'
  <2>1. ASSUME NEW f \in disk', ~excused' PROVE Keeps(f, promised')
    <3>1. f \in disk \/ f = o.cfg
      BY <1>1, <1>5, <2>1
    <3>. QED
      BY <1>1, <1>6, <1>7, <2>1, <3>1, WeakerKept DEF AckInv, KeptInv
  <2>2. up' => Keeps(running', promised')
    BY <1>1, <1>6, WeakerKept DEF AckInv, KeptInv
  <2>. QED
    BY <1>1, <1>7, <2>1, <2>2 DEF KeptInv
<1>9. /\ (\A v \in Writers : WriterValues(writer[v])') /\ SerialInv'
      /\ (\A v \in Writers \ {w} : writer'[v] = writer[v]) /\ writer'[w] = p
  <2>1. Filled(p.cfg) /\ p.server \in Servers /\ p.stamp \in 0..stamp' /\ p.pc # "idle" /\ o.pc # "idle"
    BY <1>1, <1>3, <1>4
  <2>. QED
    BY <1>1, <2>1, WriterAdvances DEF AckInv, TornInv
<1>10. ValueInv'
  BY <1>1, <1>4, <1>6, <1>9, DefaultFilled, FilledIsFound DEF AckInv, ValueInv, Weaker
<1>11. ASSUME NEW r \in Requests PROVE Saving(r)'
  <2>1. CASE r # w
    BY <1>6, <1>9, <2>1, SavingGoesOn DEF AckInv, Writers
  <2>2. CASE r = w
    BY <1>1, <1>3, <1>9, <2>2 DEF Saving
  <2>. QED
    BY <2>1, <2>2
<1>. QED
  BY <1>8, <1>9, <1>10, <1>11 DEF AckInv

LEMMA SyncDirAck == ASSUME TornInv, AckInv, NEW w \in Writers, SyncDir(w) PROVE AckInv'
<1>. DEFINE o == writer[w]
            p == IF w \in Requests THEN [o EXCEPT !.pc = "apply"] ELSE Idle
<1>1. PICK ok \in BOOLEAN : /\ disk' = (IF ok THEN {file} \union (disk \intersect {Torn}) ELSE disk)
                           /\ excused' = (excused \/ ~ok)
  BY Zenon DEF SyncDir
<1>2. /\ o.pc = "dir" /\ writer' = [writer EXCEPT ![w] = p]
      /\ UNCHANGED <<file, stamp, up, running, watcher, promised, overtaken>>
  BY DEF SyncDir
<1>3. /\ w \in Requests => p.pc = "apply" /\ p.cfg = o.cfg /\ p.server = o.server /\ p.stamp = o.stamp
      /\ w \notin Requests => p = Idle
  BY DEF TornInv, Shapes, WriterOK
<1>. HIDE DEF p
<1>4. ~excused' => ok /\ ~excused /\ disk' = {file}
  BY <1>1 DEF TornInv, NeverTorn
<1>5. /\ Filled(o.cfg) /\ o.server \in Servers /\ o.stamp \in 0..stamp
      /\ Idle.pc = "idle" /\ Filled(Idle.cfg) /\ Idle.stamp \in 0..stamp
  BY <1>2, DefaultFilled DEF AckInv, ValueInv, WriterValues, Idle
<1>6. Weaker /\ Elsewhere
  BY <1>1, <1>2, <1>4, WeakerThan DEF AckInv, Elsewhere
<1>7. KeptInv'
  BY <1>2, <1>4 DEF AckInv, KeptInv
<1>8. /\ (\A v \in Writers : WriterValues(writer[v])') /\ SerialInv'
      /\ (\A v \in Writers \ {w} : writer'[v] = writer[v]) /\ writer'[w] = p
  <2>1. Filled(p.cfg) /\ (p.pc # "idle" => p.server \in Servers) /\ p.stamp \in 0..stamp'
    BY <1>2, <1>3, <1>5
  <2>. QED
    BY <1>2, <2>1, WriterAdvances DEF AckInv, TornInv
<1>9. ValueInv'
  BY <1>1, <1>2, <1>8 DEF AckInv, ValueInv
<1>10. ASSUME NEW r \in Requests PROVE Saving(r)'
  <2>1. CASE r # w
    BY <1>6, <1>8, <2>1, SavingGoesOn DEF AckInv, Writers
  <2>2. CASE r = w
    <3>1. o.stamp = stamp => file = o.cfg
      BY <1>2, <2>2 DEF AckInv, Saving
    <3>. QED
      BY <1>2, <1>3, <1>4, <1>8, <2>2, <3>1 DEF Saving
  <2>. QED
    BY <2>1, <2>2
<1>. QED
  BY <1>7, <1>8, <1>9, <1>10 DEF AckInv

LEMMA FailSaveAck == ASSUME Shapes, AckInv, NEW w \in Writers, FailSave(w) PROVE AckInv'
<1>1. /\ writer' = [writer EXCEPT ![w] = Idle]
      /\ UNCHANGED <<file, disk, stamp, up, running, watcher, promised, overtaken, excused>>
  BY DEF FailSave
<1>2. /\ KeptInv' /\ Weaker /\ Elsewhere
      /\ Found(file)' /\ (\A f \in disk' : Found(f)) /\ Filled(running)'
  BY <1>1, Untouched
<1>3. Idle.pc = "idle" /\ Filled(Idle.cfg) /\ Idle.stamp \in 0..stamp'
  BY <1>1, DefaultFilled DEF Idle, AckInv, ValueInv
<1>4. /\ (\A v \in Writers : WriterValues(writer[v])') /\ SerialInv'
      /\ (\A v \in Writers \ {w} : writer'[v] = writer[v]) /\ writer'[w] = Idle
  BY <1>1, <1>3, WriterAdvances DEF AckInv
<1>5. ValueInv'
  BY <1>1, <1>2, <1>4 DEF AckInv, ValueInv
<1>6. ASSUME NEW r \in Requests PROVE Saving(r)'
  <2>1. CASE r # w
    BY <1>2, <1>4, <2>1, SavingGoesOn DEF AckInv, Writers
  <2>2. CASE r = w
    BY <1>3, <1>4, <2>2 DEF Saving
  <2>. QED
    BY <2>1, <2>2
<1>. QED
  BY <1>2, <1>4, <1>5, <1>6 DEF AckInv

LEMMA AnswerAck == ASSUME Shapes, AckInv, NEW r \in Requests, Answer(r) PROVE AckInv'
<1>. DEFINE o == writer[r]
<1>1. /\ o.pc = "apply" /\ running' = o.cfg /\ writer' = [writer EXCEPT ![r] = Idle]
      /\ UNCHANGED <<file, disk, stamp, up, watcher, excused>>
  BY DEF Answer
<1>2. promised' = (IF stamp = o.stamp THEN [promised EXCEPT ![o.server] = o.cfg.servers[o.server]] ELSE Nothing)
  BY DEF Answer
<1>3. r \in Writers /\ Filled(o.cfg) /\ o.server \in Servers /\ o.cfg.servers[o.server] \in Values
  BY <1>1 DEF AckInv, ValueInv, WriterValues, Writers, Filled
<1>4. Idle.pc = "idle" /\ Filled(Idle.cfg) /\ Idle.stamp \in 0..stamp'
  BY <1>1, DefaultFilled DEF Idle, AckInv, ValueInv
<1>5. /\ (\A v \in Writers : WriterValues(writer[v])') /\ SerialInv'
      /\ (\A v \in Writers \ {r} : writer'[v] = writer[v]) /\ writer'[r] = Idle
  BY <1>1, <1>3, <1>4, WriterAdvances DEF AckInv
<1>6. promised' \in [Servers -> Values \union {Free}]
  BY <1>2, <1>3 DEF AckInv, ValueInv, Nothing
<1>7. ValueInv'
  BY <1>1, <1>3, <1>5, <1>6 DEF AckInv, ValueInv
<1>8. \A q \in Requests : writer'[q].pc = "idle"
  BY <1>1, <1>4, <1>5 DEF AckInv, SerialInv, Writers
<1>9. \A q \in Requests : Saving(q)'
  BY <1>8 DEF Saving
<1>10. KeptInv'
  <2>1. CASE stamp = o.stamp
    <3>1. file = o.cfg /\ (~excused => disk = {file})
      BY <1>1, <2>1 DEF AckInv, Saving
    <3>2. \A t \in Servers : promised'[t] = IF t = o.server THEN o.cfg.servers[t] ELSE promised[t]
      BY <1>2, <2>1 DEF AckInv, ValueInv
    <3>3. Keeps(file, promised')
      BY <3>1, <3>2 DEF AckInv, KeptInv, Keeps
    <3>. QED
      BY <1>1, <3>1, <3>3 DEF KeptInv
  <2>2. CASE stamp # o.stamp
    BY <1>2, <2>2, NothingKept DEF KeptInv
  <2>. QED
    BY <2>1, <2>2
<1>. QED
  BY <1>5, <1>7, <1>9, <1>10 DEF AckInv

LEMMA EditorAck == ASSUME AckInv, StartEditor \/ EndEditor PROVE AckInv'
<1>1. PICK f \in {Torn, Missing} \union Texts : Touch(f)
  BY DEF StartEditor, EndEditor
<1>2. /\ file' = f /\ stamp' = stamp + 1 /\ disk' = {f} /\ promised' = Nothing
      /\ UNCHANGED <<up, running, watcher, writer, overtaken>>
  BY <1>1 DEF Touch
<1>3. Found(f)
  <2>1. CASE f \in {Torn, Missing}
    BY <2>1, DefaultFilled
  <2>2. CASE f \in Texts
    BY <2>2 DEF Found, Texted, Values
  <2>. QED
    BY <2>1, <2>2
<1>4. Weaker /\ Elsewhere
  BY <1>2, WeakerThan DEF AckInv, Elsewhere
<1>5. ValueInv'
  BY <1>2, <1>3, <1>4 DEF AckInv, ValueInv, WriterValues, Weaker
<1>6. \A r \in Requests : Saving(r)'
  BY <1>2, <1>4, SavingGoesOn DEF AckInv
<1>7. SerialInv'
  BY <1>2 DEF AckInv, SerialInv
<1>8. KeptInv'
  BY <1>2, NothingKept DEF KeptInv
<1>. QED
  BY <1>5, <1>6, <1>7, <1>8 DEF AckInv

\* What serve starts with, and what a reload applies.
LEMMA ServedValues ==
    ASSUME ResolvedOnce, NEW f, Found(f)
    PROVE  /\ Filled(Effective(Loaded(f)))
           /\ \A s \in Servers : Runs(Effective(Loaded(f)).servers[s]) = Runs(f.servers[s])
<1>1. Filled(Loaded(f)) /\ \A s \in Servers : Runs(Loaded(f).servers[s]) = Runs(f.servers[s])
  BY LoadedValues
<1>2. /\ Filled(Effective(Loaded(f)))
      /\ \A s \in Servers : Effective(Loaded(f)).servers[s] = Settling(Loaded(f).servers[s])
  BY <1>1, FilledIsFound, ConversionValues
<1>3. \A s \in Servers : Loaded(f).servers[s] \in Values
  BY <1>1 DEF Filled
<1>. QED
  BY <1>1, <1>2, <1>3, ValueFacts

LEMMA FixedApart ==
    ASSUME NEW c, Filled(c), NEW n
    PROVE  LET e == [c EXCEPT !.fixed = n] IN Filled(e) /\ \A s \in Servers : e.servers[s] = c.servers[s]
  BY DEF Filled

LEMMA ServeAck == ASSUME ResolvedOnce, AckInv, Serve PROVE AckInv'
<1>1. /\ running' = Effective(Loaded(file)) /\ watcher' = Asleep
      /\ UNCHANGED <<file, disk, stamp, writer, edits, promised, excused>>
  BY DEF Serve
<1>2. Filled(running') /\ \A s \in Servers : Runs(running'.servers[s]) = Runs(file.servers[s])
  BY <1>1, ServedValues DEF AckInv, ValueInv
<1>3. Keeps(running', promised)
  BY <1>2 DEF AckInv, KeptInv, Keeps
<1>4. Filled(watcher'.cfg)
  BY <1>1, DefaultFilled DEF Asleep
<1>5. ValueInv'
  BY <1>1, <1>2, <1>4 DEF AckInv, ValueInv, WriterValues
<1>6. (\A r \in Requests : Saving(r)') /\ SerialInv'
  BY <1>1 DEF AckInv, Saving, SerialInv
<1>7. KeptInv'
  BY <1>1, <1>3 DEF AckInv, KeptInv
<1>. QED
  BY <1>5, <1>6, <1>7 DEF AckInv

LEMMA StopAck == ASSUME AckInv, Exit \/ PowerFailure PROVE AckInv'
<1>1. /\ ~up' /\ running' = Default /\ watcher' = Asleep /\ UNCHANGED <<stamp, excused>>
      /\ promised' = promised \/ promised' = Nothing
  BY DEF Exit, PowerFailure, Down
<1>2. \A w \in Writers : writer'[w] = Idle \/ (w \notin Requests /\ writer'[w] = writer[w])
  BY DEF Exit, PowerFailure
<1>3. Idle.pc = "idle" /\ Filled(Idle.cfg) /\ Idle.stamp \in 0..stamp
  BY <1>1, DefaultFilled DEF Idle, AckInv, ValueInv
<1>4. \A w \in Writers : WriterValues(writer[w])'
  BY <1>1, <1>2, <1>3 DEF AckInv, ValueInv, WriterValues
<1>5. \A r \in Requests : writer'[r].pc = "idle"
  BY <1>2, <1>3 DEF Writers
<1>6. (\A r \in Requests : Saving(r)') /\ SerialInv'
  BY <1>5 DEF Saving, SerialInv
<1>7. /\ Found(file') /\ \A f \in disk' : Found(f)
      /\ Filled(running') /\ Filled(watcher'.cfg)
  BY <1>1, DefaultFilled DEF AckInv, ValueInv, Exit, PowerFailure, Asleep
<1>8. Weaker
  BY <1>1, WeakerThan DEF AckInv
<1>9. ValueInv'
  BY <1>1, <1>4, <1>7, <1>8 DEF AckInv, ValueInv, Weaker
<1>10. KeptInv'
  <2>1. CASE Exit
    BY <1>1, <2>1 DEF AckInv, KeptInv, Exit
  <2>2. CASE PowerFailure
    <3>1. file' \in disk /\ disk' = {file'} /\ promised' = IF excused THEN Nothing ELSE promised
      BY <2>2 DEF PowerFailure
    <3>2. Keeps(file', promised')
      BY <3>1, NothingKept DEF AckInv, KeptInv
    <3>. QED
      BY <1>1, <3>1, <3>2 DEF KeptInv
  <2>. QED
    BY <2>1, <2>2
<1>. QED
  BY <1>6, <1>9, <1>10 DEF AckInv

LEMMA WatcherAck == ASSUME ResolvedOnce, Shapes, AckInv, Check \/ Load \/ Reload PROVE AckInv'
<1>1. UNCHANGED <<file, disk, stamp, up, writer, edits, excused>>
  BY DEF Check, Load, Reload
<1>2. Filled(watcher'.cfg)
  <2>1. CASE Check
    BY <2>1 DEF Check, Shapes, WatcherOK, AckInv, ValueInv
  <2>2. CASE Load
    <3>1. Filled(Loaded(file))
      BY LoadedValues DEF AckInv, ValueInv
    <3>. QED
      BY <2>2, <3>1 DEF Load, Shapes, WatcherOK, AckInv, ValueInv
  <2>3. CASE Reload
    BY <2>3, DefaultFilled DEF Reload, Shapes, WatcherOK
  <2>. QED
    BY <2>1, <2>2, <2>3
<1>3. Weaker /\ Filled(running') /\ (up => Keeps(running', promised'))
  <2>1. CASE Check \/ Load
    <3>1. UNCHANGED <<running, promised>>
      BY <2>1 DEF Check, Load
    <3>. QED
      BY <3>1, WeakerThan DEF AckInv, ValueInv, KeptInv
  <2>2. CASE Reload
    <3>. DEFINE e == Effective(watcher.cfg)
    <3>1. /\ running' = [e EXCEPT !.fixed = running.fixed]
          /\ promised' = IF watcher.cfg = Loaded(file) THEN promised ELSE Nothing
      BY <2>2 DEF Reload
    <3>2. Filled(e)
      BY FilledIsFound, ConversionValues DEF AckInv, ValueInv
    <3>3. Filled(running') /\ \A s \in Servers : running'.servers[s] = e.servers[s]
      BY <3>1, <3>2, FixedApart
    <3>4. ASSUME watcher.cfg = Loaded(file) PROVE Keeps(running', promised)
      <4>1. \A s \in Servers : Runs(e.servers[s]) = Runs(file.servers[s])
        BY <3>4, ServedValues DEF AckInv, ValueInv
      <4>. QED
        BY <3>3, <4>1 DEF AckInv, KeptInv, Keeps
    <3>5. Weaker
      BY <3>1, WeakerThan DEF AckInv
    <3>. QED
      BY <3>1, <3>3, <3>4, <3>5, NothingKept
  <2>. QED
    BY <2>1, <2>2
<1>4. ValueInv'
  BY <1>1, <1>2, <1>3 DEF AckInv, ValueInv, WriterValues, Weaker
<1>5. (\A r \in Requests : Saving(r)') /\ SerialInv'
  BY <1>1, <1>3 DEF AckInv, Saving, SerialInv, Weaker
<1>6. KeptInv'
  BY <1>1, <1>3, WeakerKept DEF AckInv, KeptInv
<1>. QED
  BY <1>4, <1>5, <1>6 DEF AckInv

LEMMA AckStep == ASSUME ResolvedOnce, TornInv, AckInv, [Next]_vars PROVE AckInv'
<1>0. Shapes /\ Requests \subseteq Writers
  BY DEF TornInv, Writers
<1>1. ASSUME NEW w \in Writers, Step(w) PROVE AckInv'
  BY <1>0, <1>1, WriteTmpAck, RenameAck, SyncDirAck, FailSaveAck DEF Step
<1>2. ASSUME NEW r \in Requests, PostServer(r) \/ PutServer(r) \/ RemoveServer(r) \/ Answer(r) PROVE AckInv'
  BY <1>0, <1>2, RequestAck, AnswerAck
<1>3. CASE UNCHANGED vars
  BY <1>3 DEF vars, AckInv, ValueInv, WriterValues, SerialInv, Saving, KeptInv
<1>. QED
  BY <1>0, <1>1, <1>2, <1>3, CommandAck, EditorAck, ServeAck, StopAck, WatcherAck DEF Next

\* A server edit that the API has acknowledged is in the running configuration
\* and in the file, and survives a power failure, until somebody else changes
\* the file or the watcher applies an older one: mutateConfig, Config.Save and
\* the reload together, where a relative working directory is resolved once.
THEOREM EditsKept == ASSUME ResolvedOnce PROVE Spec => []AcknowledgedKept
<1>1. Init => TornInv /\ AckInv
  BY TornInit, AckInit
<1>2. (TornInv /\ AckInv) /\ [Next]_vars => (TornInv /\ AckInv)'
  BY TornStep, AckStep
<1>3. TornInv /\ AckInv => AcknowledgedKept
  BY AckMeans
<1>. QED
  BY <1>1, <1>2, <1>3, PTL DEF Spec

=============================================================================
