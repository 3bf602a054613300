-------------------------------- MODULE Logs --------------------------------
(***************************************************************************)
(* The log of the gateway (logbuf/ring.go): every record goes to a ring of *)
(* bounded size, which GET /api/v1/logs lists, and then to a file that is  *)
(* rotated.  The ring and the file each have a mutex; a record enters them *)
(* in two steps.  Renames and opens of files may fail and the process may  *)
(* die anywhere.                                                           *)
(***************************************************************************)
EXTENDS Integers, SequencesExt

CONSTANTS
    Loggers,       \* goroutines that log
    Sizes,         \* of a record, in the ring and in the file
    RingLimits,    \* maxBytes of the ring, set by reloads
    PageLimit,     \* entries per listing
    MaxBytes,      \* of the file
    Keep,          \* rotated files: path.1 .. path.Keep
    MaxRecords     \* bound: records logged

Nobody == "nobody"

ASSUME SizesAssumption == Sizes \subseteq Nat \ {0} /\ RingLimits \subseteq Nat \ {0} /\ PageLimit \in Nat \ {0}
ASSUME FilesAssumption == Keep \in Nat \ {0} /\ MaxBytes \in Nat /\ Nobody \notin Loggers

VARIABLES
    ring,      \* [entries, bytes, max, next]
    cursor,    \* the sequence number a client has listed to, 0 for none
    missed,    \* history: that number when the process last started again
    file,      \* the records in the file
    archive,   \* [1..Keep -> records, or Gone]
    writer,    \* [handle: open, stale (closed by a failed rotation), closed;
               \*  size: what the writer believes; owner: who holds its mutex;
               \*  turn: the rename a rotation is at, -1 for none]
    logger,    \* [Loggers -> the size of the record it has for the file, 0: none]
    records,   \* records so far
    written,   \* history: records written to the file, which are numbered so
    trouble    \* history: a rename, an open or a write has failed

logVars == <<ring, cursor, missed, file, archive, writer, logger, records, written, trouble>>

Gone == <<[n |-> 0, size |-> 0]>>

Bytes(rs) ==
    LET sum[n \in 0..Len(rs)] == IF n = 0 THEN 0 ELSE sum[n - 1] + rs[n].size
    IN  sum[Len(rs)]
NewRing(max) == [entries |-> <<>>, bytes |-> 0, max |-> max, next |-> 0]
NewWriter(rs) == [handle |-> "open", size |-> Bytes(rs), owner |-> Nobody, turn |-> -1]

LogInit ==
    /\ \E max \in RingLimits : ring = NewRing(max)
    /\ cursor = 0 /\ missed = 0
    /\ file = <<>> /\ archive = [i \in 1..Keep |-> Gone]
    /\ writer = NewWriter(file)
    /\ logger = [l \in Loggers |-> 0]
    /\ records = 0 /\ written = 0 /\ trouble = FALSE

-----------------------------------------------------------------------------
(* The ring.                                                               *)

\* Variant: the bytes of the entries that left stay in the count.
EvictedKeepsCount(r, more) ==
    LET size(n) == Bytes(SubSeq(r.entries, 1, n))
        gone == Min({n \in 0..Len(r.entries) : n = Len(r.entries) \/ r.bytes - size(n) + more <= r.max})
    IN  [r EXCEPT !.entries = SubSeq(@, gone + 1, Len(@))]

\* The oldest entries leave, and their sizes the count, until by the count
\* "more" bytes fit.
Evicted(r, more) ==
    LET size(n) == Bytes(SubSeq(r.entries, 1, n))
        gone == Min({n \in 0..Len(r.entries) : n = Len(r.entries) \/ r.bytes - size(n) + more <= r.max})
    IN  [r EXCEPT !.entries = SubSeq(@, gone + 1, Len(@)), !.bytes = @ - size(gone)]

SetMaxBytes ==
    /\ \E max \in RingLimits \ {ring.max} : ring' = Evicted([ring EXCEPT !.max = max], 0)
    /\ UNCHANGED <<cursor, missed, file, archive, writer, logger, records, written, trouble>>

\* A record above half of the limit is cut down to size 1.
Added(r, size) ==
    LET fit == IF size > r.max \div 2 THEN 1 ELSE size
    IN  [Evicted(r, fit) EXCEPT
            !.next = @ + 1, !.bytes = @ + fit,
            !.entries = Append(@, [seq |-> r.next + 1, size |-> fit, sent |-> 0])]

\* MultiHandler: the ring first; the file is left to the goroutine's next step.
Log(l) ==
    /\ logger[l] = 0 /\ records < MaxRecords
    /\ \E size \in Sizes :
        /\ ring' = Added(ring, size)
        /\ logger' = [logger EXCEPT ![l] = size]
    /\ records' = records + 1
    /\ UNCHANGED <<cursor, missed, file, archive, writer, written, trouble>>

\* Variant: the entry the client has seen last is listed again.
AfterAgain(after) == {i \in DOMAIN ring.entries : ring.entries[i].seq >= after}

\* The entries after a sequence number; the oldest ones come first.
After(after) == {i \in DOMAIN ring.entries : ring.entries[i].seq > after}

\* Ring.List, for a client that continues after the last entry it has.
ListEntries ==
    LET new == After(cursor)
        page == {i \in new : i < Min(new) + PageLimit}
        sent == [i \in DOMAIN ring.entries |->
                    [ring.entries[i] EXCEPT !.sent = IF i \in page THEN 1 + @ ELSE @]]
    IN  /\ new # {}
        /\ ring' = [ring EXCEPT !.entries = sent]
        /\ cursor' = ring.entries[Max(page)].seq
        /\ UNCHANGED <<missed, file, archive, writer, logger, records, written, trouble>>

-----------------------------------------------------------------------------
(* The file.                                                               *)

Record(l) == [n |-> written + 1, size |-> logger[l]]

Fits(l) == writer.size + logger[l] <= MaxBytes

\* The record goes to the file; a full disk takes a part of it, a handle that
\* a failed rotation has closed takes nothing.
Put(l) ==
    \/ /\ writer.handle = "open"
       /\ file' = Append(file, Record(l)) /\ written' = written + 1
       /\ writer' = [writer EXCEPT !.size = @ + logger[l], !.owner = Nobody, !.turn = -1]
       /\ UNCHANGED trouble
    \/ /\ \E n \in 0..(logger[l] - 1) :
            /\ writer.handle # "open" => n = 0
            /\ file' = IF n = 0 THEN file ELSE Append(file, [n |-> 0, size |-> n])
            /\ writer' = [writer EXCEPT !.size = @ + n, !.owner = Nobody, !.turn = -1]
       /\ trouble' = TRUE /\ UNCHANGED written

\* Write, when the record fits, or after a rotation.
Write(l) ==
    /\ logger[l] > 0 /\ writer.handle # "closed"
    /\ \/ writer.owner = Nobody /\ Fits(l)
       \/ writer.owner = l /\ writer.turn = -1
    /\ Put(l)
    /\ logger' = [logger EXCEPT ![l] = 0]
    /\ UNCHANGED <<ring, cursor, missed, archive, records>>

\* After Close: ErrClosedPipe, and the record is not in the file.
Drop(l) ==
    /\ logger[l] > 0 /\ writer.handle = "closed"
    /\ logger' = [logger EXCEPT ![l] = 0]
    /\ UNCHANGED <<ring, cursor, missed, file, archive, writer, records, written, trouble>>

\* Variant: the shift starts one file too low.
StartRotationLow(l) ==
    /\ logger[l] > 0 /\ writer.owner = Nobody /\ writer.handle # "closed" /\ ~Fits(l)
    /\ writer' = [writer EXCEPT !.owner = l, !.turn = Keep - 2, !.handle = "stale"]
    /\ UNCHANGED <<ring, cursor, missed, file, archive, logger, records, written, trouble>>

\* rotate: the handle is closed, then path.Keep-1 -> path.Keep, ..., path.1 ->
\* path.2, path -> path.1 and open, with errors of the renames ignored.
StartRotation(l) ==
    /\ logger[l] > 0 /\ writer.owner = Nobody /\ writer.handle # "closed" /\ ~Fits(l)
    /\ writer' = [writer EXCEPT !.owner = l, !.turn = Keep - 1, !.handle = "stale"]
    /\ UNCHANGED <<ring, cursor, missed, file, archive, logger, records, written, trouble>>

\* Variant: the files are copied.
ShiftCopies ==
    LET i == writer.turn IN
    /\ i > 0
    /\ archive' = [archive EXCEPT ![i + 1] = IF archive[i] = Gone THEN @ ELSE archive[i]]
    /\ writer' = [writer EXCEPT !.turn = i - 1]
    /\ UNCHANGED <<ring, cursor, missed, file, logger, records, written, trouble>>

Shift ==
    LET i == writer.turn IN
    /\ i > 0
    /\ \/ /\ archive' = [archive EXCEPT ![i + 1] = IF archive[i] = Gone THEN @ ELSE archive[i],
                                        ![i] = Gone]
          /\ UNCHANGED trouble
       \/ archive[i] # Gone /\ trouble' = TRUE /\ UNCHANGED archive
    /\ writer' = [writer EXCEPT !.turn = i - 1]
    /\ UNCHANGED <<ring, cursor, missed, file, logger, records, written>>

\* path -> path.1 and the open of a new file, without a step of others in
\* between (the file is nobody else's).  A rename that fails leaves the file,
\* which is then continued; an open that fails leaves the closed handle and
\* the size, and the record is lost.
Reopen ==
    LET l == writer.owner IN
    /\ writer.turn = 0
    /\ \E renamed, opened \in BOOLEAN :
        /\ file = Gone => renamed
        /\ archive' = IF renamed /\ file # Gone THEN [archive EXCEPT ![1] = file] ELSE archive
        /\ file' = IF ~renamed THEN file ELSE IF opened THEN <<>> ELSE Gone
        /\ writer' = IF opened THEN [NewWriter(file') EXCEPT !.owner = l]
                     ELSE [writer EXCEPT !.owner = Nobody, !.turn = -1]
        /\ logger' = IF opened THEN logger ELSE [logger EXCEPT ![l] = 0]
        /\ trouble' = (trouble \/ ~renamed \/ ~opened)
    /\ UNCHANGED <<ring, cursor, missed, records, written>>

-----------------------------------------------------------------------------
(* The process.                                                            *)

CloseLog ==
    /\ writer.handle # "closed" /\ writer.owner = Nobody
    /\ writer' = [writer EXCEPT !.handle = "closed"]
    /\ UNCHANGED <<ring, cursor, missed, file, archive, logger, records, written, trouble>>

\* The process ends anywhere, in a rotation too, and starts again: the ring is
\* empty and counts from 1, the file is continued.  The client is another
\* process and keeps its number.
RestartLog ==
    /\ ring' = NewRing(ring.max) /\ missed' = cursor
    /\ file' = IF file = Gone THEN <<>> ELSE file
    /\ writer' = NewWriter(file')
    /\ logger' = [l \in Loggers |-> 0]
    /\ UNCHANGED <<cursor, archive, records, written, trouble>>

LogNext ==
    \/ \E l \in Loggers : Log(l) \/ Write(l) \/ Drop(l) \/ StartRotation(l)
    \/ SetMaxBytes \/ ListEntries
    \/ Shift \/ Reopen
    \/ CloseLog \/ RestartLog

LogSpec == LogInit /\ [][LogNext]_logVars

-----------------------------------------------------------------------------
(* Properties.                                                             *)

\* The entries of the ring are the latest ones, without a gap.
WithoutGap == \A i \in DOMAIN ring.entries : ring.entries[i].seq = ring.next - Len(ring.entries) + i

\* The byte count of the ring is that of its entries and within the limit, and
\* no entry is missing between the oldest and the latest.
RingAccounted == ring.bytes = Bytes(ring.entries) /\ ring.bytes <= ring.max /\ WithoutGap

\* A client that continues where it left off gets every entry once, unless it
\* left the ring before.  After a restart of the gateway this holds of the
\* entries above the number it had then: those of the new process up to that
\* number it never gets.
ListedOnce ==
    \A i \in DOMAIN ring.entries :
        LET n == ring.entries[i].seq
        IN  ring.entries[i].sent = (IF missed < n /\ n <= cursor THEN 1 ELSE 0)

\* The records in path (0) and in path.1 .. path.Keep; those cut short are numbered 0.
Files == [k \in 0..Keep |-> IF k = 0 THEN file ELSE archive[k]]

\* From the oldest rotated file to the file itself the records are in the order
\* in which they were written, and none is there twice, whatever failed and
\* wherever the process died.
LogInOrder ==
    \A j, k \in 0..Keep : \A a \in DOMAIN Files[j], b \in DOMAIN Files[k] :
        (j > k \/ (j = k /\ a < b)) /\ Files[j][a].n > 0 /\ Files[k][b].n > 0 => Files[j][a].n < Files[k][b].n

Numbers(k) == {Files[k][a].n : a \in DOMAIN Files[k]} \ {0}

Kept == UNION {Numbers(k) : k \in 0..Keep}

\* A record that has been written leaves only with the oldest rotated file,
\* as long as no file operation has failed.
RotationKeeps == [][~trouble' => Kept \ Numbers(Keep) \subseteq Kept']_logVars

=============================================================================
