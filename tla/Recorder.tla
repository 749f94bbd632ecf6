------------------------------ MODULE Recorder ------------------------------
(***************************************************************************)
(* The trace recorder's drain goroutine (internal/trace/recorder.go), the  *)
(* rings it empties, the segment files it writes, the reader of those      *)
(* files (internal/trace/reader.go), and the shutdown of the cache node    *)
(* around it (cmd/cachenode/main.go, internal/grpcx/grpcx.go).             *)
(*                                                                         *)
(* A ring is the lossy queue that TraceRing implements; only how many      *)
(* records it holds matters here. A segment file is a sequence of frames,  *)
(* each with the sequence number of its batch and its number of records;   *)
(* the start of a frame whose write was cut short is Half. Any file        *)
(* operation may fail (ioErrors).                                          *)
(***************************************************************************)
EXTENDS Integers, FiniteSetsExt, SequencesExt

CONSTANTS
    NumRings,      \* one ring per shard
    RingCapacity,  \* records a ring holds
    Batch,         \* Config.BatchSize
    SegmentSize,   \* records that fill a segment (Config.SegmentBytes)
    MaxPushes,     \* bound on recorded accesses, for TLC
    MaxIOErrors    \* bound on failed file operations, for TLC

ASSUME RecorderAssumption ==
    /\ NumRings \in Nat \ {0} /\ RingCapacity \in Nat \ {0}
    /\ Batch \in Nat \ {0} /\ SegmentSize \in Nat \ {0}
    /\ MaxPushes \in Nat /\ MaxIOErrors \in Nat

Rings == 1..NumRings

VARIABLES
    ring,       \* ring -> records queued
    pc,         \* Run: "select", "drain", "write", "drained", "exited"
    cur,        \* the ring drainAll is at
    held,       \* records in scratch, drained and not yet written
    final,      \* whether this drainAll is the last pass
    open,       \* whether a segment file is open
    segment,    \* the open file's content
    published,  \* the segments renamed into place, in the order of their names
    stranded,   \* records in .partial files that were given up
    sequence,   \* Recorder.sequence
    written,    \* Recorder.written
    lost,       \* Recorder.lost
    drops,      \* the rings' drop counters
    canceled,   \* whether the process context is cancelled
    serving,    \* whether RPC handlers may still run
    pushes, latePushes, ioErrors

counters == <<written, lost, drops>>
files == <<open, segment, published, stranded, sequence>>
vars == <<ring, pc, cur, held, final, files, counters,
          canceled, serving, pushes, latePushes, ioErrors>>

Half == [sequence |-> 0, records |-> 0]
Frame(s, n) == [sequence |-> s, records |-> n]

\* The records in a file's frames.
Records(frames) == FoldLeft(LAMBDA n, f : n + f.records, 0, frames)

Queued == MapThenSumSet(LAMBDA i : ring[i], Rings)

Init ==
    /\ ring = [i \in Rings |-> 0]
    /\ pc = "select" /\ cur = 1 /\ held = 0 /\ final = FALSE
    /\ open = FALSE /\ segment = <<>> /\ published = <<>> /\ stranded = 0
    /\ sequence = 0
    /\ written = 0 /\ lost = 0 /\ drops = 0
    /\ canceled = FALSE /\ serving = TRUE
    /\ pushes = 0 /\ latePushes = 0 /\ ioErrors = 0

-----------------------------------------------------------------------------
(* The request path and the process around the recorder.                   *)

\* A handler records an access: queued, or dropped when the ring is full.
Push(i) ==
    /\ serving /\ pushes < MaxPushes
    /\ pushes' = pushes + 1
    /\ latePushes' = IF canceled THEN latePushes + 1 ELSE latePushes
    /\ IF ring[i] < RingCapacity
       THEN ring' = [ring EXCEPT ![i] = @ + 1] /\ UNCHANGED drops
       ELSE drops' = drops + 1 /\ UNCHANGED ring
    /\ UNCHANGED <<pc, cur, held, final, files, written, lost, canceled, serving, ioErrors>>

\* The shutdown signal cancels the one context that Run and Serve share.
Shutdown ==
    /\ ~canceled /\ canceled' = TRUE
    /\ UNCHANGED <<ring, pc, cur, held, final, files, counters, serving, pushes, latePushes, ioErrors>>

\* Serve's GracefulStop returns once the handlers under way have finished.
ServeReturns ==
    /\ canceled /\ serving /\ serving' = FALSE
    /\ UNCHANGED <<ring, pc, cur, held, final, files, counters, canceled, pushes, latePushes, ioErrors>>

-----------------------------------------------------------------------------
(* Segment files.                                                          *)

IOError == ioErrors < MaxIOErrors /\ ioErrors' = ioErrors + 1

\* publish of a file with content s: renamed into place, or removed when it has
\* no whole frame. When that fails, the .partial file stays and is forgotten.
Publish(s) ==
    /\ published' = IF Records(s) > 0 THEN Append(published, s) ELSE published
    /\ UNCHANGED stranded
Strand(s) == stranded' = stranded + Records(s) /\ UNCHANGED published

\* closeSegment: the close, the rename or the remove may fail.
CloseSegment(s) ==
    /\ open' = FALSE /\ segment' = <<>>
    /\ \/ Publish(s) /\ UNCHANGED ioErrors
       \/ IOError /\ Strand(s)

-----------------------------------------------------------------------------
(* Run and drainAll.                                                       *)

Tick ==
    /\ pc = "select"
    /\ pc' = "drain" /\ cur' = 1
    /\ UNCHANGED <<ring, held, final, files, counters, canceled, serving, pushes, latePushes, ioErrors>>

\* Mutant: a cancelled recorder closes its segment without a last pass.
DoneNoFlush ==
    /\ pc = "select" /\ canceled
    /\ pc' = "drained" /\ final' = TRUE
    /\ UNCHANGED <<ring, cur, held, files, counters, canceled, serving, pushes, latePushes, ioErrors>>

\* Mutant: a cancelled recorder flushes and goes on selecting.
DoneGoesOn ==
    /\ pc = "select" /\ canceled
    /\ pc' = "drain" /\ cur' = 1
    /\ UNCHANGED <<ring, held, final, files, counters, canceled, serving, pushes, latePushes, ioErrors>>

\* ctx.Done: one last pass over the rings.
Done ==
    /\ pc = "select" /\ canceled
    /\ pc' = "drain" /\ cur' = 1 /\ final' = TRUE
    /\ UNCHANGED <<ring, held, files, counters, canceled, serving, pushes, latePushes, ioErrors>>

\* Go to the next ring after a drain of n records, or end the pass; a full batch
\* means that the same ring may hold more.
NextRing(n) ==
    IF n = Batch THEN pc' = "drain" /\ UNCHANGED cur
    ELSE IF cur < NumRings THEN pc' = "drain" /\ cur' = cur + 1
    ELSE pc' = "drained" /\ UNCHANGED cur

\* Ring.Drain into scratch.
Drain ==
    LET n == IF ring[cur] < Batch THEN ring[cur] ELSE Batch
    IN  /\ pc = "drain"
        /\ ring' = [ring EXCEPT ![cur] = @ - n]
        /\ held' = n
        /\ IF n = 0 THEN NextRing(0) ELSE pc' = "write" /\ UNCHANGED cur
        /\ UNCHANGED <<final, files, counters, canceled, serving, pushes, latePushes, ioErrors>>

\* writeBatch succeeds: the segment is opened if need be, gains one frame, and
\* is closed when it is full. A rotation that fails is only logged.
Write ==
    LET s == Append(segment, Frame(sequence + 1, held))
    IN  /\ pc = "write"
        /\ sequence' = sequence + 1
        /\ written' = written + held
        /\ IF Records(s) >= SegmentSize
           THEN CloseSegment(s)
           ELSE open' = TRUE /\ segment' = s /\ UNCHANGED <<published, stranded, ioErrors>>
        /\ held' = 0
        /\ NextRing(held)
        /\ UNCHANGED <<ring, final, lost, drops, canceled, serving, pushes, latePushes>>

\* Mutant: records whose write failed are counted nowhere.
WriteFailsSilently ==
    /\ pc = "write" /\ ~open
    /\ IOError
    /\ sequence' = sequence + 1
    /\ held' = 0
    /\ pc' = "drained"
    /\ UNCHANGED <<ring, cur, final, open, segment, published, stranded, counters,
                   canceled, serving, pushes, latePushes>>

\* The segment cannot be opened: the batch is lost and the pass ends here, with
\* the rings after this one not drained.
WriteFails ==
    /\ pc = "write" /\ ~open
    /\ IOError
    /\ sequence' = sequence + 1
    /\ lost' = lost + held /\ held' = 0
    /\ pc' = "drained"
    /\ UNCHANGED <<ring, cur, final, open, segment, published, stranded, written, drops,
                   canceled, serving, pushes, latePushes>>

\* Mutant: the segment stays open after a short write, and the next frame is
\* appended to the half one.
WriteTornGoesOn ==
    /\ pc = "write"
    /\ IOError
    /\ sequence' = sequence + 1
    /\ open' = TRUE /\ segment' = Append(segment, Half)
    /\ UNCHANGED <<published, stranded>>
    /\ lost' = lost + held /\ held' = 0
    /\ pc' = "drained"
    /\ UNCHANGED <<ring, cur, final, written, drops, canceled, serving, pushes, latePushes>>

\* The write fails or is short, and truncateSegment closes the file, cuts it back
\* to its whole frames and publishes it; "if it does" fail the truncate too, "the
\* segment is published torn anyway". The batch is lost and the pass ends. What
\* else fails with the write is the same fault here (IOError counts one).
WriteTorn ==
    /\ pc = "write"
    /\ IOError
    /\ sequence' = sequence + 1
    /\ open' = FALSE /\ segment' = <<>>
    /\ Publish(segment) \/ Publish(Append(segment, Half)) \/ Strand(segment)
    /\ lost' = lost + held /\ held' = 0
    /\ pc' = "drained"
    /\ UNCHANGED <<ring, cur, final, written, drops, canceled, serving, pushes, latePushes>>

\* The last pass is followed by closeSegment, and Run returns.
Exit ==
    /\ pc = "drained" /\ final
    /\ pc' = "exited"
    /\ IF open
       THEN CloseSegment(segment)
       ELSE UNCHANGED <<open, segment, published, stranded, ioErrors>>
    /\ UNCHANGED <<sequence, ring, cur, held, final, counters, canceled, serving, pushes, latePushes>>

\* Mutant: a segment is closed only when it is full.
RotateNever ==
    /\ pc = "drained" /\ ~final /\ open
    /\ pc' = "select"
    /\ UNCHANGED <<ring, cur, held, final, files, counters, canceled, serving, pushes, latePushes, ioErrors>>

\* A pass that is not the last rotates a segment that has reached its age.
Rotate ==
    /\ pc = "drained" /\ ~final /\ open
    /\ pc' = "select"
    /\ CloseSegment(segment)
    /\ UNCHANGED <<sequence, ring, cur, held, final, counters, canceled, serving, pushes, latePushes>>

\* Otherwise Run waits for the next tick.
Wait ==
    /\ pc = "drained" /\ ~final
    /\ pc' = "select"
    /\ UNCHANGED <<ring, cur, held, final, files, counters, canceled, serving, pushes, latePushes, ioErrors>>

\* The process ends when both Run and Serve have returned.
Ended == pc = "exited" /\ ~serving /\ UNCHANGED vars

-----------------------------------------------------------------------------
(* The reader.                                                             *)

\* ReadFile: the frames before the first half one, and whether it met one at the
\* end (torn, ErrUnexpectedEOF) or before other frames, whose bytes it then
\* takes for the rest of the half one (corrupt).
ReadFile(file) ==
    LET bad == {i \in DOMAIN file : file[i] = Half}
        n == IF bad = {} THEN Len(file) ELSE Min(bad) - 1
    IN  [frames |-> SubSeq(file, 1, n),
         err |-> IF bad = {} THEN "none" ELSE IF n + 1 = Len(file) THEN "torn" ELSE "corrupt"]

\* ReadDir: the segments in the order of their names; a torn one is read over, a
\* corrupt one ends the read.
ReadNext(got, file) ==
    IF got.err = "corrupt" THEN got
    ELSE [frames |-> got.frames \o ReadFile(file).frames, err |-> ReadFile(file).err]
ReadAll(segments) == FoldLeft(ReadNext, [frames |-> <<>>, err |-> "none"], segments)
ReadDir == ReadAll(published).frames

-----------------------------------------------------------------------------
Run == Tick \/ Drain \/ Write \/ WriteFails \/ WriteTorn \/ Exit \/ Wait \/ Rotate

Next ==
    \/ \E i \in Rings : Push(i)
    \/ Shutdown \/ ServeReturns
    \/ Tick \/ Done \/ Drain \/ Write \/ WriteFails \/ WriteTorn
    \/ Exit \/ Rotate \/ Wait \/ Ended

Spec == Init /\ [][Next]_vars

\* The ticker fires and the goroutine is scheduled; a segment that stays open is
\* closed once it is old enough, so Rotate cannot be passed over for ever; a
\* cancelled context is noticed; handlers finish or GracefulStop times out.
FairSpec ==
    /\ Spec
    /\ WF_vars(Run) /\ SF_vars(Rotate) /\ SF_vars(Done) /\ WF_vars(ServeReturns)

-----------------------------------------------------------------------------
(* Properties.                                                             *)

\* No record is lost without a counter saying so or counted twice: every recorded
\* access is queued, in the drainer's hands, or in one of the two numbers that
\* Stats reports, whatever file operations fail.
Conserved == pushes = Queued + held + written + (lost + drops)

\* Whatever writes, truncations, renames and rotations fail, the reader gets every
\* record that was counted as written, in the order the batches were drained,
\* each once, save those in the open segment and in a file that could not be
\* renamed: a half frame hides no frame, neither in its own segment nor in a
\* later one.
ReadBack ==
    /\ Records(ReadDir) + Records(segment) + stranded = written
    /\ \A i \in 2..Len(ReadDir) : ReadDir[i - 1].sequence < ReadDir[i].sequence

\* Shutdown costs at most what was recorded after the signal: everything queued
\* before it is flushed by the last pass, when no file operation fails. What handlers
\* record between that pass and the end of GracefulStop does stay in the rings,
\* although "no records are lost on a clean shutdown" (recorder.go:159).
FlushedBeforeSignal == (pc = "exited" /\ ioErrors = 0) => Queued <= latePushes

\* As long as Run has not returned, no record stays in a ring or in an open
\* segment: each is published, given up with its file, or counted as lost, even if
\* its segment never fills ("age is the bound that matters to the trainer").
EventuallyPublished == <>[](pc = "exited" \/ (Queued + held = 0 /\ ~open))

\* A shutdown ends the recorder whatever it is doing when the signal comes: in the
\* middle of a pass, with full rings and failing files, while handlers still push.
\* Run returns, so that the process can (Run's ctx.Done case).
ReturnsAfterShutdown == canceled ~> pc = "exited"
=============================================================================
