----------------------------- MODULE DiskQueue -----------------------------
(***************************************************************************)
(* The disk-backed sink queue of crates/logit-pipeline/src/disk_queue.rs.    *)
(*                                                                          *)
(* Three actors share it.  The producer's push and the consumer's peek_at    *)
(* and commit are futures of one task, so each runs alone between two        *)
(* awaits; the persist worker is a thread that makes cursors durable and     *)
(* unlinks consumed segments behind them.  A push may be dropped at any      *)
(* await, and the write it issued then goes on without it.  The process may  *)
(* be killed at any point: bytes handed to the kernel survive, those of a    *)
(* write still running survive up to some point, and open recovers.          *)
(*                                                                          *)
(* A file is a sequence of bytes, a record r the bytes <<r, 1>> to           *)
(* <<r, Size[r]>>, so that a torn record is a prefix of one.  Power loss     *)
(* (flushed bytes that vanish) is not modelled.                              *)
(***************************************************************************)
EXTENDS Naturals, Sequences, SequencesExt, FiniteSetsExt, Notify

CONSTANTS
  Size,          \* the length of each record a push brings, in push order
  MaxFrame,      \* MAX_SANE_UNCOMPRESSED_LEN
  MaxBytes,      \* disk.max_bytes
  SegmentBytes,  \* the length at which a push rotates
  Policies,      \* the overflow policies
  Window,        \* how many records the consumer reads ahead
  MaxFaults,     \* bound on failed operations, cancelled pushes and bad sectors
  MaxStops       \* bound on crashes and clean stops

ASSUME DiskAssumption ==
  /\ Size \in Seq(Nat \ {0})
  /\ Policies \subseteq {"block", "drop_oldest", "drop_newest"}
  /\ {MaxFrame, MaxBytes, SegmentBytes, Window, MaxFaults, MaxStops} \subseteq Nat

VARIABLES
  policy,       \* the configured overflow policy
  files,        \* the segment files: sequence number -> bytes
  cursorFile,   \* cursor.json, the read cursor a restart resumes from
  phase,        \* whether the process is up, in finish, or down
  mem,          \* State, the persist worker's queue and the Notifys
  inflight,     \* a write running on a blocking thread
  prod,         \* the push in progress
  cons,         \* the peek in progress
  pushed,       \* how many pushes have begun
  accepted,     \* the records counted queued
  settled,      \* the records delivered or evicted, in any life
  taken,        \* those of this life, in order
  rotted,       \* the records a bad sector took
  clean,        \* whether the last persist of a finish succeeded
  faults, stops

disk == <<files, cursorFile>>
history == <<pushed, accepted, settled, taken, rotted, clean>>
bounds == <<faults, stops, policy>>
vars == <<disk, phase, mem, inflight, prod, cons, history, bounds>>

Records == DOMAIN Size
None == [none |-> TRUE]
Rot == <<0, 0>>
Bytes(r) == [i \in 1..Size[r] |-> <<r, i>>]
Cursor(seg, offset) == [seg |-> seg, offset |-> offset]

IdlePush == [at |-> "idle", rec |-> 0, room |-> FALSE, tried |-> FALSE, pos |-> Cursor(0, 0)]
IdlePeek == [at |-> "idle", n |-> 0, pos |-> Cursor(0, 0)]

\* A failing operation uses up one of the faults.
Fault == faults < MaxFaults /\ faults' = faults + 1

----------------------------------------------------------------------------
(* Bytes, records and positions *)

\* parse_record: a whole record starts at byte p of b.
ParsesAt(b, p) ==
  LET r == b[p][1] IN
  /\ r \in Records
  /\ SubSeq(b, p, Min({p + Size[r] - 1, Len(b)})) = Bytes(r)

\* walk_segment: where whole records start in b, corrupt spans resynced over,
\* and which records those past offset are.
RecordStarts(b) == {p \in DOMAIN b : ParsesAt(b, p)}

WalkFrom(b, offset) ==
  LET starts == SetToSortSeq({p \in RecordStarts(b) : p > offset}, <)
  IN  [i \in DOMAIN starts |-> b[starts[i]][1]]

\* WalkOutcome.good_len: a truncated record with nothing after it is cut off.
GoodLen(b) ==
  LET end  == Max({0} \cup {p + Size[b[p][1]] - 1 : p \in RecordStarts(b)})
      rest == SubSeq(b, end + 1, Len(b))
  IN  IF \E r \in Records : IsPrefix(rest, Bytes(r)) THEN end ELSE Len(b)

SegIndex(segs, seq) == SelectInSeq(segs, LAMBDA s : s.seq = seq)
SumLen(segs, i, j) == FoldSeq(LAMBDA s, n : s.len + n, 0, SubSeq(segs, i, j))
Active == Last(mem.segs)

\* roll_read_cursor's walk from cur: the index of the segment it stops in, the
\* first that is active or has bytes left, and the cursor there.
RollIndex(segs, cur) ==
  LET i == SegIndex(segs, cur.seg)
  IN  Min({j \in i..Len(segs) : j = Len(segs) \/ cur.offset < SumLen(segs, i, j)})

Rolled(segs, cur) ==
  LET j == RollIndex(segs, cur)
  IN  Cursor(segs[j].seq, cur.offset - SumLen(segs, SegIndex(segs, cur.seg), j - 1))

HasBytes(segs, cur) == cur.offset < segs[SegIndex(segs, cur.seg)].len

\* next_read_position: where the record after the read-ahead ones starts.
NextPosition(m) ==
  LET from == IF m.ahead = <<>> THEN m.read
              ELSE Cursor(Last(m.ahead).seg, Last(m.ahead).offset + Last(m.ahead).len)
      to   == Rolled(m.segs, from)
  IN  IF HasBytes(m.segs, to) THEN to ELSE None

\* read_record_at: the record found at pos, 0 for corrupt bytes up to the
\* segment's end, and how far the cursor moves past it.  It reads no further
\* than the tracked length; a file that is gone or shorter is Unavailable.
Readable(pos) ==
  LET i == SegIndex(mem.segs, pos.seg) IN
  /\ i # 0 /\ pos.offset < mem.segs[i].len
  /\ pos.seg \in DOMAIN files /\ Len(files[pos.seg]) >= mem.segs[i].len

ReadRecordAt(pos) ==
  LET b      == SubSeq(files[pos.seg], 1, mem.segs[SegIndex(mem.segs, pos.seg)].len)
      starts == {p \in RecordStarts(b) : p > pos.offset}
      first  == Min(starts)
  IN  IF starts = {} THEN [rec |-> 0, len |-> Len(b) - pos.offset]
      ELSE [rec |-> b[first][1], len |-> first - 1 + Size[b[first][1]] - pos.offset]

----------------------------------------------------------------------------
(* The cursor and the persist worker *)

Job(cursor, unlink) == [cursor |-> cursor, unlink |-> unlink]
\* A slip: jobs reach the worker out of cursor order.
QueuePersistEarly(m, job) == [m EXCEPT !.jobs = <<job>> \o @]

QueuePersist(m, job) == [m EXCEPT !.jobs = Append(@, job)]
NotifyFull(m) == [m EXCEPT !.notFull = NotifyOne(@)]

\* roll_read_cursor: the cursor leaves the finished segments; they are forgotten
\* at once, one job persists the new cursor and unlinks them, and a push is woken.
RollReadCursor(m) ==
  LET j    == RollIndex(m.segs, m.read)
      left == SubSeq(m.segs, 1, j - 1)
      to   == Rolled(m.segs, m.read)
      gone == SumLen(left, 1, j - 1)
  IN  IF left = <<>> THEN m
      ELSE NotifyFull(QueuePersist(
             [m EXCEPT !.read = to, !.segs = SubSeq(@, j, Len(@)),
                       !.total = IF gone > @ THEN 0 ELSE @ - gone],
             Job(to, [i \in DOMAIN left |-> left[i].seq])))

\* A slip: a push parked on a consumed active segment is not woken.
AdvanceSilently(m, len, due) ==
  LET r == RollReadCursor([m EXCEPT !.read.offset = @ + len])
  IN  IF due THEN QueuePersist(r, Job(r.read, <<>>)) ELSE r

\* advance_read_cursor and after_cursor_advance: roll, wake a parked push if
\* nothing is readable now, and checkpoint if the interval has passed.
AdvanceReadCursor(m, len, due) ==
  LET r == RollReadCursor([m EXCEPT !.read.offset = @ + len])
      n == IF HasBytes(r.segs, r.read) THEN r ELSE NotifyFull(r)
  IN  IF due THEN QueuePersist(n, Job(n.read, <<>>)) ELSE n

\* One record fewer is queued, saturating at zero.
Uncount(m) == [m EXCEPT !.queued = IF @ = 0 THEN 0 ELSE @ - 1]

\* run_persist_job, first its cursor.  A failed persist leaves the old one.
PersistCursor ==
  /\ phase # "down" /\ mem.jobs # <<>> /\ ~mem.persisted
  /\ \/ cursorFile' = Head(mem.jobs).cursor /\ clean' = TRUE /\ UNCHANGED faults
     \/ Fault /\ clean' = FALSE /\ UNCHANGED cursorFile
  /\ mem' = [mem EXCEPT !.persisted = TRUE]
  /\ UNCHANGED <<files, phase, inflight, prod, cons, pushed, accepted, settled, taken,
                 rotted, stops, policy>>

WithoutFile(f, seq) == [s \in DOMAIN f \ {seq} |-> f[s]]

\* Then its segments, one unlink after another.
UnlinkSegment ==
  /\ phase # "down" /\ mem.jobs # <<>> /\ mem.persisted /\ Head(mem.jobs).unlink # <<>>
  /\ \/ files' = WithoutFile(files, Head(Head(mem.jobs).unlink)) /\ UNCHANGED faults
     \/ Fault /\ UNCHANGED files
  /\ mem' = [mem EXCEPT !.jobs[1].unlink = Tail(@)]
  /\ UNCHANGED <<cursorFile, phase, inflight, prod, cons, history, stops, policy>>

PersistJobDone ==
  /\ phase # "down" /\ mem.jobs # <<>> /\ mem.persisted /\ Head(mem.jobs).unlink = <<>>
  /\ mem' = [mem EXCEPT !.jobs = Tail(@), !.persisted = FALSE]
  /\ UNCHANGED <<disk, phase, inflight, prod, cons, history, bounds>>

----------------------------------------------------------------------------
(* push *)

\* push numbers and encodes the record; one too large for a frame is dropped.
PushBegin ==
  /\ phase = "up" /\ prod.at = "idle" /\ pushed < Len(Size)
  /\ pushed' = pushed + 1
  /\ prod' = IF Size[pushed + 1] > MaxFrame THEN prod
             ELSE [IdlePush EXCEPT !.at = "check", !.rec = pushed + 1]
  /\ UNCHANGED <<disk, phase, mem, inflight, cons, accepted, settled, taken, rotted, clean,
                 bounds>>

\* push's nothing_queued: the rolled cursor is at the end of the active segment.
NothingQueued(m) ==
  m.ahead = <<>> /\ m.read.seg = Last(m.segs).seq /\ m.read.offset >= Last(m.segs).len

\* The Action that push's loop chooses.
PushAction(m, p) ==
  IF m.total + Size[p.rec] <= MaxBytes \/ Size[p.rec] > MaxBytes \/ m.closed THEN "write"
  ELSE IF NothingQueued(m)
       THEN IF ~p.tried THEN "make_room"
            ELSE IF policy = "drop_newest" THEN "drop" ELSE "write"
       ELSE CASE policy = "block" -> "block"
              [] policy = "drop_newest" -> "drop"
              [] policy = "drop_oldest" -> IF m.ahead # <<>> THEN "drop" ELSE "evict"

\* One turn of push's loop up to its next await.
PushCheck ==
  /\ phase = "up" /\ prod.at = "check"
  /\ LET m   == RollReadCursor(mem)
         act == PushAction(m, prod)
     IN  /\ mem' = IF act = "block"
                   THEN [m EXCEPT !.notFull = FirstPoll(@, "push", @.gen)] ELSE m
         /\ prod' = CASE act = "block" ->
                           IF ReadyAtFirstPoll(m.notFull, m.notFull.gen) THEN prod
                           ELSE [prod EXCEPT !.at = "blocked"]
                      [] act = "drop" -> IdlePush
                      [] act = "write" -> [prod EXCEPT !.at = "prepare"]
                      [] act = "make_room" ->
                           [prod EXCEPT !.at = "prepare", !.room = TRUE, !.tried = TRUE]
                      [] act = "evict" -> [prod EXCEPT !.at = "evict", !.pos = m.read]
  /\ UNCHANGED <<disk, phase, inflight, cons, history, bounds>>

PushWakes ==
  /\ phase = "up" /\ prod.at = "blocked" /\ Woken(mem.notFull, "push")
  /\ mem' = [mem EXCEPT !.notFull = Resume(@, "push")]
  /\ prod' = [prod EXCEPT !.at = "check"]
  /\ UNCHANGED <<disk, phase, inflight, cons, history, bounds>>

\* A slip: a head reserved during the read is not noticed.
HeadIsUnreserved(pos) == mem.read = pos

\* The unreserved head is still the one at pos.
HeadIs(pos) == mem.ahead = <<>> /\ mem.read = pos

\* evict_oldest after its read: it gives up if the read failed or the head moved
\* or was reserved meanwhile, and push then writes over its bound.
EvictOldest ==
  /\ phase = "up" /\ prod.at = "evict"
  /\ LET out == ReadRecordAt(prod.pos) IN
     \/ /\ Readable(prod.pos) /\ HeadIs(prod.pos)
        /\ \E due \in BOOLEAN :
             LET m == NotifyFull(AdvanceReadCursor(mem, out.len, due))
             IN  IF out.rec = 0 THEN mem' = m /\ UNCHANGED <<settled, taken>>
                 ELSE /\ mem' = Uncount(m)
                      /\ settled' = settled \cup {out.rec}
                      /\ taken' = Append(taken, out.rec)
        /\ prod' = [prod EXCEPT !.at = "check"]
        /\ UNCHANGED faults
     \/ /\ IF Readable(prod.pos) /\ HeadIs(prod.pos) THEN Fault ELSE UNCHANGED faults
        /\ prod' = [prod EXCEPT !.at = "prepare"]
        /\ UNCHANGED <<mem, settled, taken>>
  /\ UNCHANGED <<disk, phase, inflight, cons, pushed, accepted, rotted, clean, stops, policy>>

\* What the write on the blocking thread may leave in the files: some of its
\* bytes, behind those that are there (the handle appends).
LandedFiles ==
  IF inflight = None THEN {files}
  ELSE {[files EXCEPT ![inflight.seg] = @ \o SubSeq(inflight.bytes, 1, k)] :
          k \in 0..Len(inflight.bytes)}

\* A write whose push was dropped finishes on its own.
OrphanWriteLands ==
  /\ phase = "up" /\ prod.at # "flush" /\ inflight # None
  /\ files' \in LandedFiles /\ inflight' = None
  /\ UNCHANGED <<cursorFile, phase, mem, prod, cons, history, bounds>>

\* A slip: the torn tail is forgotten instead of truncated.
RepairForgets ==
  /\ phase = "up" /\ prod.at = "prepare" /\ mem.repair # None /\ inflight = None
  /\ mem' = [mem EXCEPT !.repair = None]
  /\ UNCHANGED <<disk, phase, inflight, prod, cons, history, bounds>>

\* repair_torn_tail, once the write still running through the handle is over:
\* truncate.  A failed truncate fails the push and leaves the repair due.
RepairTornTail ==
  /\ phase = "up" /\ prod.at = "prepare" /\ mem.repair # None /\ inflight = None
  /\ \/ /\ files' = [files EXCEPT ![Active.seq] = SubSeq(@, 1, mem.repair.len)]
        /\ mem' = [mem EXCEPT !.repair = None]
        /\ UNCHANGED <<prod, faults>>
     \/ Fault /\ prod' = IdlePush /\ UNCHANGED <<files, mem>>
  /\ UNCHANGED <<cursorFile, phase, inflight, cons, history, stops, policy>>

\* Whether write_record or rotate_consumed_active_segment rotates first, once
\* no repair is due.
Rotates ==
  /\ prod.at = "prepare" /\ mem.repair = None
  /\ prod.room \/ mem.rotating \/ Active.len >= SegmentBytes

\* Where a push goes on after rotate_segment.
AfterRotate == [prod EXCEPT !.at = IF prod.room THEN "check" ELSE "write", !.room = FALSE]

\* rotate_segment up to the create.  A failed create leaves the old segment
\* active, unless an earlier rotation's file is there: then the push fails.
RotateCreate ==
  /\ phase = "up" /\ Rotates
  /\ LET new == Active.seq + 1 IN
     \/ /\ files' = [s \in DOMAIN files \cup {new} |->
                       IF s \in DOMAIN files THEN files[s] ELSE <<>>]
        /\ mem' = [mem EXCEPT !.rotating = TRUE]
        /\ prod' = [prod EXCEPT !.at = "adopt"]
        /\ UNCHANGED faults
     \/ /\ Fault /\ UNCHANGED files
        /\ mem' = [mem EXCEPT !.rotating = new \in DOMAIN files]
        /\ prod' = IF new \in DOMAIN files THEN IdlePush ELSE AfterRotate
  /\ UNCHANGED <<cursorFile, phase, inflight, cons, history, stops, policy>>

\* The rest of rotate_segment: the new segment becomes the active one.  A push
\* that makes room rolls the cursor off the old one as it checks again.
RotateAdopt ==
  /\ phase = "up" /\ prod.at = "adopt"
  /\ mem' = [mem EXCEPT !.segs = Append(@, [seq |-> Active.seq + 1, len |-> 0]),
                        !.rotating = FALSE]
  /\ prod' = AfterRotate
  /\ UNCHANGED <<disk, phase, inflight, cons, history, bounds>>

\* write_record issues the write, or fails to open the segment.
WriteIssued ==
  /\ phase = "up"
  /\ prod.at = "write" \/ (prod.at = "prepare" /\ mem.repair = None /\ ~Rotates)
  /\ \/ /\ mem' = [mem EXCEPT !.repair = [len |-> Active.len]]
        /\ inflight' = [seg |-> Active.seq, bytes |-> Bytes(prod.rec)]
        /\ prod' = [prod EXCEPT !.at = "flush"]
        /\ UNCHANGED faults
     \/ Fault /\ prod' = IdlePush /\ UNCHANGED <<mem, inflight>>
  /\ UNCHANGED <<disk, phase, cons, history, stops, policy>>

\* The record is whole in its file and counted queued.
RecordQueued(m) ==
  [m EXCEPT !.repair = None, !.total = @ + Size[prod.rec], !.queued = @ + 1,
            !.segs[Len(m.segs)].len = @ + Size[prod.rec],
            !.notEmpty = NotifyOne(@)]

\* write_record's flush returns: the record is written, or part of it is in the
\* file and the repair stays due.
WriteDone ==
  /\ phase = "up" /\ prod.at = "flush"
  /\ inflight' = None /\ prod' = IdlePush
  /\ \/ /\ files' = [files EXCEPT ![inflight.seg] = @ \o inflight.bytes]
        /\ mem' = RecordQueued(mem)
        /\ accepted' = Append(accepted, prod.rec)
        /\ UNCHANGED faults
     \/ Fault /\ files' \in LandedFiles /\ UNCHANGED <<mem, accepted>>
  /\ UNCHANGED <<cursorFile, phase, cons, pushed, settled, taken, rotted, clean, stops, policy>>

\* The push future is dropped at an await.  A rotation it was in stays started,
\* with or without its file; a write it issued goes on.
PushDropped ==
  /\ phase = "up" /\ prod.at \notin {"idle", "check"} /\ Fault
  /\ prod' = IdlePush
  /\ \E began \in {FALSE, Rotates} :
       mem' = [mem EXCEPT !.rotating = @ \/ began,
                          !.notFull = IF prod.at = "blocked" THEN DropNotified(@, "push") ELSE @]
  /\ UNCHANGED <<disk, phase, inflight, cons, history, stops, policy>>

----------------------------------------------------------------------------
(* peek, peek_at, wait_at and commit *)

\* peek_at(n) for the next n, from its roll (of an empty prefix) to its read or
\* to the wait on not_empty.
PeekStart ==
  /\ phase = "up" /\ cons.at = "idle" /\ Len(mem.ahead) < Window
  /\ LET m   == IF mem.ahead = <<>> THEN RollReadCursor(mem) ELSE mem
         pos == NextPosition(m)
         at(where) == [at |-> where, n |-> Len(m.ahead),
                       pos |-> IF pos = None THEN Cursor(0, 0) ELSE pos]
     IN  IF pos # None THEN mem' = m /\ cons' = at("reading")
         ELSE /\ ~m.closed
              /\ mem' = [m EXCEPT !.notEmpty = FirstPoll(@, "peek", @.gen)]
              /\ cons' = IF ReadyAtFirstPoll(m.notEmpty, m.notEmpty.gen) THEN cons
                         ELSE at("parked")
  /\ UNCHANGED <<disk, phase, inflight, prod, history, bounds>>

\* What a read that found out at pos does to the state: the record is cached if
\* pos is still the next position, a corrupt span is skipped if it is the head.
Fetched(m, n, pos, out, due) ==
  IF out.rec # 0
  THEN IF Len(m.ahead) = n /\ NextPosition(m) = pos
       THEN [m EXCEPT !.ahead = Append(@, [rec |-> out.rec, seg |-> pos.seg,
                                           offset |-> pos.offset, len |-> out.len])]
       ELSE m
  ELSE IF n = 0 /\ HeadIs(pos) THEN NotifyFull(AdvanceReadCursor(m, out.len, due)) ELSE m

PeekDone ==
  /\ phase = "up" /\ cons.at = "reading"
  /\ cons' = IdlePeek
  /\ \/ /\ Readable(cons.pos) /\ UNCHANGED faults
        /\ \E due \in BOOLEAN :
             mem' = Fetched(mem, cons.n, cons.pos, ReadRecordAt(cons.pos), due)
     \/ /\ IF Readable(cons.pos) THEN Fault ELSE UNCHANGED faults
        /\ UNCHANGED mem
  /\ UNCHANGED <<disk, phase, inflight, prod, history, stops, policy>>

\* A parked peek or wait_at resumes, or a wait_at behind the head gives up at
\* its deadline.
PeekWakes ==
  /\ phase = "up" /\ cons.at = "parked"
  /\ \/ /\ Woken(mem.notEmpty, "peek")
        /\ mem' = [mem EXCEPT !.notEmpty = Resume(@, "peek")]
     \/ /\ cons.n > 0
        /\ mem' = [mem EXCEPT !.notEmpty = DropNotified(@, "peek")]
  /\ cons' = IdlePeek
  /\ UNCHANGED <<disk, phase, inflight, prod, history, bounds>>

\* commit: roll to the head's start, pop it and advance past it.
Commit ==
  /\ phase = "up" /\ cons.at = "idle" /\ mem.ahead # <<>>
  /\ LET head == Head(mem.ahead)
         m    == Uncount([RollReadCursor(mem) EXCEPT !.ahead = Tail(@)])
     IN  /\ \E due \in BOOLEAN : mem' = AdvanceReadCursor(m, head.len, due)
         /\ settled' = settled \cup {head.rec}
         /\ taken' = Append(taken, head.rec)
  /\ UNCHANGED <<disk, phase, inflight, prod, cons, pushed, accepted, rotted, clean, bounds>>

----------------------------------------------------------------------------
(* Stopping, crashing and opening *)

Close ==
  /\ phase = "up" /\ ~mem.closed
  /\ mem' = [mem EXCEPT !.closed = TRUE, !.notEmpty = NotifyWaiters(@),
                        !.notFull = NotifyWaiters(@)]
  /\ UNCHANGED <<disk, phase, inflight, prod, cons, history, bounds>>

\* A slip: finish waits for the worker without queueing the cursor.
FinishUnpersisted ==
  /\ phase = "up" /\ mem.closed /\ prod.at = "idle" /\ cons.at = "idle" /\ stops < MaxStops
  /\ phase' = "finishing"
  /\ UNCHANGED <<disk, mem, inflight, prod, cons, history, bounds>>

\* finish queues the cursor and waits for the worker to run every job.
Finish ==
  /\ phase = "up" /\ mem.closed /\ prod.at = "idle" /\ cons.at = "idle" /\ stops < MaxStops
  /\ phase' = "finishing"
  /\ mem' = QueuePersist(mem, Job(mem.read, <<>>))
  /\ UNCHANGED <<disk, inflight, prod, cons, history, bounds>>

\* It then flushes through the retained handle, which waits for a write a
\* dropped push left running, and repairs nothing.
Stopped ==
  /\ phase' = "down" /\ stops' = stops + 1
  /\ files' \in LandedFiles /\ inflight' = None
  /\ mem' = None /\ prod' = IdlePush /\ cons' = IdlePeek
  /\ UNCHANGED <<cursorFile, pushed, accepted, settled, taken, rotted, faults, policy>>

FinishDone == phase = "finishing" /\ mem.jobs = <<>> /\ Stopped /\ UNCHANGED clean

Crash == phase # "down" /\ stops < MaxStops /\ Stopped /\ clean' = FALSE

\* A bad sector takes a record that is on disk.
DiskRots ==
  /\ Fault
  /\ \E s \in DOMAIN files : \E p \in RecordStarts(files[s]) :
       /\ files' = [files EXCEPT ![s][p] = Rot]
       /\ rotted' = rotted \cup {files[s][p][1]}
  /\ UNCHANGED <<cursorFile, phase, mem, inflight, prod, cons, pushed, accepted, settled,
                 taken, clean, stops, policy>>

\* open's resume point: the persisted cursor, or the oldest segment's start if
\* the segment it names is gone; clamped to the segment's length.
ResumePoint(c, f) ==
  IF c = None \/ c.seg \notin DOMAIN f THEN Cursor(Min(DOMAIN f), 0)
  ELSE Cursor(c.seg, Min({c.offset, Len(f[c.seg])}))

\* The files once a torn tail is cut from the highest segment.
Recovered(f) == LET top == Max(DOMAIN f) IN [f EXCEPT ![top] = SubSeq(@, 1, GoodLen(@))]

\* The records open replays, from its resume point to the end of the spool.
Replay(c, f) ==
  LET at   == ResumePoint(c, f)
      seqs == SetToSortSeq({s \in DOMAIN f : s >= at.seg}, <)
  IN  FlattenSeq([i \in DOMAIN seqs |-> WalkFrom(f[seqs[i]], IF i = 1 THEN at.offset ELSE 0)])

FreshState(f, at, count) ==
  LET seqs == SetToSortSeq({s \in DOMAIN f : s >= at.seg}, <)
      segs == [i \in DOMAIN seqs |-> [seq |-> seqs[i], len |-> Len(f[seqs[i]])]]
  IN  [segs |-> segs, read |-> at, total |-> SumLen(segs, 1, Len(segs)), queued |-> count,
       ahead |-> <<>>, repair |-> None, rotating |-> FALSE, jobs |-> <<>>, persisted |-> FALSE,
       notEmpty |-> NewNotify, notFull |-> NewNotify, closed |-> FALSE]

\* open: create the first segment or cut a torn tail, persist the clamped
\* cursor, and unlink the segments it is past; either may fail and only costs.
Open ==
  /\ phase = "down" /\ phase' = "up"
  /\ LET f   == IF files = <<>> THEN [s \in {0} |-> <<>>] ELSE Recovered(files)
         at  == ResumePoint(cursorFile, f)
         old == {s \in DOMAIN f : s < at.seg}
     IN  /\ mem' = FreshState(f, at, Len(Replay(cursorFile, f)))
         /\ \/ /\ cursorFile' = at /\ UNCHANGED faults
               /\ files' = [s \in DOMAIN f \ old |-> f[s]]
            \/ /\ Fault /\ UNCHANGED cursorFile
               /\ files' = [s \in DOMAIN f \ old |-> f[s]]
            \/ /\ Fault /\ old # {} /\ cursorFile' = at /\ files' = f
  /\ taken' = <<>>
  /\ UNCHANGED <<inflight, prod, cons, pushed, accepted, settled, rotted, clean, stops, policy>>

Init ==
  /\ files = <<>> /\ cursorFile = None /\ phase = "down" /\ mem = None
  /\ inflight = None /\ prod = IdlePush /\ cons = IdlePeek
  /\ pushed = 0 /\ accepted = <<>> /\ settled = {} /\ taken = <<>> /\ rotted = {}
  /\ clean = FALSE /\ faults = 0 /\ stops = 0 /\ policy \in Policies

Push == \/ PushBegin \/ PushCheck \/ PushWakes \/ EvictOldest \/ RepairTornTail
        \/ RotateCreate \/ RotateAdopt \/ WriteIssued \/ WriteDone \/ PushDropped
Peek == PeekStart \/ PeekDone \/ PeekWakes \/ Commit
Worker == PersistCursor \/ UnlinkSegment \/ PersistJobDone \/ OrphanWriteLands
Life == Open \/ Close \/ Finish \/ FinishDone \/ Crash \/ DiskRots

Next == Push \/ Peek \/ Worker \/ Life

Spec == Init /\ [][Next]_vars

----------------------------------------------------------------------------
(* Properties *)

\* The records queued and not yet delivered, evicted or lost to a bad sector.
Outstanding == {r \in ToSet(accepted) : r \notin settled \cup rotted}

\* What the consumer of this life can still get: the records from the commit
\* cursor to the tracked ends of the segments.
Pending ==
  LET b(i) == SubSeq(files[mem.segs[i].seq], 1, mem.segs[i].len)
  IN  FlattenSeq([i \in DOMAIN mem.segs |->
        WalkFrom(b(i), IF mem.segs[i].seq = mem.read.seg THEN mem.read.offset ELSE 0)])

\* Whatever was dropped half-way, failed, rotated, unlinked or killed, a record
\* push counted as queued stays within reach of the consumer, and of the next
\* open should the process die now (write_record, repair_torn_tail,
\* rotate_segment, PersistJob's order of persist and unlink, open).
NothingLost ==
  /\ accepted # <<>> => Outstanding \subseteq ToSet(Replay(cursorFile, files))
  /\ phase # "down" => Outstanding \subseteq ToSet(Pending)

Increasing(s) == \A i, j \in DOMAIN s : i < j => s[i] < s[j]

\* One life hands records out in push order and none of them twice, its counters
\* (total_bytes, queued_records) agree with the files, and its commit cursor always names
\* a tracked segment (the expect("always at least one segment") of disk_queue.rs).
StoreIsExact ==
  phase = "up" =>
    /\ SegIndex(mem.segs, mem.read.seg) # 0
    /\ Increasing(taken \o Pending)
    /\ mem.total = SumLen(mem.segs, 1, Len(mem.segs))
    /\ rotted = {} => mem.queued = Len(Pending)

\* queue_persist: between two opens the cursor on disk never moves backward,
\* whichever side of the queue moved the cursor.
CursorNeverGoesBack ==
  [][phase # "down" /\ cursorFile' # cursorFile =>
       \/ cursorFile = None
       \/ cursorFile.seg < cursorFile'.seg
       \/ cursorFile.seg = cursorFile'.seg /\ cursorFile.offset < cursorFile'.offset]_vars

\* A parked peek has nothing to read, and a parked push something a consumer
\* will still consume, or their wake-up is on its way (roll_read_cursor's and
\* after_cursor_advance's comments).
NoStrandedWait ==
  phase = "up" =>
    /\ cons.at = "parked" /\ ~Woken(mem.notEmpty, "peek") =>
         ~mem.closed /\ Len(Pending) <= cons.n
    /\ prod.at = "blocked" /\ ~Woken(mem.notFull, "push") =>
         ~mem.closed /\ SumLen(mem.segs, 1, Len(mem.segs)) > mem.read.offset

\* A finish whose last persist succeeded leaves nothing of what this life
\* delivered to be delivered again by the next.
CleanStopReplaysNothing ==
  phase = "down" /\ clean /\ accepted # <<>> =>
    ToSet(Replay(cursorFile, files)) \cap ToSet(taken) = {}
=============================================================================
