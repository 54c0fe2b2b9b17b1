-------------------------------- MODULE FileTail --------------------------------
(***************************************************************************)
(* The tail driver of logit-inputs/src/tail (driver.rs, checkpoint.rs), as *)
(* tail_in runs it, over the files one pattern matches, a log and its last *)
(* rotation.  A writer appends, a rotator renames or copies and truncates, *)
(* inodes are recycled, and the process stops cleanly or crashes and       *)
(* resumes from its checkpoint.                                            *)
(*                                                                         *)
(* A file is a sequence of cells, numbered as they are written, so that no *)
(* two files hold the same cell unless one was copied from the other.  An  *)
(* even cell ends a line; an odd one leaves the line unterminated.  A scan *)
(* is two steps, the directory's listing and everything after it; a read,  *)
(* a flush, a checkpoint and a reap are one each, and the environment      *)
(* moves between any two.                                                  *)
(***************************************************************************)
EXTENDS Naturals, Sequences, FiniteSets, SequencesExt

CONSTANTS
  Inodes,            \* FileId
  None,              \* no inode, no listing, no copy
  MaxCells,          \* bound: cells the writer writes
  HeadCells,         \* HEAD_BYTES
  ClaimMinHead,      \* CLAIM_MIN_HEAD
  ClaimDeferScans,   \* CLAIM_DEFER_SCANS
  TruncationOffers,  \* TRUNCATION_OFFERS
  Chunk,             \* READ_CHUNK_BYTES
  MaxRotations,      \* bound: renames, copies and removals
  MaxStops,          \* bound: clean stops and crashes
  MaxFaults          \* bound: listings and checkpoint writes that fail

ASSUME TailAssumption ==
  /\ IsFiniteSet(Inodes) /\ None \notin Inodes \cup {"filling", "filled"}
  /\ {MaxCells, HeadCells, ClaimMinHead, ClaimDeferScans, TruncationOffers, Chunk, MaxRotations,
      MaxStops, MaxFaults} \subseteq Nat
  /\ 0 < Chunk /\ 0 < ClaimMinHead /\ ClaimMinHead <= HeadCells

VARIABLES
  dir,        \* what the log's and its rotation's names name
  data,       \* the cells of every inode
  writer,     \* the inode the writer has open
  cells,      \* cells written so far
  copy,       \* a copytruncate under way
  phase,      \* "down", "bind" before the first scan, "run"
  names,      \* the names a scan's listing has read, and not yet looked up
  tailer,     \* Tailer: files, resume, truncations, deferred, dirty
  disk,       \* the checkpoint file
  delivered,  \* cells of the lines consumers took
  twice,      \* a cell was delivered twice, and nothing yet explains it
  disturbed,  \* something that may replay has happened
  prunedLive, \* a scan dropped the entry of a file that is still there
  overwritten,\* cells written below a reader's offset, which it cannot see
  used        \* [rotations, stops, faults] so far

env == <<dir, data, writer, cells, copy>>
ghosts == <<delivered, twice, disturbed, prunedLive, overwritten>>
vars == <<env, phase, names, tailer, disk, ghosts, used>>

Paths == {"log", "log1"}
Linked == {dir[p] : p \in Paths} \ {None}
Fresh(i) == i \notin Linked /\ i # writer /\ i \notin DOMAIN tailer.files
Spend(what, bound) == used[what] < bound /\ used' = [used EXCEPT ![what] = @ + 1]
Closed == [files |-> <<>>, resume |-> <<>>, truncations |-> {}, deferred |-> <<>>, dirty |-> FALSE]

(***************************************************************************)
(* Identity: the head and the marker recorded with an offset.              *)
(***************************************************************************)
Upto(s, n) == SubSeq(s, 1, n)
HeadOf(s) == Upto(s, IF Len(s) < HeadCells THEN Len(s) ELSE HeadCells)
MarkerOf(s) == Reverse(HeadOf(Reverse(s)))

\* persisted_offset: what was read, up to the last line boundary.
Boundary(f) == Upto(f.seen, Len(f.seen) - f.pend)

Entry(f) == [path |-> f.path, before |-> Boundary(f), head |-> HeadOf(f.seen)]
Entries(t) == [i \in DOMAIN t.files \cup DOMAIN t.resume |->
                 IF i \in DOMAIN t.files THEN Entry(t.files[i]) ELSE t.resume[i]]

AcceptsItsNumber(d, e) == Len(e.before) <= Len(d)

\* A resume is accepted iff the file still has the entry's head and marker.
Accepts(d, e) ==
  /\ Len(e.before) <= Len(d) /\ IsPrefix(e.head, d)
  /\ MarkerOf(Upto(d, Len(e.before))) = MarkerOf(e.before)

\* A tracked file opened after the cells in seen.
Tracked(path, seen, claimable) ==
  [path |-> path, seen |-> seen, pend |-> 0, acc |-> {}, state |-> "active",
   claimable |-> claimable, waits |-> FALSE]

(***************************************************************************)
(* reconcile_truncation of the files in S: a file shorter than what was    *)
(* read of it is read again from its start, its partial line discarded,    *)
(* and its state from before is kept for a copy to claim.                  *)
(***************************************************************************)
Shrunk(t, S) == {i \in S \cap DOMAIN t.files : Len(data[i]) < Len(t.files[i].seen)}

Truncation(i, f) ==
  [id |-> i, before |-> Boundary(f), head |-> HeadOf(f.seen), read |-> Len(f.seen),
   offers |-> 0, pinned |-> FALSE]

Rewound(t, S) ==
  LET cut == Shrunk(t, S)
      lost == {Truncation(i, t.files[i]) : i \in cut}
  IN [t EXCEPT
        !.files = [i \in DOMAIN @ |-> IF i \in cut THEN [@[i] EXCEPT !.seen = <<>>, !.pend = 0]
                                                   ELSE @[i]],
        !.truncations = {x \in @ : x.id \notin cut} \cup {x \in lost : Len(x.head) >= ClaimMinHead},
        !.dirty = @ \/ cut # {}]

(***************************************************************************)
(* scan, first half: found maps the names looked up to their inodes, and   *)
(* listed says whether the listing worked.                                 *)
(***************************************************************************)
Found(found) == {found[p] : p \in DOMAIN found}
PathOf(found, i) == CHOOSE p \in DOMAIN found : found[p] = i

\* The stale paths, keep_unlisted and release_rotated.
Retires(i, found, listed) == IF listed THEN i \notin Found(found) ELSE i \notin Linked
Retired(f) == IF f.state = "active" THEN [f EXCEPT !.state = "draining"] ELSE f
Rebound(f, path) == [f EXCEPT !.path = path, !.state = "active"]

Untracked(t, found) ==
  {i \in Found(found) \cap DOMAIN t.files : t.files[i].claimable /\ data[i] # <<>>}
Resumed(t, found) == {i \in Found(found) \ DOMAIN t.files : i \in DOMAIN t.resume}
Unmatched(t, found) ==
  Untracked(t, found) \cup (Found(found) \ (DOMAIN t.files \cup DOMAIN t.resume))

\* An inode with an entry opens at it, or at its start if the content says no.
OpenedAt(t, i, path) ==
  Tracked(path, IF Accepts(data[i], t.resume[i]) THEN Upto(data[i], Len(t.resume[i].before))
                                                 ELSE <<>>, FALSE)

FirstPass(t, found, listed) ==
  LET resumed == Resumed(t, found)
      gone == Untracked(t, found)
  IN Rewound(
       [t EXCEPT
          !.files = [i \in (DOMAIN @ \ gone) \cup resumed |->
                       CASE i \in resumed -> OpenedAt(t, i, PathOf(found, i))
                         [] i \in Found(found) \ resumed -> Rebound(@[i], PathOf(found, i))
                         [] Retires(i, found, listed) -> Retired(@[i])
                         [] OTHER -> @[i]],
          !.resume = Restrict(@, DOMAIN @ \ resumed),
          !.dirty = @ \/ resumed \cup gone # {}],
       DOMAIN t.files \cup resumed)

\* Entries their own inode rejected in this scan.
Rejected(t, found) ==
  {i \in Resumed(t, found) : ~Accepts(data[i], t.resume[i])}

(***************************************************************************)
(* scan, second half: inodes nothing names may claim a position by content.*)
(***************************************************************************)
Candidate(from, id, e, min) ==
  [from |-> from, id |-> id, before |-> e.before, head |-> e.head, min |-> min]

\* read_candidates: the held truncations and the tracked files.
ReadCandidates(t) ==
  {Candidate("truncated", x.id, x, x.read) : x \in t.truncations}
  \cup {Candidate("live", i, Entry(t.files[i]), Len(Boundary(t.files[i]))) : i \in DOMAIN t.files}

\* candidates: and the entries nothing else will use.
Candidates(t, old, found, listed) ==
  {c \in ReadCandidates(t)
     \cup {Candidate("orphan", i, t.resume[i], Len(t.resume[i].before)) :
             i \in {j \in DOMAIN t.resume : listed /\ j \notin Found(found)}}
     \cup {Candidate("rejected", i, old.resume[i], Len(old.resume[i].before)) :
             i \in Rejected(old, found)} : Len(c.head) >= ClaimMinHead}

\* probe_file: "maybe" is a copy still being written.
Verdict(d, c) ==
  LET inMemory == c.from \in {"truncated", "live"} IN
  IF d = <<>> THEN "no"
  ELSE IF Len(d) < Len(c.head) THEN IF inMemory /\ IsPrefix(d, c.head) THEN "maybe" ELSE "no"
  ELSE IF ~IsPrefix(c.head, d) THEN "no"
  ELSE IF Len(d) < c.min THEN IF inMemory THEN "maybe" ELSE "no"
  ELSE IF MarkerOf(Upto(d, Len(c.before))) = MarkerOf(c.before) THEN "match" ELSE "no"

Matches(i, cands) == {c \in cands : Verdict(data[i], c) = "match"}
Takers(c, new) == {i \in new : Verdict(data[i], c) = "match"}
Waited(t, i) == IF i \in DOMAIN t.deferred THEN t.deferred[i] ELSE 0

\* An inode that matches one candidate, which only it matches.
Sole(i, cands, new) ==
  Cardinality(Matches(i, cands)) = 1 /\ \A c \in Matches(i, cands) : Takers(c, new) = {i}

\* A claim that is not made yet, since it could duplicate or a later scan could find one.
Defers(t, i, cands, new, first) ==
  /\ ~first /\ Waited(t, i) < ClaimDeferScans
  /\ \/ Sole(i, cands, new) /\ \A c \in Matches(i, cands) : c.from = "live"
     \/ Matches(i, cands) = {} /\ \E c \in cands : Verdict(data[i], c) = "maybe"

\* claim_unmatched, the opens that follow it, and settle_claims.
SecondPass(t, cands, new, found, first) ==
  LET deferred == {i \in new : Defers(t, i, cands, new, first)}
      claimants == {i \in new \ deferred : Sole(i, cands, new)}
      claim(i) == CHOOSE c \in Matches(i, cands) : TRUE
      taken(from) == {claim(i).id : i \in {j \in claimants : claim(j).from = from}}
      open(i) == IF i \in claimants
                 THEN Tracked(PathOf(found, i), Upto(data[i], Len(claim(i).before)), FALSE)
                 ELSE Tracked(PathOf(found, i), <<>>, data[i] = <<>>)
      pins(x) == \E i \in deferred : Verdict(data[i], Candidate("truncated", x.id, x, x.read)) # "no"
  IN [t EXCEPT
        !.files = [i \in DOMAIN @ \cup (new \ deferred) |->
                     IF i \in new THEN open(i) ELSE @[i]],
        !.resume = Restrict(@, DOMAIN @ \ taken("orphan")),
        !.truncations = {[x EXCEPT !.offers = @ + 1, !.pinned = pins(x)] :
                           x \in {y \in @ : y.id \notin taken("truncated")}},
        !.deferred = [i \in deferred |-> Waited(t, i) + 1],
        !.dirty = @ \/ new # deferred]

\* prune_checkpoint_entries and count_truncations.
Due(x) ==
  x.offers >= TruncationOffers /\ (~x.pinned \/ x.offers >= TruncationOffers + ClaimDeferScans)
Pruned(t, found, listed) ==
  LET kept == IF listed THEN Found(found) ELSE DOMAIN t.resume IN
  [t EXCEPT !.resume = Restrict(@, DOMAIN @ \cap kept),
            !.truncations = {x \in @ : ~Due(x)},
            !.dirty = @ \/ ~(DOMAIN t.resume \subseteq kept)]

\* A later scan that could have named a draining file had its chance to rebind it.
Rescanned(t, old, listed) ==
  [t EXCEPT !.files = [i \in DOMAIN @ |->
     IF listed /\ @[i].state = "draining" /\ i \in DOMAIN old.files /\ old.files[i].state = "draining"
     THEN [@[i] EXCEPT !.state = "rescanned"] ELSE @[i]]]

Scanned(t, found, listed, first) ==
  LET one == FirstPass(t, found, listed)
      two == SecondPass(one, Candidates(one, t, found, listed), Unmatched(t, found), found, first)
  IN Rescanned(Pruned(two, found, listed), t, listed)

Idle == phase # "down" /\ names = None

\* list reads the directory and then looks every name up: a file renamed in between is
\* found under neither name.
ReadDir ==
  /\ Idle
  /\ names' = {p \in Paths : dir[p] # None}
  /\ UNCHANGED <<env, phase, tailer, disk, ghosts, used>>

Scan ==
  /\ names # None
  /\ tailer' = Scanned(tailer, [p \in {n \in names : dir[n] # None} |-> dir[p]], TRUE, phase = "bind")
  /\ names' = None /\ phase' = "run"
  /\ prunedLive' = (prunedLive \/ \E i \in DOMAIN tailer.resume :
                      i \in Linked /\ i \notin {dir[p] : p \in names} /\ Accepts(data[i], tailer.resume[i]))
  /\ UNCHANGED <<env, disk, delivered, twice, disturbed, overwritten, used>>

ScanFails ==
  /\ Idle /\ Spend("faults", MaxFaults)
  /\ tailer' = Scanned(tailer, <<>>, FALSE, phase = "bind")
  /\ phase' = "run"
  /\ UNCHANGED <<env, names, disk, ghosts>>

\* on_data_wake, and the length checks of keep_unlisted and read_one between scans.
DataWake(i) ==
  /\ Idle /\ phase = "run" /\ Shrunk(tailer, {i}) # {}
  /\ tailer' = Rewound(tailer, {i})
  /\ UNCHANGED <<env, phase, names, disk, ghosts, used>>

(***************************************************************************)
(* drain: reads, and the reap of rotated files.                            *)
(***************************************************************************)
Deliver(S) ==
  /\ delivered' = delivered \cup S
  /\ twice' = (twice \/ (~disturbed /\ ~prunedLive /\ S \cap delivered # {}))

EndsLine(c) == c % 2 = 0

\* The splitter's lines: what follows the last line end stays pending.
Split(f, new) ==
  LET held == SubSeq(f.seen, Len(f.seen) - f.pend + 1, Len(f.seen)) \o new
      k == SelectLastInSeq(held, EndsLine)
  IN [lines |-> ToSet(Upto(held, k)), pend |-> Len(held) - k]

\* Its unterminated line.
Partial(f) == ToSet(SubSeq(f.seen, Len(f.seen) - f.pend + 1, Len(f.seen)))

\* claim_waits: a file opened empty whose first cells may be a copy's waits for a scan.
ClaimWaits(i) ==
  /\ tailer.files[i].claimable /\ tailer.files[i].state = "active"
  /\ \E c \in ReadCandidates(tailer) : Len(c.head) >= ClaimMinHead /\ Verdict(data[i], c) # "no"

\* read_one: one chunk, its lines into the accumulator, which is emitted at its bound.
Read(i) ==
  /\ Idle /\ phase = "run" /\ i \in DOMAIN tailer.files
  /\ LET f == tailer.files[i]
         size == IF Len(data[i]) < Len(f.seen) + Chunk THEN Len(data[i]) ELSE Len(f.seen) + Chunk
         new == SubSeq(data[i], Len(f.seen) + 1, size)
         s == Split(f, new)
     IN /\ Len(f.seen) < Len(data[i])
        /\ ~(f.waits /\ f.state = "active")
        /\ IF ClaimWaits(i)
           THEN /\ tailer' = [tailer EXCEPT !.files[i].waits = TRUE]
                /\ UNCHANGED ghosts
           ELSE \E full \in BOOLEAN :
                  /\ tailer' = [tailer EXCEPT
                       !.files[i] = [f EXCEPT !.seen = @ \o new, !.pend = s.pend,
                                       !.acc = IF full THEN {} ELSE @ \cup s.lines,
                                       !.claimable = FALSE, !.waits = FALSE],
                       !.dirty = TRUE]
                  /\ IF full THEN Deliver(f.acc \cup s.lines) ELSE UNCHANGED <<delivered, twice>>
                  /\ UNCHANGED <<disturbed, prunedLive, overwritten>>
  /\ UNCHANGED <<env, phase, names, disk, used>>

\* reap_drained: its last line is final, and its entry leaves the next checkpoint.
ReapsUnlisted(f) == f.state # "active"

Reapable(f) == f.state = "rescanned"

Reap(i) ==
  /\ Idle /\ phase = "run" /\ i \in DOMAIN tailer.files
  /\ Reapable(tailer.files[i]) /\ Len(data[i]) = Len(tailer.files[i].seen)
  /\ Deliver(tailer.files[i].acc \cup Partial(tailer.files[i]))
  /\ tailer' = [tailer EXCEPT !.files = Restrict(@, DOMAIN @ \ {i}), !.dirty = TRUE]
  /\ UNCHANGED <<env, phase, names, disk, disturbed, prunedLive, overwritten, used>>

(***************************************************************************)
(* The flush and checkpoint ticks, stops and starts.                       *)
(***************************************************************************)
Accumulated == UNION {tailer.files[i].acc : i \in DOMAIN tailer.files}
Emptied == [tailer EXCEPT !.files = [i \in DOMAIN @ |-> [@[i] EXCEPT !.acc = {}]]]

FlushAll ==
  /\ Idle /\ phase = "run" /\ Accumulated # {}
  /\ Deliver(Accumulated) /\ tailer' = Emptied
  /\ UNCHANGED <<env, phase, names, disk, disturbed, prunedLive, overwritten, used>>

\* The checkpoint tick: a flush, then write_checkpoint, which a clean store skips and a
\* failure leaves to the next tick.
Checkpoint ==
  /\ Idle /\ phase = "run" /\ tailer.dirty
  /\ Deliver(Accumulated)
  /\ \/ disk' = Entries(tailer) /\ tailer' = [Emptied EXCEPT !.dirty = FALSE] /\ UNCHANGED used
     \/ Spend("faults", MaxFaults) /\ tailer' = Emptied /\ UNCHANGED disk
  /\ UNCHANGED <<env, phase, names, disturbed, prunedLive, overwritten>>

\* Everything read is emitted, so the entries stand at the read offsets.
Settled == [tailer EXCEPT !.files = [i \in DOMAIN @ |-> [@[i] EXCEPT !.pend = 0]]]

Down == phase' = "down" /\ names' = None /\ tailer' = Closed

\* close_all_for_shutdown, flush_all and the forced write, which may fail.
Shutdown ==
  /\ Idle /\ phase = "run"
  /\ Deliver(Accumulated \cup UNION {Partial(tailer.files[i]) : i \in DOMAIN tailer.files})
  /\ Down
  /\ \/ /\ disk' = Entries(Settled)
        /\ Spend("stops", MaxStops) /\ UNCHANGED disturbed
     \/ /\ used.stops < MaxStops /\ used.faults < MaxFaults
        /\ used' = [used EXCEPT !.stops = @ + 1, !.faults = @ + 1]
        /\ disturbed' = TRUE /\ UNCHANGED disk
  /\ UNCHANGED <<env, prunedLive, overwritten>>

\* The process is killed, or stops because no consumer took a batch: it writes nothing.
Crash ==
  /\ phase # "down" /\ Spend("stops", MaxStops)
  /\ Down /\ disturbed' = TRUE
  /\ UNCHANGED <<env, disk, delivered, twice, prunedLive, overwritten>>

Bind ==
  /\ phase = "down"
  /\ phase' = "bind" /\ tailer' = [Closed EXCEPT !.resume = disk]
  /\ UNCHANGED <<env, names, disk, ghosts, used>>

(***************************************************************************)
(* The environment: a writer and a log rotator.                            *)
(***************************************************************************)
Tailed == <<phase, names, tailer, disk, delivered, twice, prunedLive>>

\* A cell written at a position a reader has passed already is the one truncation that
\* sizes cannot show (docs/adr/tail-content-identity.md, decision 8).
Write ==
  /\ cells < MaxCells
  /\ cells' = cells + 1
  /\ data' = [data EXCEPT ![writer] = Append(@, cells + 1)]
  /\ overwritten' = IF /\ writer \in DOMAIN tailer.files
                       /\ Len(data[writer]) < Len(tailer.files[writer].seen)
                    THEN overwritten \cup {cells + 1} ELSE overwritten
  /\ UNCHANGED <<dir, writer, copy, Tailed, disturbed, used>>

\* The log becomes its rotation, replacing the last one; the writer still has it open.
Rename ==
  /\ dir["log"] # None /\ copy = None /\ Spend("rotations", MaxRotations)
  /\ dir' = [dir EXCEPT !["log1"] = dir["log"], !["log"] = None]
  /\ UNCHANGED <<data, writer, cells, copy, Tailed, disturbed, overwritten>>

\* The writer opens a new log, on an inode that may have been another file's.
Reopen(i) ==
  /\ dir["log"] = None /\ Fresh(i)
  /\ dir' = [dir EXCEPT !["log"] = i] /\ data' = [data EXCEPT ![i] = <<>>] /\ writer' = i
  /\ UNCHANGED <<cells, copy, Tailed, disturbed, overwritten, used>>

Unlink ==
  /\ dir["log1"] # None /\ copy = None /\ Spend("rotations", MaxRotations)
  /\ dir' = [dir EXCEPT !["log1"] = None]
  /\ UNCHANGED <<data, writer, cells, copy, Tailed, disturbed, overwritten>>

\* copytruncate: an empty copy, filled cell by cell, and then the log is truncated.
CopyStart(i) ==
  /\ dir["log"] # None /\ dir["log1"] = None /\ copy = None /\ Fresh(i)
  /\ Spend("rotations", MaxRotations)
  /\ dir' = [dir EXCEPT !["log1"] = i] /\ data' = [data EXCEPT ![i] = <<>>]
  /\ copy' = "filling" /\ disturbed' = TRUE
  /\ UNCHANGED <<writer, cells, Tailed, overwritten>>

CopyMore ==
  /\ copy = "filling"
  /\ LET from == data[dir["log"]]  n == Len(data[dir["log1"]]) IN
       IF n < Len(from)
       THEN data' = [data EXCEPT ![dir["log1"]] = Append(@, from[n + 1])] /\ UNCHANGED copy
       ELSE copy' = "filled" /\ UNCHANGED data
  /\ UNCHANGED <<dir, writer, cells, Tailed, disturbed, overwritten, used>>

Truncate ==
  /\ copy = "filled" /\ copy' = None
  /\ data' = [data EXCEPT ![dir["log"]] = <<>>]
  /\ UNCHANGED <<dir, writer, cells, Tailed, disturbed, overwritten, used>>

Init ==
  /\ \E i \in Inodes :
       dir = [p \in Paths |-> IF p = "log" THEN i ELSE None] /\ writer = i
  /\ data = [i \in Inodes |-> <<>>] /\ cells = 0 /\ copy = None
  /\ phase = "down" /\ names = None /\ tailer = Closed /\ disk = <<>>
  /\ delivered = {} /\ overwritten = {} /\ twice = FALSE /\ disturbed = FALSE /\ prunedLive = FALSE
  /\ used = [rotations |-> 0, stops |-> 0, faults |-> 0]

Next ==
  \/ ReadDir \/ Scan \/ ScanFails \/ FlushAll \/ Checkpoint \/ Shutdown \/ Crash \/ Bind
  \/ \E i \in Inodes : DataWake(i) \/ Read(i) \/ Reap(i) \/ Reopen(i) \/ CopyStart(i)
  \/ Write \/ Rename \/ Unlink \/ CopyMore \/ Truncate

Spec == Init /\ [][Next]_vars

(***************************************************************************)
(* Properties.                                                             *)
(***************************************************************************)
Cells(s) == ToSet(s)

\* A position never covers a cell that nobody has: whatever a tracked file has below its
\* offset was delivered, or is in an accumulator, or is its own unterminated line, and
\* what a checkpoint entry covers, on disk or not yet used, was delivered.  So no order of
\* rotation, copy, truncation, recycled inode, claim, crash and restart skips a cell that
\* some file still holds (write_checkpoint, open_tracked, claim_unmatched).  The exception
\* is `overwritten`: what a truncated log was refilled with below the offset of a reader
\* that had not seen it shrink, a decided limit (docs/adr/tail-content-identity.md,
\* decision 8).
NothingSkipped ==
  /\ \A i \in DOMAIN tailer.files :
       LET f == tailer.files[i]
           below == Upto(data[i], IF Len(data[i]) < Len(f.seen) THEN Len(data[i]) ELSE Len(f.seen))
       IN Cells(below) \subseteq delivered \cup Accumulated \cup Partial(f) \cup overwritten
  /\ \A i \in DOMAIN disk : Cells(disk[i].before) \subseteq delivered
  /\ \A i \in DOMAIN tailer.resume : Cells(tailer.resume[i].before) \subseteq delivered

\* Without a crash, a stop whose checkpoint failed, a copy of the log or an entry dropped by
\* a scan that raced a rename, no cell is delivered twice: a rotated file is found again
\* under its new name, or stays open until a scan could have found it, and a clean stop
\* leaves nothing to read again (reap_drained, open_tracked).
DeliveredOnce == ~twice
==================================================================================
