--------------------------- MODULE FileTailProofs ---------------------------
(***************************************************************************)
(* Proofs about the tail driver: no position it keeps, in memory or in its *)
(* checkpoint, covers a cell nobody has, and without a crash, a copy or a  *)
(* raced listing no cell is delivered twice, for any files, sizes and      *)
(* schedule.                                                               *)
(*                                                                         *)
(* Content decides identity here, so the invariant is about content.  Two  *)
(* files that agree on a cell agree on everything before it (OneHistory):  *)
(* a cell is written once and then only copied with what it follows.  What *)
(* a reader has seen may be cells of two files, when one was truncated and *)
(* grew past the reader's offset, but then its first cell and its last are *)
(* of different files (Sound), and the head check rejects it.              *)
(***************************************************************************)
EXTENDS FileTail, SequenceFacts, FiniteSetTheorems, WellFoundedInduction

-----------------------------------------------------------------------------
(* The inductive invariant: nothing is skipped.                            *)

States == {"active", "draining", "rescanned"}
File   == [path : Paths, seen : Seq(Nat), pend : Nat, acc : SUBSET Nat, state : States,
           claimable : BOOLEAN, waits : BOOLEAN]
Saved  == [path : Paths, before : Seq(Nat), head : Seq(Nat)]
Held   == [id : Inodes, before : Seq(Nat), head : Seq(Nat), read : Nat, offers : Nat,
           pinned : BOOLEAN]

\* The cells of s were written by now.
Stamped(s, N) == s \in Seq(Nat) /\ \A k \in 1..Len(s) : s[k] <= N

\* s is how d begins.
Begins(s, d) == Len(s) <= Len(d) /\ \A k \in 1..Len(s) : s[k] = d[k]

\* A file that has the first cell of s and a later one has all of s between them.
Sound(s, d) ==
  \A j \in Inodes : \A k \in 1..Len(s) :
    (k <= Len(d[j]) /\ d[j][1] = s[1] /\ d[j][k] = s[k]) => \A m \in 1..k : d[j][m] = s[m]

\* Two files that agree on a cell agree on all that is before it.
OneHistory(d) ==
  \A i, j \in Inodes : \A k \in 1..Len(d[i]) :
    (k <= Len(d[j]) /\ d[i][k] = d[j][k]) => \A m \in 1..k : d[i][m] = d[j][m]

\* A position that may be resumed or claimed: the cells before it are in G.
PositionInv(before, head, d, G, N) ==
  /\ Stamped(before, N) /\ Stamped(head, N) /\ Sound(before, d)
  /\ ToSet(before) \subseteq G
  /\ before # <<>> => head # <<>> /\ head[1] = before[1]

\* A tracked file whose content is d[i]: the cells of its lines are in G.
FileInv(f, i, d, G, ov, N) ==
  /\ f \in File /\ f.pend <= Len(f.seen)
  /\ Stamped(f.seen, N) /\ Sound(f.seen, d)
  /\ \A k \in 1..(Len(f.seen) - f.pend) : f.seen[k] \in G
  /\ d[i] # <<>> /\ f.seen # <<>> /\ d[i][1] = f.seen[1] => Begins(f.seen, d[i])
  /\ \A m \in 1..Len(d[i]) : m <= Len(f.seen) =>
       d[i][m] \in ov \/ \E k \in 1..Len(f.seen) : d[i][m] = f.seen[k]
  /\ f.claimable => f.seen = <<>> /\ f.acc = {}

Record(t) == t = [files |-> t.files, resume |-> t.resume, truncations |-> t.truncations,
                  deferred |-> t.deferred, dirty |-> t.dirty]

ResumeInv(r, d, G, N) ==
  \A i \in DOMAIN r : i \in Inodes /\ r[i] \in Saved /\ PositionInv(r[i].before, r[i].head, d, G, N)
FilesInv(files, d, G, ov, N) == \A i \in DOMAIN files : i \in Inodes /\ FileInv(files[i], i, d, G, ov, N)
HeldInv(T, d, G, N) ==
  \A x \in T : x \in Held /\ Len(x.before) <= x.read /\ PositionInv(x.before, x.head, d, G, N)

AccOf(files) == UNION {files[i].acc : i \in DOMAIN files}

TailInv(t, d, D, G, ov, N) ==
  /\ Record(t)
  /\ FilesInv(t.files, d, G, ov, N)
  /\ ResumeInv(t.resume, d, D, N)
  /\ HeldInv(t.truncations, d, G, N)

DirInv ==
  /\ dir \in [Paths -> Inodes \cup {None}] /\ writer \in Inodes
  /\ dir["log"] \in {None, writer}
  /\ dir["log"] = dir["log1"] => dir["log"] = None
  /\ copy \in {None, "filling", "filled"}
  /\ copy # None => dir["log"] # None /\ dir["log1"] # None
  /\ copy = "filling" => Begins(data[dir["log1"]], data[dir["log"]])
  /\ \A i \in DOMAIN tailer.files : copy = "filling" /\ i = dir["log1"] =>
       Len(tailer.files[i].seen) <= Len(data[i])

DataInv ==
  /\ cells \in Nat /\ data \in [Inodes -> Seq(Nat)]
  /\ \A i \in Inodes : Stamped(data[i], cells)
  /\ OneHistory(data)

SkipInv ==
  /\ DirInv /\ DataInv
  /\ phase \in {"down", "bind", "run"}
  /\ names = None \/ names \in SUBSET Paths
  /\ TailInv(tailer, data, delivered, delivered \cup AccOf(tailer.files), overwritten, cells)
  /\ ResumeInv(disk, data, delivered, cells)

-----------------------------------------------------------------------------
(* The inductive invariant: nothing is delivered twice.                    *)

\* No two files, and no two places of a file, hold the same cell.
Distinct(d) ==
  \A i, j \in Inodes : \A k \in 1..Len(d[i]), l \in 1..Len(d[j]) :
    d[i][k] = d[j][l] => i = j /\ k = l

\* Of what the file holds, exactly what its reader has done may have been delivered.
OnceFile(f, d, D) ==
  /\ Begins(f.seen, d)
  /\ \A k \in 1..Len(d) : d[k] \in D => k <= Len(f.seen) - f.pend /\ d[k] \notin f.acc
  /\ f.acc \subseteq {d[k] : k \in 1..(Len(f.seen) - f.pend)}

\* An entry is of the inode's file, or the inode was recycled and shares nothing with it.
OnceEntry(e, d, D) ==
  \/ /\ Begins(e.before, d) /\ Begins(e.head, d)
     /\ \A k \in 1..Len(d) : d[k] \in D => k <= Len(e.before)
  \/ \A k \in 1..Len(d) : d[k] \notin D \cup ToSet(e.before) \cup ToSet(e.head)

OnceResume(r, d, D) ==
  \A i \in DOMAIN r :
    /\ OnceEntry(r[i], d[i], D)
    /\ \A j \in Inodes \ {i} : \A k \in 1..Len(d[j]) : d[j][k] \notin ToSet(r[i].head)

\* Nothing of a file nobody knows of was delivered.
Untold(i, d, D) == \A k \in 1..Len(d[i]) : d[i][k] \notin D

\* A file a scan missed is gone, or a scan that reads the directory now will find it.
OnceListed(t) ==
  /\ \A i \in DOMAIN t.files :
       /\ t.files[i].state # "active" => i \notin Linked \/ i = dir["log1"]
       /\ t.files[i].state = "rescanned" => i \notin Linked
       /\ names # None /\ t.files[i].state # "active" /\ i \in Linked => "log1" \in names
  /\ names # None /\ "log" \notin names => dir["log"] \notin DOMAIN t.files

OnceTail(t, d, D) ==
  /\ t.truncations = {}
  /\ DOMAIN t.files \cap DOMAIN t.resume = {}
  /\ \A i \in DOMAIN t.files : OnceFile(t.files[i], d[i], D)
  /\ OnceResume(t.resume, d, D)

Undisturbed == ~disturbed /\ ~prunedLive

OnceClean ==
  /\ Distinct(data)
  /\ \A c \in delivered : c \in Nat /\ c <= cells
  /\ OnceTail(tailer, data, delivered)
  /\ OnceListed(tailer)
  /\ \A i \in Linked : i \notin DOMAIN tailer.files /\ i \notin DOMAIN tailer.resume /\ phase # "down"
       => Untold(i, data, delivered)
  /\ phase = "down" =>
       /\ OnceResume(disk, data, delivered)
       /\ \A i \in Linked : i \notin DOMAIN disk => Untold(i, data, delivered)

OnceInv ==
  /\ ~twice
  /\ phase = "down" => tailer = Closed /\ names = None
  /\ copy # None => disturbed
  /\ Undisturbed => OnceClean

TailInductive == SkipInv /\ OnceInv

-----------------------------------------------------------------------------
(* Sequences: prefixes, heads and markers.                                 *)

\* How a sequence begins.
LEMMA UptoFacts ==
  ASSUME NEW s \in Seq(Nat), NEW n \in 0..Len(s)
  PROVE  /\ Upto(s, n) \in Seq(Nat) /\ Len(Upto(s, n)) = n
         /\ \A k \in 1..n : Upto(s, n)[k] = s[k]
BY DEF Upto

\* The first cells of a file stand for it as far as they go, and are its first cell at least.
LEMMA HeadFacts ==
  ASSUME NEW s \in Seq(Nat)
  PROVE  /\ HeadOf(s) \in Seq(Nat) /\ Len(HeadOf(s)) <= Len(s)
         /\ \A k \in 1..Len(HeadOf(s)) : HeadOf(s)[k] = s[k]
         /\ s # <<>> => HeadOf(s) # <<>> /\ HeadOf(s)[1] = s[1]
<1> DEFINE n == IF Len(s) < HeadCells THEN Len(s) ELSE HeadCells
<1>1. HeadCells \in Nat /\ 0 < HeadCells
  BY TailAssumption
<1>2. n \in 0..Len(s) /\ (s # <<>> => n >= 1)
  BY <1>1
<1>3. HeadOf(s) = Upto(s, n)
  BY DEF HeadOf
<1> HIDE DEF n
<1>4. HeadOf(s) \in Seq(Nat) /\ Len(HeadOf(s)) = n /\ \A k \in 1..n : HeadOf(s)[k] = s[k]
  BY <1>2, <1>3, UptoFacts
<1> QED
  BY <1>2, <1>4

\* Two positions with the same marker are behind the same cell.
LEMMA MarkerFacts ==
  ASSUME NEW s \in Seq(Nat), NEW t \in Seq(Nat), Len(s) = Len(t), s # <<>>,
         MarkerOf(s) = MarkerOf(t)
  PROVE  s[Len(s)] = t[Len(t)]
<1>1. ASSUME NEW u \in Seq(Nat), Len(u) > 0
      PROVE  MarkerOf(u) # <<>> /\ MarkerOf(u)[Len(MarkerOf(u))] = u[Len(u)]
  <2>1. Reverse(u) \in Seq(Nat) /\ Len(Reverse(u)) = Len(u) /\ Reverse(u)[1] = u[Len(u)]
    BY <1>1 DEF Reverse
  <2> DEFINE h == HeadOf(Reverse(u))
  <2>2. h \in Seq(Nat) /\ h # <<>> /\ h[1] = u[Len(u)]
    BY <1>1, <2>1, HeadFacts
  <2>3. MarkerOf(u) = Reverse(h)
    BY DEF MarkerOf
  <2> HIDE DEF h
  <2>4. Len(h) > 0 /\ Len(Reverse(h)) = Len(h) /\ Reverse(h)[Len(h)] = h[1]
    BY <2>2 DEF Reverse
  <2> QED
    BY <2>2, <2>3, <2>4
<1>2. Len(s) > 0 /\ Len(t) > 0
  OBVIOUS
<1> QED
  BY <1>1, <1>2

\* IsPrefix, cell by cell.
LEMMA PrefixFacts ==
  ASSUME NEW s \in Seq(Nat), NEW t \in Seq(Nat)
  PROVE  IsPrefix(s, t) <=> Begins(s, t)
<1>1. SubSeq(s, 1, Len(s)) \in Seq(Nat) /\ Len(SubSeq(s, 1, Len(s))) = Len(s)
      /\ \A k \in 1..Len(s) : SubSeq(s, 1, Len(s))[k] = s[k]
  OBVIOUS
<1>2. ASSUME Len(s) <= Len(t)
      PROVE  SubSeq(t, 1, Len(s)) \in Seq(Nat) /\ Len(SubSeq(t, 1, Len(s))) = Len(s)
             /\ \A k \in 1..Len(s) : SubSeq(t, 1, Len(s))[k] = t[k]
  BY <1>2
<1> DEFINE a == SubSeq(s, 1, Len(s))  b == SubSeq(t, 1, Len(s))
<1>3. CASE Len(s) <= Len(t)
  <2>1. /\ a \in Seq(Nat) /\ b \in Seq(Nat) /\ Len(a) = Len(s) /\ Len(b) = Len(s)
        /\ \A k \in 1..Len(s) : a[k] = s[k] /\ b[k] = t[k]
    BY <1>1, <1>2, <1>3
  <2>2. IsPrefix(s, t) <=> a = b
    BY <1>3 DEF IsPrefix
  <2> HIDE DEF a, b
  <2>3. a = b <=> \A k \in 1..Len(s) : a[k] = b[k]
    BY <2>1, SeqEqual
  <2> QED
    BY <1>3, <2>1, <2>2, <2>3 DEF Begins
<1>4. CASE ~(Len(s) <= Len(t))
  BY <1>4 DEF IsPrefix, Begins
<1> QED
  BY <1>3, <1>4

\* Content tells files apart: one that passes the head and the marker checks has exactly
\* the cells the position was taken after.
LEMMA SamePosition ==
  ASSUME NEW d \in [Inodes -> Seq(Nat)], NEW i \in Inodes, NEW before, NEW head, NEW G,
         NEW N, PositionInv(before, head, d, G, N),
         Len(before) <= Len(d[i]), IsPrefix(head, d[i]),
         MarkerOf(Upto(d[i], Len(before))) = MarkerOf(before)
  PROVE  Upto(d[i], Len(before)) = before /\ Begins(before, d[i])
<1> DEFINE u == Upto(d[i], Len(before))
<1>1. before \in Seq(Nat) /\ head \in Seq(Nat) /\ d[i] \in Seq(Nat)
  BY DEF PositionInv, Stamped
<1>2. u \in Seq(Nat) /\ Len(u) = Len(before) /\ \A k \in 1..Len(before) : u[k] = d[i][k]
  BY <1>1, UptoFacts
<1> HIDE DEF u
<1>3. \A k \in 1..Len(before) : d[i][k] = before[k]
  <2>1. CASE before = <<>>
    BY <2>1
  <2>2. CASE before # <<>>
    <3>1. Len(before) \in Nat /\ Len(before) > 0 /\ Len(head) > 0 /\ head[1] = before[1]
      BY <1>1, <2>2 DEF PositionInv
    <3>2. u[Len(before)] = before[Len(before)]
      BY <1>1, <1>2, <2>2, <3>1, MarkerFacts DEF u
    <3>3. d[i][1] = before[1]
      <4>1. Begins(head, d[i])
        BY <1>1, PrefixFacts
      <4>2. 1 \in 1..Len(head)
        BY <1>1, <3>1
      <4>3. head[1] = d[i][1]
        BY <4>1, <4>2 DEF Begins
      <4> QED
        BY <3>1, <4>3
    <3>4. d[i][Len(before)] = before[Len(before)]
      BY <1>2, <3>1, <3>2
    <3>5. Sound(before, d)
      BY DEF PositionInv
    <3>6. \A m \in 1..Len(before) : d[i][m] = before[m]
      <4>1. Len(before) \in 1..Len(before)
        BY <3>1
      <4> QED
        BY <3>3, <3>4, <3>5, <4>1 DEF Sound
    <3> QED
      BY <3>6
  <2> QED
    BY <2>1, <2>2
<1>4. u = before
  BY <1>1, <1>2, <1>3, SeqEqual
<1> QED
  BY <1>3, <1>4 DEF u, Begins

-----------------------------------------------------------------------------
(* Positions and tracked files.                                            *)

\* An earlier position of the same reader is as sound.
LEMMA SoundPrefix ==
  ASSUME NEW s \in Seq(Nat), NEW u \in Seq(Nat), NEW d, Sound(s, d), Begins(u, s)
  PROVE  Sound(u, d)
<1> SUFFICES ASSUME NEW j \in Inodes, NEW k \in 1..Len(u),
                    k <= Len(d[j]), d[j][1] = u[1], d[j][k] = u[k]
             PROVE  \A m \in 1..k : d[j][m] = u[m]
  BY DEF Sound
<1>1. /\ k \in 1..Len(s) /\ 1 \in 1..Len(u) /\ u[1] = s[1] /\ u[k] = s[k]
      /\ \A m \in 1..k : m \in 1..Len(u) /\ u[m] = s[m]
  <2>1. Len(u) \in Nat /\ Len(s) \in Nat /\ Len(u) <= Len(s) /\ \A m \in 1..Len(u) : u[m] = s[m]
    BY DEF Begins
  <2>2. k \in 1..Len(s) /\ 1 \in 1..Len(u) /\ \A m \in 1..k : m \in 1..Len(u)
    BY <2>1
  <2> QED
    BY <2>1, <2>2
<1>2. \A m \in 1..k : d[j][m] = s[m]
  BY <1>1 DEF Sound
<1> QED
  BY <1>1, <1>2

\* Nothing is too little to be wrong about.
LEMMA NoPosition ==
  ASSUME NEW d, NEW G, NEW N
  PROVE  Stamped(<<>>, N) /\ Sound(<<>>, d) /\ PositionInv(<<>>, <<>>, d, G, N)
<1>0. <<>> \in Seq(Nat) /\ Len(<<>>) = 0
  OBVIOUS
<1>1. <<>> \in Seq(Nat) /\ Len(<<>>) = 0 /\ ToSet(<<>>) = {}
  BY <1>0, ToSetEmpty
<1>2. 1..Len(<<>>) = {}
  BY <1>1
<1> QED
  BY <1>1, <1>2 DEF Stamped, Sound, PositionInv

\* What a tracked file's entry says, persisted_offset at the last line boundary.
LEMMA EntryPosition ==
  ASSUME NEW f, NEW i, NEW d, NEW G, NEW ov, NEW N, FileInv(f, i, d, G, ov, N)
  PROVE  /\ PositionInv(Boundary(f), HeadOf(f.seen), d, G, N)
         /\ Boundary(f) \in Seq(Nat) /\ Len(Boundary(f)) = Len(f.seen) - f.pend
         /\ Len(Boundary(f)) \in 0..Len(f.seen)
         /\ \A k \in 1..Len(Boundary(f)) : Boundary(f)[k] = f.seen[k]
         /\ Entry(f) \in Saved /\ Entry(f).before = Boundary(f) /\ Entry(f).head = HeadOf(f.seen)
<1> DEFINE b == Boundary(f)  h == HeadOf(f.seen)
<1>1. f.seen \in Seq(Nat) /\ f.pend \in Nat /\ f.pend <= Len(f.seen) /\ f.path \in Paths
  BY DEF FileInv, File
<1>2. Len(f.seen) - f.pend \in 0..Len(f.seen)
  BY <1>1
<1>3. /\ b \in Seq(Nat) /\ Len(b) = Len(f.seen) - f.pend
      /\ \A k \in 1..Len(b) : b[k] = f.seen[k]
  BY <1>1, <1>2, UptoFacts DEF Boundary
<1>4. /\ h \in Seq(Nat) /\ Len(h) <= Len(f.seen)
      /\ \A k \in 1..Len(h) : h[k] = f.seen[k]
      /\ f.seen # <<>> => h # <<>> /\ h[1] = f.seen[1]
  BY <1>1, HeadFacts
<1>5. Entry(f) \in Saved /\ Entry(f).before = b /\ Entry(f).head = h
  BY <1>1, <1>3, <1>4 DEF Entry, Saved
<1> HIDE DEF b, h
<1>a. \A k \in 1..Len(f.seen) : f.seen[k] <= N
  BY DEF FileInv, Stamped
<1>b. (\A k \in 1..Len(b) : k \in 1..Len(f.seen)) /\ (\A k \in 1..Len(h) : k \in 1..Len(f.seen))
  BY <1>1, <1>2, <1>3, <1>4
<1>6. Stamped(b, N)
  BY <1>3, <1>a, <1>b DEF Stamped
<1>7. Stamped(h, N)
  BY <1>4, <1>a, <1>b DEF Stamped
<1>8. Begins(b, f.seen)
  BY <1>1, <1>2, <1>3 DEF Begins
<1>9. Sound(b, d)
  BY <1>1, <1>3, <1>8, SoundPrefix DEF FileInv
<1>10. ToSet(b) \subseteq G
  <2>1. \A k \in 1..Len(b) : b[k] \in G
    BY <1>3 DEF FileInv
  <2> QED
    BY <1>3, <2>1, ToSetByIndex
<1>11. b # <<>> => h # <<>> /\ h[1] = b[1]
  <2>1. ASSUME b # <<>> PROVE Len(b) >= 1 /\ f.seen # <<>> /\ b[1] = f.seen[1]
    BY <1>1, <1>2, <1>3, <2>1
  <2> QED
    BY <1>4, <2>1
<1>12. PositionInv(b, h, d, G, N)
  BY <1>6, <1>7, <1>9, <1>10, <1>11 DEF PositionInv
<1> QED
  BY <1>1, <1>2, <1>3, <1>5, <1>12 DEF b, h

\* A file opened at a position its content agrees with.
LEMMA OpenedFile ==
  ASSUME NEW d \in [Inodes -> Seq(Nat)], NEW i \in Inodes, NEW path \in Paths, NEW before, NEW head,
         NEW G, NEW ov, NEW N, PositionInv(before, head, d, G, N), Begins(before, d[i]),
         NEW claimable \in BOOLEAN, claimable => before = <<>>
  PROVE  FileInv(Tracked(path, before, claimable), i, d, G, ov, N)
<1> DEFINE f == Tracked(path, before, claimable)
<1>1. before \in Seq(Nat) /\ Len(before) \in Nat /\ Stamped(before, N) /\ Sound(before, d)
  BY DEF PositionInv, Stamped
<1>2. /\ f \in File /\ f.seen = before /\ f.pend = 0 /\ f.acc = {} /\ f.claimable = claimable
  BY <1>1 DEF Tracked, File, States
<1> HIDE DEF f
<1>3. \A k \in 1..(Len(f.seen) - f.pend) : f.seen[k] \in G
  <2>1. \A k \in 1..Len(before) : before[k] \in G
    BY <1>1, ToSetByIndex DEF PositionInv
  <2> QED
    BY <1>1, <1>2, <2>1
<1>4. ASSUME NEW m \in 1..Len(d[i]), m <= Len(f.seen)
      PROVE  \E k \in 1..Len(f.seen) : d[i][m] = f.seen[k]
  <2>1. m \in 1..Len(f.seen)
    BY <1>1, <1>2, <1>4
  <2>2. f.seen[m] = d[i][m]
    BY <1>2, <2>1 DEF Begins
  <2> QED
    BY <2>1, <2>2
<1>5. FileInv(f, i, d, G, ov, N)
  BY <1>1, <1>2, <1>3, <1>4 DEF FileInv
<1> QED
  BY <1>5 DEF f

\* A file opened at its start.
LEMMA OpenedEmpty ==
  ASSUME NEW d \in [Inodes -> Seq(Nat)], NEW i \in Inodes, NEW path \in Paths,
         NEW G, NEW ov, NEW N, NEW claimable \in BOOLEAN
  PROVE  FileInv(Tracked(path, <<>>, claimable), i, d, G, ov, N)
<1>1. PositionInv(<<>>, <<>>, d, G, N)
  BY NoPosition
<1>2. Begins(<<>>, d[i])
  BY DEF Begins
<1> QED
  BY <1>1, <1>2, OpenedFile

\* Only the length and the fields of an opened file matter to what follows.
LEMMA TrackedFields ==
  ASSUME NEW path, NEW seen, NEW claimable
  PROVE  LET f == Tracked(path, seen, claimable) IN
         /\ f.seen = seen /\ f.pend = 0 /\ f.acc = {} /\ f.state = "active"
         /\ f.claimable = claimable
BY DEF Tracked

-----------------------------------------------------------------------------
(* The fields each pass of a scan leaves.                                  *)

\* A file that was truncated is read again from its start.
Rewind(f) == [f EXCEPT !.seen = <<>>, !.pend = 0]

\* The fields of a tailer whose shrunk files were rewound.
LEMMA RewoundFields ==
  ASSUME NEW t, NEW S, Record(t)
  PROVE  LET r == Rewound(t, S)
             lost == {Truncation(i, t.files[i]) : i \in Shrunk(t, S)}
         IN /\ Record(r) /\ r.resume = t.resume /\ DOMAIN r.files = DOMAIN t.files
            /\ \A i \in DOMAIN t.files :
                 r.files[i] = IF i \in Shrunk(t, S) THEN Rewind(t.files[i]) ELSE t.files[i]
            /\ r.truncations = {x \in t.truncations : x.id \notin Shrunk(t, S)}
                                 \cup {x \in lost : Len(x.head) >= ClaimMinHead}
<1> DEFINE cut == Shrunk(t, S)
           lost == {Truncation(i, t.files[i]) : i \in Shrunk(t, S)}
           X == [i \in DOMAIN t.files |->
                   IF i \in cut THEN [t.files[i] EXCEPT !.seen = <<>>, !.pend = 0] ELSE t.files[i]]
           Y == {x \in t.truncations : x.id \notin cut} \cup {x \in lost : Len(x.head) >= ClaimMinHead}
           Z == t.dirty \/ cut # {}
           r == Rewound(t, S)
<1>1. r = [t EXCEPT !.files = X, !.truncations = Y, !.dirty = Z]
  BY DEF Rewound
<1>2. /\ DOMAIN X = DOMAIN t.files
      /\ \A i \in DOMAIN t.files : X[i] = IF i \in cut THEN Rewind(t.files[i]) ELSE t.files[i]
  BY DEF Rewind
<1>3. Record(r) /\ r.resume = t.resume /\ r.files = X /\ r.truncations = Y
  <2> HIDE DEF X, Y, Z, r
  <2> QED
    BY <1>1 DEF Record
<1> HIDE DEF X
<1> QED
  BY <1>2, <1>3, Zenon

\* The record FirstPass looks for truncations in.
Opened(t, found, listed) ==
  LET resumed == Resumed(t, found)
      gone == Untracked(t, found)
  IN [t EXCEPT
       !.files = [i \in (DOMAIN @ \ gone) \cup resumed |->
                    CASE i \in resumed -> OpenedAt(t, i, PathOf(found, i))
                      [] i \in Found(found) \ resumed -> Rebound(@[i], PathOf(found, i))
                      [] Retires(i, found, listed) -> Retired(@[i])
                      [] OTHER -> @[i]],
       !.resume = Restrict(@, DOMAIN @ \ resumed),
       !.dirty = @ \/ resumed \cup gone # {}]

\* The first half of a scan opens, rebinds and retires, and then looks for shrunk files.
LEMMA FirstPassIsOpened ==
  ASSUME NEW t, NEW found, NEW listed
  PROVE  FirstPass(t, found, listed)
           = Rewound(Opened(t, found, listed), DOMAIN t.files \cup Resumed(t, found))
BY DEF FirstPass, Opened

\* The fields of a tailer after the opens by number, the rebinds and the retirements.
LEMMA OpenedFields ==
  ASSUME NEW t, NEW found, NEW listed, Record(t), listed \/ Found(found) = {}
  PROVE  LET o == Opened(t, found, listed)
             resumed == Resumed(t, found)
         IN /\ Record(o) /\ o.truncations = t.truncations
            /\ DOMAIN o.files = (DOMAIN t.files \ Untracked(t, found)) \cup resumed
            /\ DOMAIN o.resume = DOMAIN t.resume \ resumed
            /\ \A i \in DOMAIN o.resume : o.resume[i] = t.resume[i]
            /\ \A i \in DOMAIN o.files :
                 /\ i \in resumed => o.files[i] = OpenedAt(t, i, PathOf(found, i))
                 /\ i \notin resumed /\ i \in Found(found) =>
                      o.files[i] = Rebound(t.files[i], PathOf(found, i))
                 /\ i \notin resumed /\ i \notin Found(found) =>
                      o.files[i] = IF Retires(i, found, listed) THEN Retired(t.files[i])
                                                                ELSE t.files[i]
<1> DEFINE resumed == Resumed(t, found)
           gone == Untracked(t, found)
           new(i) == CASE i \in resumed -> OpenedAt(t, i, PathOf(found, i))
                       [] i \in Found(found) \ resumed -> Rebound(t.files[i], PathOf(found, i))
                       [] Retires(i, found, listed) -> Retired(t.files[i])
                       [] OTHER -> t.files[i]
           dom == (DOMAIN t.files \ gone) \cup resumed
           o == Opened(t, found, listed)
           X == [i \in dom |-> new(i)]
           Y == [i \in DOMAIN t.resume \ resumed |-> t.resume[i]]
           Z == t.dirty \/ resumed \cup gone # {}
<1>0. o = [t EXCEPT !.files = X, !.resume = Y, !.dirty = Z]
  BY DEF Opened, Restrict
<1>1. Record(o) /\ o.truncations = t.truncations /\ o.files = X /\ o.resume = Y
  <2> HIDE DEF X, Y, Z, o
  <2> QED
    BY <1>0 DEF Record
<1>2. resumed \subseteq Found(found)
  BY DEF Resumed
<1>3. ASSUME NEW i
      PROVE  /\ i \in resumed => new(i) = OpenedAt(t, i, PathOf(found, i))
             /\ i \notin resumed /\ i \in Found(found) =>
                  new(i) = Rebound(t.files[i], PathOf(found, i))
             /\ i \notin resumed /\ i \notin Found(found) =>
                  new(i) = IF Retires(i, found, listed) THEN Retired(t.files[i])
                                                        ELSE t.files[i]
  <2>0. i \in Found(found) => ~Retires(i, found, listed)
    BY DEF Retires
  <2> HIDE DEF resumed
  <2>1. CASE i \in resumed
    BY <1>2, <2>0, <2>1
  <2>2. CASE i \notin resumed /\ i \in Found(found)
    BY <2>0, <2>2
  <2>3. CASE i \notin resumed /\ i \notin Found(found)
    BY <2>3
  <2> QED
    BY <2>1, <2>2, <2>3
<1> QED
  BY <1>1, <1>3, Zenon

\* What claim_unmatched and the opens after it leave: an inode is opened at a candidate's
\* position its content matches, or at its start.
Claimed(s, t, cands, new, found) ==
  /\ Record(s)
  /\ DOMAIN s.files \subseteq DOMAIN t.files \cup new
  /\ DOMAIN t.files \subseteq DOMAIN s.files
  /\ \A i \in DOMAIN s.files \ new : s.files[i] = t.files[i]
  /\ \A i \in DOMAIN s.files \cap new :
       \/ s.files[i] = Tracked(PathOf(found, i), <<>>, data[i] = <<>>)
       \/ \E c \in Matches(i, cands) :
            s.files[i] = Tracked(PathOf(found, i), Upto(data[i], Len(c.before)), FALSE)
  /\ DOMAIN s.resume \subseteq DOMAIN t.resume
  /\ \A i \in DOMAIN s.resume : s.resume[i] = t.resume[i]
  /\ (\A i \in new : Matches(i, cands) = {}) => DOMAIN s.resume = DOMAIN t.resume
  /\ \A x \in s.truncations : \E y \in t.truncations, p \in BOOLEAN :
       x = [y EXCEPT !.offers = y.offers + 1, !.pinned = p]

\* The fields of a tailer after the claims and the opens that follow them.
LEMMA SecondFields ==
  ASSUME NEW t, NEW cands, NEW new, NEW found, NEW first, Record(t)
  PROVE  Claimed(SecondPass(t, cands, new, found, first), t, cands, new, found)
<1> DEFINE deferred == {i \in new : Defers(t, i, cands, new, first)}
           claimants == {i \in new \ deferred : Sole(i, cands, new)}
           claim(i) == CHOOSE c \in Matches(i, cands) : TRUE
           taken(from) == {claim(i).id : i \in {j \in claimants : claim(j).from = from}}
           open(i) == IF i \in claimants
                      THEN Tracked(PathOf(found, i), Upto(data[i], Len(claim(i).before)), FALSE)
                      ELSE Tracked(PathOf(found, i), <<>>, data[i] = <<>>)
           pins(x) == \E i \in deferred :
                        Verdict(data[i], Candidate("truncated", x.id, x, x.read)) # "no"
           dom == DOMAIN t.files \cup (new \ deferred)
           F == [i \in dom |-> IF i \in new THEN open(i) ELSE t.files[i]]
           orphans == taken("orphan")
           kept == {y \in t.truncations : y.id \notin taken("truncated")}
           R == [i \in DOMAIN t.resume \ orphans |-> t.resume[i]]
           T == {[x EXCEPT !.offers = x.offers + 1, !.pinned = pins(x)] : x \in kept}
           W == [i \in deferred |-> Waited(t, i) + 1]
           Z == t.dirty \/ new # deferred
           s == SecondPass(t, cands, new, found, first)
<1>1. s = [t EXCEPT !.files = F, !.resume = R, !.truncations = T, !.deferred = W, !.dirty = Z]
  BY DEF SecondPass, Restrict
<1>2. Record(s) /\ s.files = F /\ s.resume = R /\ s.truncations = T
  <2> HIDE DEF F, R, T, W, Z, s
  <2> QED
    BY <1>1 DEF Record
<1>3. ASSUME NEW i \in claimants
      PROVE  claim(i) \in Matches(i, cands)
  <2>1. Cardinality(Matches(i, cands)) = 1
    BY DEF Sole
  <2>2. Matches(i, cands) # {}
    BY <2>1, FS_EmptySet
  <2> QED
    BY <2>2
<1>4. ASSUME \A i \in new : Matches(i, cands) = {}
      PROVE  orphans = {}
  BY <1>3, <1>4, Zenon
<1>5. /\ DOMAIN F = dom
      /\ \A i \in dom \ new : F[i] = t.files[i]
      /\ \A i \in dom \cap new : F[i] = open(i)
  <2> HIDE DEF open, dom
  <2> QED
    OBVIOUS
<1>6. ASSUME NEW i \in dom \cap new
      PROVE  \/ F[i] = Tracked(PathOf(found, i), <<>>, data[i] = <<>>)
             \/ \E c \in Matches(i, cands) :
                  F[i] = Tracked(PathOf(found, i), Upto(data[i], Len(c.before)), FALSE)
  <2>1. CASE i \in claimants
    <3> HIDE DEF claimants, claim, F, dom
    <3> QED
      BY <1>3, <1>5, <2>1
  <2>2. CASE i \notin claimants
    <3> HIDE DEF claimants, claim, F, dom
    <3> QED
      BY <1>5, <2>2
  <2> QED
    BY <2>1, <2>2
<1>7. ASSUME NEW x \in T
      PROVE  \E y \in t.truncations, p \in BOOLEAN :
               x = [y EXCEPT !.offers = y.offers + 1, !.pinned = p]
  <2>1. \A y : pins(y) \in BOOLEAN
    OBVIOUS
  <2> HIDE DEF pins
  <2> QED
    BY <2>1
<1>8. /\ DOMAIN R = DOMAIN t.resume \ orphans /\ \A i \in DOMAIN R : R[i] = t.resume[i]
  <2> HIDE DEF orphans
  <2> QED
    OBVIOUS
<1>9. dom \subseteq DOMAIN t.files \cup new /\ DOMAIN t.files \subseteq dom
  OBVIOUS
<1> HIDE DEF s, F, R, T, dom, orphans
<1>10. /\ DOMAIN s.files \subseteq DOMAIN t.files \cup new
       /\ DOMAIN t.files \subseteq DOMAIN s.files
       /\ \A i \in DOMAIN s.files \ new : s.files[i] = t.files[i]
       /\ \A i \in DOMAIN s.files \cap new :
            \/ s.files[i] = Tracked(PathOf(found, i), <<>>, data[i] = <<>>)
            \/ \E c \in Matches(i, cands) :
                 s.files[i] = Tracked(PathOf(found, i), Upto(data[i], Len(c.before)), FALSE)
  BY <1>2, <1>5, <1>6, <1>9
<1>11. /\ DOMAIN s.resume \subseteq DOMAIN t.resume
       /\ \A i \in DOMAIN s.resume : s.resume[i] = t.resume[i]
       /\ (\A i \in new : Matches(i, cands) = {}) => DOMAIN s.resume = DOMAIN t.resume
  BY <1>2, <1>4, <1>8
<1>12. \A x \in s.truncations : \E y \in t.truncations, p \in BOOLEAN :
                 x = [y EXCEPT !.offers = y.offers + 1, !.pinned = p]
  BY <1>2, <1>7
<1> QED
  BY <1>2, <1>10, <1>11, <1>12 DEF s, Claimed

\* The fields of a tailer after the pruning: only entries and held truncations leave.
LEMMA PrunedFields ==
  ASSUME NEW t, NEW found, NEW listed, Record(t)
  PROVE  LET p == Pruned(t, found, listed)
         IN /\ Record(p) /\ p.files = t.files /\ p.truncations \subseteq t.truncations
            /\ DOMAIN p.resume = DOMAIN t.resume \cap (IF listed THEN Found(found) ELSE DOMAIN t.resume)
            /\ \A i \in DOMAIN p.resume : p.resume[i] = t.resume[i]
<1> DEFINE kept == IF listed THEN Found(found) ELSE DOMAIN t.resume
           R == [i \in DOMAIN t.resume \cap kept |-> t.resume[i]]
           T == {x \in t.truncations : ~Due(x)}
           Z == t.dirty \/ ~(DOMAIN t.resume \subseteq kept)
           p == Pruned(t, found, listed)
<1>1. p = [t EXCEPT !.resume = R, !.truncations = T, !.dirty = Z]
  BY DEF Pruned, Restrict
<1>2. Record(p) /\ p.files = t.files /\ p.resume = R /\ p.truncations = T
  <2> HIDE DEF R, T, Z, p
  <2> QED
    BY <1>1 DEF Record
<1> HIDE DEF kept, p
<1>3. DOMAIN R = DOMAIN t.resume \cap kept /\ \A i \in DOMAIN R : R[i] = t.resume[i]
  OBVIOUS
<1> HIDE DEF R
<1> QED
  BY <1>2, <1>3 DEF kept, p

\* The fields of a tailer after the drained files were marked.
LEMMA RescannedFields ==
  ASSUME NEW t, NEW old, NEW listed, Record(t)
  PROVE  LET r == Rescanned(t, old, listed)
         IN /\ Record(r) /\ r.resume = t.resume /\ r.truncations = t.truncations
            /\ DOMAIN r.files = DOMAIN t.files
            /\ \A i \in DOMAIN t.files :
                 \/ r.files[i] = t.files[i]
                 \/ /\ r.files[i] = [t.files[i] EXCEPT !.state = "rescanned"]
                    /\ listed /\ t.files[i].state = "draining"
                    /\ i \in DOMAIN old.files /\ old.files[i].state = "draining"
<1> DEFINE on(i) == /\ listed /\ t.files[i].state = "draining"
                    /\ i \in DOMAIN old.files /\ old.files[i].state = "draining"
           X == [i \in DOMAIN t.files |->
                   IF on(i) THEN [t.files[i] EXCEPT !.state = "rescanned"] ELSE t.files[i]]
           r == Rescanned(t, old, listed)
<1>1. r = [t EXCEPT !.files = X]
  BY DEF Rescanned
<1>2. Record(r) /\ r.resume = t.resume /\ r.truncations = t.truncations /\ r.files = X
  <2> HIDE DEF X, r
  <2> QED
    BY <1>1 DEF Record
<1> HIDE DEF r
<1>3. /\ DOMAIN X = DOMAIN t.files
      /\ \A i \in DOMAIN t.files :
           X[i] = t.files[i] \/ (on(i) /\ X[i] = [t.files[i] EXCEPT !.state = "rescanned"])
  <2> HIDE DEF on
  <2> QED
    OBVIOUS
<1> HIDE DEF X
<1> QED
  BY <1>2, <1>3 DEF r

-----------------------------------------------------------------------------
(* A scan keeps every position sound.                                      *)

\* The names looked up are the directory's, and what they name are inodes.
FoundOK(found) == DOMAIN found \subseteq Paths /\ \A p \in DOMAIN found : found[p] \in Inodes

\* A pass leaves a reader where it was or within its file, and its lines where they were.
Kept(files, old) ==
  /\ \A i \in DOMAIN files : \/ i \in DOMAIN old /\ files[i].seen = old[i].seen
                             \/ Len(files[i].seen) <= Len(data[i])
  /\ \A i \in DOMAIN files : files[i].acc = IF i \in DOMAIN old THEN old[i].acc ELSE {}
  /\ \A i \in DOMAIN old \ DOMAIN files : old[i].acc = {}

\* What a listing found is a file, under one of the names.
LEMMA FoundFacts ==
  ASSUME NEW found, FoundOK(found), NEW i \in Found(found)
  PROVE  i \in Inodes /\ PathOf(found, i) \in Paths
<1>1. PICK p \in DOMAIN found : found[p] = i
  BY DEF Found
<1>2. PathOf(found, i) \in DOMAIN found
  BY <1>1 DEF PathOf
<1> QED
  BY <1>1, <1>2 DEF FoundOK

\* Two passes that keep the readers keep them.
LEMMA KeptTransitive ==
  ASSUME NEW a, NEW b, NEW c, Kept(b, a), Kept(c, b)
  PROVE  Kept(c, a)
<1>1. ASSUME NEW i \in DOMAIN c
      PROVE  \/ i \in DOMAIN a /\ c[i].seen = a[i].seen
             \/ Len(c[i].seen) <= Len(data[i])
  BY DEF Kept
<1>2. ASSUME NEW i \in DOMAIN c
      PROVE  c[i].acc = IF i \in DOMAIN a THEN a[i].acc ELSE {}
  BY DEF Kept
<1>3. ASSUME NEW i \in DOMAIN a \ DOMAIN c
      PROVE  a[i].acc = {}
  BY DEF Kept
<1> QED
  BY <1>1, <1>2, <1>3 DEF Kept

\* A pass that keeps the readers keeps what they have accumulated.
LEMMA KeptAcc ==
  ASSUME NEW a, NEW b, Kept(b, a)
  PROVE  AccOf(b) = AccOf(a)
<1>1. ASSUME NEW x \in AccOf(b) PROVE x \in AccOf(a)
  <2>1. PICK i \in DOMAIN b : x \in b[i].acc
    BY DEF AccOf
  <2>2. i \in DOMAIN a /\ x \in a[i].acc
    BY <2>1 DEF Kept
  <2> QED
    BY <2>2 DEF AccOf
<1>2. ASSUME NEW x \in AccOf(a) PROVE x \in AccOf(b)
  <2>1. PICK i \in DOMAIN a : x \in a[i].acc
    BY DEF AccOf
  <2>2. i \in DOMAIN b
    BY <2>1 DEF Kept
  <2>3. x \in b[i].acc
    BY <2>1, <2>2 DEF Kept
  <2> QED
    BY <2>2, <2>3 DEF AccOf
<1> QED
  BY <1>1, <1>2

\* A file's path, state and wait say nothing about its content.
LEMMA FileFields ==
  ASSUME NEW f, NEW g \in File, NEW i, NEW d, NEW G, NEW ov, NEW N, FileInv(f, i, d, G, ov, N),
         g.seen = f.seen, g.pend = f.pend, g.acc = f.acc, g.claimable = f.claimable
  PROVE  FileInv(g, i, d, G, ov, N)
BY DEF FileInv

\* A file read again from its start has skipped nothing.
LEMMA RewindKeeps ==
  ASSUME NEW f, NEW i \in Inodes, NEW d \in [Inodes -> Seq(Nat)], NEW G, NEW ov, NEW N,
         FileInv(f, i, d, G, ov, N)
  PROVE  FileInv(Rewind(f), i, d, G, ov, N) /\ Rewind(f).acc = f.acc /\ Rewind(f).seen = <<>>
         /\ Rewind(f).state = f.state
<1>1. f \in File
  BY DEF FileInv
<1>2. /\ Rewind(f) \in File /\ Rewind(f).seen = <<>> /\ Rewind(f).pend = 0
      /\ Rewind(f).acc = f.acc /\ Rewind(f).claimable = f.claimable /\ Rewind(f).state = f.state
  <2>1. ASSUME NEW e \in Seq(Nat), NEW z \in Nat
        PROVE  LET r == [f EXCEPT !.seen = e, !.pend = z]
               IN /\ r \in File /\ r.seen = e /\ r.pend = z
                  /\ r.acc = f.acc /\ r.claimable = f.claimable /\ r.state = f.state
    BY <1>1 DEF File
  <2>2. <<>> \in Seq(Nat) /\ 0 \in Nat
    OBVIOUS
  <2> QED
    BY <2>1, <2>2 DEF Rewind
<1>3. Stamped(<<>>, N) /\ Sound(<<>>, d)
  BY NoPosition
<1>4. Len(<<>>) = 0 /\ d[i] \in Seq(Nat) /\ (f.claimable => f.acc = {})
  BY DEF FileInv
<1>5. \A m \in 1..Len(d[i]) : ~(m <= 0)
  BY <1>4
<1>6. FileInv(Rewind(f), i, d, G, ov, N)
  BY <1>2, <1>3, <1>4, <1>5 DEF FileInv
<1> QED
  BY <1>2, <1>6

\* The position a rewound file had is still one that may be claimed.
LEMMA TruncationKeeps ==
  ASSUME NEW f, NEW i \in Inodes, NEW d, NEW G, NEW ov, NEW N, FileInv(f, i, d, G, ov, N)
  PROVE  LET x == Truncation(i, f)
         IN x \in Held /\ Len(x.before) <= x.read /\ PositionInv(x.before, x.head, d, G, N)
<1> DEFINE x == Truncation(i, f)
<1>1. /\ PositionInv(Boundary(f), HeadOf(f.seen), d, G, N)
      /\ Boundary(f) \in Seq(Nat) /\ Len(Boundary(f)) \in 0..Len(f.seen)
  BY EntryPosition
<1>2. HeadOf(f.seen) \in Seq(Nat) /\ Len(f.seen) \in Nat
  BY <1>1 DEF PositionInv, Stamped, FileInv
<1>3. /\ x \in Held /\ x.before = Boundary(f) /\ x.head = HeadOf(f.seen) /\ x.read = Len(f.seen)
  BY <1>1, <1>2 DEF Truncation, Held
<1> QED
  BY <1>1, <1>3

\* reconcile_truncation
LEMMA RewoundKeeps ==
  ASSUME data \in [Inodes -> Seq(Nat)],
         NEW t, NEW S, NEW D, NEW G, NEW ov, NEW N, TailInv(t, data, D, G, ov, N)
  PROVE  TailInv(Rewound(t, S), data, D, G, ov, N) /\ Kept(Rewound(t, S).files, t.files)
<1> DEFINE r == Rewound(t, S)
           lost == {Truncation(i, t.files[i]) : i \in Shrunk(t, S)}
<1>1. /\ Record(r) /\ r.resume = t.resume /\ DOMAIN r.files = DOMAIN t.files
      /\ \A i \in DOMAIN t.files :
           r.files[i] = IF i \in Shrunk(t, S) THEN Rewind(t.files[i]) ELSE t.files[i]
      /\ r.truncations = {x \in t.truncations : x.id \notin Shrunk(t, S)}
                           \cup {x \in lost : Len(x.head) >= ClaimMinHead}
  BY RewoundFields DEF TailInv
<1> HIDE DEF r
<1>2. \A i \in DOMAIN t.files : i \in Inodes /\ FileInv(t.files[i], i, data, G, ov, N)
  BY DEF TailInv, FilesInv
<1>3. ASSUME NEW i \in DOMAIN t.files
      PROVE  /\ FileInv(r.files[i], i, data, G, ov, N) /\ r.files[i].acc = t.files[i].acc
             /\ r.files[i].seen = t.files[i].seen \/ Len(r.files[i].seen) <= Len(data[i])
  <2>1. CASE i \in Shrunk(t, S)
    <3>1. /\ FileInv(r.files[i], i, data, G, ov, N) /\ r.files[i].acc = t.files[i].acc
          /\ r.files[i].seen = <<>>
      BY <1>1, <1>2, <2>1, RewindKeeps
    <3>2. Len(<<>>) <= Len(data[i])
      BY <1>2
    <3> QED
      BY <3>1, <3>2
  <2>2. CASE i \notin Shrunk(t, S)
    BY <1>1, <1>2, <2>2
  <2> QED
    BY <2>1, <2>2
<1>4. FilesInv(r.files, data, G, ov, N) /\ Kept(r.files, t.files)
  BY <1>1, <1>2, <1>3 DEF FilesInv, Kept
<1>5. HeldInv(r.truncations, data, G, N)
  <2>1. ASSUME NEW x \in lost
        PROVE  x \in Held /\ Len(x.before) <= x.read /\ PositionInv(x.before, x.head, data, G, N)
    <3>1. PICK i \in Shrunk(t, S) : x = Truncation(i, t.files[i])
      OBVIOUS
    <3>2. i \in DOMAIN t.files
      BY DEF Shrunk
    <3> QED
      BY <1>2, <3>1, <3>2, TruncationKeeps
  <2>2. HeldInv(t.truncations, data, G, N)
    BY DEF TailInv
  <2> HIDE DEF lost
  <2> QED
    BY <1>1, <2>1, <2>2 DEF HeldInv
<1>6. ResumeInv(r.resume, data, D, N)
  BY <1>1 DEF TailInv
<1> QED
  BY <1>1, <1>4, <1>5, <1>6 DEF TailInv, r

\* A position that covers less than it might is as good.
LEMMA PositionMore ==
  ASSUME NEW before, NEW head, NEW d, NEW D, NEW G, NEW N, PositionInv(before, head, d, D, N),
         D \subseteq G
  PROVE  PositionInv(before, head, d, G, N)
BY DEF PositionInv

\* open_tracked at an entry.
LEMMA OpenedAtKeeps ==
  ASSUME data \in [Inodes -> Seq(Nat)],
         NEW t, NEW D, NEW G, NEW ov, NEW N, ResumeInv(t.resume, data, D, N), D \subseteq G,
         NEW i \in DOMAIN t.resume, NEW path \in Paths
  PROVE  LET f == OpenedAt(t, i, path)
         IN /\ FileInv(f, i, data, G, ov, N) /\ Len(f.seen) <= Len(data[i]) /\ f.acc = {}
            /\ Begins(f.seen, data[i])
            /\ f.state = "active" /\ f.pend = 0
            /\ f.seen = IF Accepts(data[i], t.resume[i]) THEN t.resume[i].before ELSE <<>>
<1> DEFINE e == t.resume[i]  f == OpenedAt(t, i, path)
<1>0. f = Tracked(path, IF Accepts(data[i], e) THEN Upto(data[i], Len(e.before)) ELSE <<>>, FALSE)
  BY DEF OpenedAt
<1>1. i \in Inodes /\ PositionInv(e.before, e.head, data, D, N)
  BY DEF ResumeInv
<1> HIDE DEF e, f
<1>2. PositionInv(e.before, e.head, data, G, N)
  BY <1>1, PositionMore
<1>3. CASE Accepts(data[i], e)
  <2>1. Upto(data[i], Len(e.before)) = e.before /\ Begins(e.before, data[i])
    BY <1>1, <1>3, SamePosition DEF Accepts
  <2>2. f = Tracked(path, e.before, FALSE)
    BY <1>0, <1>3, <2>1
  <2>3. FileInv(Tracked(path, e.before, FALSE), i, data, G, ov, N)
    BY <1>1, <1>2, <2>1, OpenedFile
  <2>4. Len(e.before) <= Len(data[i])
    BY <2>1 DEF Begins
  <2> QED
    <3>1. f.seen = e.before /\ f.pend = 0 /\ f.acc = {} /\ f.state = "active"
      BY <2>2 DEF Tracked
    <3> QED
      BY <1>3, <2>1, <2>2, <2>3, <2>4, <3>1 DEF e, f
<1>4. CASE ~Accepts(data[i], e)
  <2>1. f = Tracked(path, <<>>, FALSE)
    BY <1>0, <1>4
  <2>2. FileInv(Tracked(path, <<>>, FALSE), i, data, G, ov, N)
    BY <1>1, OpenedEmpty
  <2>3. Len(<<>>) <= Len(data[i]) /\ Begins(<<>>, data[i])
    BY <1>1 DEF Begins
  <2> QED
    <3>1. f.seen = <<>> /\ f.pend = 0 /\ f.acc = {} /\ f.state = "active"
      BY <2>1 DEF Tracked
    <3> QED
      BY <1>4, <2>1, <2>2, <2>3, <3>1 DEF e, f
<1> QED
  BY <1>3, <1>4

\* Opens by number, rebinds and retirements leave every position sound.
LEMMA OpenedKeeps ==
  ASSUME data \in [Inodes -> Seq(Nat)],
         NEW t, NEW found, NEW listed, NEW D, NEW G, NEW ov, NEW N, TailInv(t, data, D, G, ov, N),
         D \subseteq G, FoundOK(found), listed \/ Found(found) = {}
  PROVE  LET o == Opened(t, found, listed)
         IN TailInv(o, data, D, G, ov, N) /\ Kept(o.files, t.files)
<1> DEFINE o == Opened(t, found, listed)
           resumed == Resumed(t, found)
<1>1. /\ Record(o) /\ o.truncations = t.truncations
      /\ DOMAIN o.files = (DOMAIN t.files \ Untracked(t, found)) \cup resumed
      /\ DOMAIN o.resume = DOMAIN t.resume \ resumed
      /\ \A i \in DOMAIN o.resume : o.resume[i] = t.resume[i]
      /\ \A i \in DOMAIN o.files :
           /\ i \in resumed => o.files[i] = OpenedAt(t, i, PathOf(found, i))
           /\ i \notin resumed /\ i \in Found(found) =>
                o.files[i] = Rebound(t.files[i], PathOf(found, i))
           /\ i \notin resumed /\ i \notin Found(found) =>
                o.files[i] = IF Retires(i, found, listed) THEN Retired(t.files[i])
                                                          ELSE t.files[i]
  BY OpenedFields DEF TailInv
<1>2. resumed \subseteq Found(found) /\ resumed \subseteq DOMAIN t.resume
      /\ resumed \cap DOMAIN t.files = {}
  BY DEF Resumed
<1> HIDE DEF o, resumed
<1>3. \A i \in DOMAIN t.files : i \in Inodes /\ FileInv(t.files[i], i, data, G, ov, N)
  BY DEF TailInv, FilesInv
<1>4. ASSUME NEW i \in resumed
      PROVE  /\ i \in Inodes /\ FileInv(o.files[i], i, data, G, ov, N)
             /\ Len(o.files[i].seen) <= Len(data[i]) /\ o.files[i].acc = {}
  <2>1. i \in Inodes /\ PathOf(found, i) \in Paths
    BY <1>2, FoundFacts
  <2>2. o.files[i] = OpenedAt(t, i, PathOf(found, i))
    BY <1>1
  <2>3. ResumeInv(t.resume, data, D, N)
    BY DEF TailInv
  <2> DEFINE f == OpenedAt(t, i, PathOf(found, i))
  <2>4. FileInv(f, i, data, G, ov, N) /\ Len(f.seen) <= Len(data[i]) /\ f.acc = {}
    BY <1>2, <2>1, <2>3, OpenedAtKeeps
  <2> HIDE DEF f
  <2> QED
    BY <2>1, <2>2, <2>4 DEF f
<1>5. ASSUME NEW i \in DOMAIN o.files \ resumed
      PROVE  /\ i \in DOMAIN t.files /\ FileInv(o.files[i], i, data, G, ov, N)
             /\ o.files[i].seen = t.files[i].seen /\ o.files[i].acc = t.files[i].acc
  <2> DEFINE f == t.files[i]  g == o.files[i]
  <2>1. i \in DOMAIN t.files /\ FileInv(f, i, data, G, ov, N) /\ f \in File
    BY <1>1, <1>3 DEF FileInv
  <2>2. CASE i \in Found(found)
    <3>1. PathOf(found, i) \in Paths /\ g = Rebound(f, PathOf(found, i))
      BY <1>1, <2>2, FoundFacts
    <3> HIDE DEF f, g
    <3>2. /\ g \in File /\ g.seen = f.seen /\ g.pend = f.pend /\ g.acc = f.acc
          /\ g.claimable = f.claimable
      BY <2>1, <3>1 DEF Rebound, File, States
    <3> QED
      BY <2>1, <3>2, FileFields DEF f, g
  <2>3. CASE i \notin Found(found)
    <3>1. g \in {f, [f EXCEPT !.state = "draining"]}
      BY <1>1, <2>3 DEF Retired
    <3> HIDE DEF f, g
    <3>2. /\ g \in File /\ g.seen = f.seen /\ g.pend = f.pend /\ g.acc = f.acc
          /\ g.claimable = f.claimable
      BY <2>1, <3>1 DEF File, States
    <3> QED
      BY <2>1, <3>2, FileFields DEF f, g
  <2> QED
    BY <2>2, <2>3
<1>6. FilesInv(o.files, data, G, ov, N)
  BY <1>3, <1>4, <1>5 DEF FilesInv
<1>7. ASSUME NEW i \in DOMAIN t.files \ DOMAIN o.files PROVE t.files[i].acc = {}
  <2>1. i \in Untracked(t, found)
    BY <1>1
  <2> QED
    BY <1>3, <2>1 DEF Untracked, FileInv
<1>8. Kept(o.files, t.files)
  <2>1. ASSUME NEW i \in DOMAIN o.files
        PROVE  /\ (i \in DOMAIN t.files /\ o.files[i].seen = t.files[i].seen)
                    \/ Len(o.files[i].seen) <= Len(data[i])
               /\ o.files[i].acc = IF i \in DOMAIN t.files THEN t.files[i].acc ELSE {}
    <3>1. CASE i \in resumed
      BY <1>2, <1>4, <3>1
    <3>2. CASE i \notin resumed
      BY <1>5, <3>2
    <3> QED
      BY <3>1, <3>2
  <2> QED
    BY <1>7, <2>1 DEF Kept
<1>9. ResumeInv(o.resume, data, D, N) /\ HeldInv(o.truncations, data, G, N)
  BY <1>1 DEF TailInv, ResumeInv
<1> QED
  BY <1>1, <1>6, <1>8, <1>9 DEF TailInv, o

\* What a position must say to be a candidate.
CandidateInv(c, d, G, N) ==
  Len(c.before) <= c.min /\ c.min \in Nat /\ PositionInv(c.before, c.head, d, G, N)

\* Every candidate for a claim is a sound position.
LEMMA CandidatesKeep ==
  ASSUME data \in [Inodes -> Seq(Nat)],
         NEW t, NEW old, NEW found, NEW listed, NEW D, NEW G, NEW ov, NEW N,
         TailInv(t, data, D, G, ov, N), TailInv(old, data, D, G, ov, N), D \subseteq G
  PROVE  \A c \in Candidates(t, old, found, listed) : CandidateInv(c, data, G, N)
<1> SUFFICES ASSUME NEW c \in Candidates(t, old, found, listed)
             PROVE  CandidateInv(c, data, G, N)
  OBVIOUS
<1>0. ASSUME NEW from, NEW id, NEW e, NEW min
      PROVE  LET x == Candidate(from, id, e, min)
             IN x.before = e.before /\ x.head = e.head /\ x.min = min
  BY DEF Candidate
<1>a. ASSUME NEW r, ResumeInv(r, data, D, N), NEW i \in DOMAIN r, NEW from,
             c = Candidate(from, i, r[i], Len(r[i].before))
      PROVE  CandidateInv(c, data, G, N)
  <2>1. PositionInv(r[i].before, r[i].head, data, G, N)
    BY <1>a, PositionMore DEF ResumeInv
  <2>2. Len(r[i].before) \in Nat
    BY <2>1 DEF PositionInv, Stamped
  <2> QED
    BY <1>0, <1>a, <2>1, <2>2 DEF CandidateInv
<1>1. CASE \E x \in t.truncations : c = Candidate("truncated", x.id, x, x.read)
  <2>1. PICK x \in t.truncations : c = Candidate("truncated", x.id, x, x.read)
    BY <1>1
  <2>2. x.read \in Nat /\ Len(x.before) <= x.read /\ PositionInv(x.before, x.head, data, G, N)
    BY DEF TailInv, HeldInv, Held
  <2> QED
    BY <1>0, <2>1, <2>2 DEF CandidateInv
<1>2. CASE \E i \in DOMAIN t.files :
             c = Candidate("live", i, Entry(t.files[i]), Len(Boundary(t.files[i])))
  <2>1. PICK i \in DOMAIN t.files :
             c = Candidate("live", i, Entry(t.files[i]), Len(Boundary(t.files[i])))
    BY <1>2
  <2>2. FileInv(t.files[i], i, data, G, ov, N)
    BY DEF TailInv, FilesInv
  <2>3. /\ PositionInv(Boundary(t.files[i]), HeadOf(t.files[i].seen), data, G, N)
        /\ Boundary(t.files[i]) \in Seq(Nat)
        /\ Entry(t.files[i]).before = Boundary(t.files[i])
        /\ Entry(t.files[i]).head = HeadOf(t.files[i].seen)
    BY <2>2, EntryPosition
  <2>4. Len(Boundary(t.files[i])) \in Nat
    BY <2>3
  <2> QED
    BY <1>0, <2>1, <2>3, <2>4 DEF CandidateInv
<1>3. CASE \E i \in DOMAIN t.resume : c = Candidate("orphan", i, t.resume[i], Len(t.resume[i].before))
  BY <1>3, <1>a DEF TailInv
<1>4. CASE \E i \in DOMAIN old.resume :
             c = Candidate("rejected", i, old.resume[i], Len(old.resume[i].before))
  BY <1>4, <1>a DEF TailInv
<1>5. Rejected(old, found) \subseteq DOMAIN old.resume
  BY DEF Rejected, Resumed
<1>6. \/ \E x \in t.truncations : c = Candidate("truncated", x.id, x, x.read)
      \/ \E i \in DOMAIN t.files :
           c = Candidate("live", i, Entry(t.files[i]), Len(Boundary(t.files[i])))
      \/ \E i \in DOMAIN t.resume : c = Candidate("orphan", i, t.resume[i], Len(t.resume[i].before))
      \/ \E i \in Rejected(old, found) :
           c = Candidate("rejected", i, old.resume[i], Len(old.resume[i].before))
  BY Zenon DEF Candidates, ReadCandidates
<1> QED
  BY <1>1, <1>2, <1>3, <1>4, <1>5, <1>6

\* probe_file: a file that matches a candidate holds exactly the cells before its position.
LEMMA MatchFacts ==
  ASSUME data \in [Inodes -> Seq(Nat)],
         NEW c, NEW G, NEW N, CandidateInv(c, data, G, N), NEW i \in Inodes,
         Verdict(data[i], c) = "match"
  PROVE  /\ Upto(data[i], Len(c.before)) = c.before /\ Begins(c.before, data[i])
         /\ Begins(c.head, data[i])
<1> DEFINE d == data[i]
<1>1. d \in Seq(Nat) /\ c.before \in Seq(Nat) /\ c.head \in Seq(Nat) /\ c.min \in Nat
  BY DEF CandidateInv, PositionInv, Stamped
<1> HIDE DEF d
<1>2. /\ IsPrefix(c.head, d) /\ ~(Len(d) < c.min)
      /\ MarkerOf(Upto(d, Len(c.before))) = MarkerOf(c.before)
  BY DEF Verdict, d
<1>3. Len(c.before) <= Len(d)
  BY <1>1, <1>2 DEF CandidateInv
<1>4. Begins(c.head, d)
  BY <1>1, <1>2, PrefixFacts
<1> QED
  BY <1>2, <1>3, <1>4, SamePosition DEF CandidateInv, d

\* claim_unmatched and the opens
LEMMA SecondKeeps ==
  ASSUME data \in [Inodes -> Seq(Nat)],
         NEW t, NEW cands, NEW new, NEW found, NEW first, NEW D, NEW G, NEW ov, NEW N,
         TailInv(t, data, D, G, ov, N), FoundOK(found), new \subseteq Found(found),
         new \cap DOMAIN t.files = {}, \A c \in cands : CandidateInv(c, data, G, N)
  PROVE  LET s == SecondPass(t, cands, new, found, first)
         IN TailInv(s, data, D, G, ov, N) /\ Kept(s.files, t.files)
<1> DEFINE s == SecondPass(t, cands, new, found, first)
<1>0. Claimed(s, t, cands, new, found)
  BY SecondFields DEF TailInv
<1> HIDE DEF s
<1>1. /\ Record(s)
      /\ DOMAIN s.files \subseteq DOMAIN t.files \cup new
      /\ DOMAIN t.files \subseteq DOMAIN s.files
      /\ \A i \in DOMAIN s.files \ new : s.files[i] = t.files[i]
      /\ \A i \in DOMAIN s.files \cap new :
           \/ s.files[i] = Tracked(PathOf(found, i), <<>>, data[i] = <<>>)
           \/ \E c \in Matches(i, cands) :
                s.files[i] = Tracked(PathOf(found, i), Upto(data[i], Len(c.before)), FALSE)
      /\ DOMAIN s.resume \subseteq DOMAIN t.resume
      /\ \A i \in DOMAIN s.resume : s.resume[i] = t.resume[i]
  BY <1>0 DEF Claimed
<1>2. \A x \in s.truncations : \E y \in t.truncations, p \in BOOLEAN :
           x = [y EXCEPT !.offers = y.offers + 1, !.pinned = p]
  BY <1>0 DEF Claimed
<1>3. ASSUME NEW i \in DOMAIN s.files \cap new
      PROVE  /\ i \in Inodes /\ FileInv(s.files[i], i, data, G, ov, N)
             /\ Len(s.files[i].seen) <= Len(data[i]) /\ s.files[i].acc = {}
  <2>1. i \in Inodes /\ PathOf(found, i) \in Paths
    BY FoundFacts
  <2>2. CASE s.files[i] = Tracked(PathOf(found, i), <<>>, data[i] = <<>>)
    <3>0. \A b \in BOOLEAN : FileInv(Tracked(PathOf(found, i), <<>>, b), i, data, G, ov, N)
      BY <2>1, OpenedEmpty
    <3>1. FileInv(s.files[i], i, data, G, ov, N)
      BY <2>2, <3>0
    <3>2. s.files[i].seen = <<>> /\ s.files[i].acc = {}
      BY <2>2 DEF Tracked
    <3> QED
      BY <2>1, <3>1, <3>2
  <2>3. CASE \E c \in Matches(i, cands) :
               s.files[i] = Tracked(PathOf(found, i), Upto(data[i], Len(c.before)), FALSE)
    <3>1. PICK c \in Matches(i, cands) :
               s.files[i] = Tracked(PathOf(found, i), Upto(data[i], Len(c.before)), FALSE)
      BY <2>3
    <3>2. CandidateInv(c, data, G, N) /\ Verdict(data[i], c) = "match"
      BY DEF Matches
    <3>3. Upto(data[i], Len(c.before)) = c.before /\ Begins(c.before, data[i])
      BY <2>1, <3>2, MatchFacts
    <3>4. s.files[i] = Tracked(PathOf(found, i), c.before, FALSE)
      BY <3>1, <3>3
    <3>5. FileInv(s.files[i], i, data, G, ov, N)
      <4>1. PositionInv(c.before, c.head, data, G, N)
        BY <3>2 DEF CandidateInv
      <4>2. FileInv(Tracked(PathOf(found, i), c.before, FALSE), i, data, G, ov, N)
        BY <2>1, <3>3, <4>1, OpenedFile
      <4> QED
        BY <3>4, <4>2
    <3>6. s.files[i].seen = c.before /\ s.files[i].acc = {}
      BY <3>4 DEF Tracked
    <3> QED
      BY <2>1, <3>3, <3>5, <3>6 DEF Begins
  <2> QED
    BY <1>1, <2>2, <2>3
<1>4. FilesInv(s.files, data, G, ov, N)
  <2>1. ASSUME NEW i \in DOMAIN s.files
        PROVE  i \in Inodes /\ FileInv(s.files[i], i, data, G, ov, N)
    <3>1. CASE i \in new
      BY <1>3, <3>1
    <3>2. CASE i \notin new
      BY <1>1, <3>2 DEF TailInv, FilesInv
    <3> QED
      BY <3>1, <3>2
  <2> QED
    BY <2>1 DEF FilesInv
<1>5. Kept(s.files, t.files)
  <2>1. ASSUME NEW i \in DOMAIN s.files
        PROVE  /\ (i \in DOMAIN t.files /\ s.files[i].seen = t.files[i].seen)
                    \/ Len(s.files[i].seen) <= Len(data[i])
               /\ s.files[i].acc = IF i \in DOMAIN t.files THEN t.files[i].acc ELSE {}
    <3>1. CASE i \in new
      <4>1. i \notin DOMAIN t.files
        BY <3>1
      <4> QED
        BY <1>3, <3>1, <4>1
    <3>2. CASE i \notin new
      BY <1>1, <3>2
    <3> QED
      BY <3>1, <3>2
  <2> QED
    BY <1>1, <2>1 DEF Kept
<1>6. HeldInv(s.truncations, data, G, N)
  <2>1. ASSUME NEW x \in s.truncations
        PROVE  x \in Held /\ Len(x.before) <= x.read /\ PositionInv(x.before, x.head, data, G, N)
    <3>1. PICK y \in t.truncations, p \in BOOLEAN :
             x = [y EXCEPT !.offers = y.offers + 1, !.pinned = p]
      BY <1>2
    <3>2. y \in Held /\ Len(y.before) <= y.read /\ PositionInv(y.before, y.head, data, G, N)
      BY DEF TailInv, HeldInv
    <3>3. x \in Held /\ x.before = y.before /\ x.read = y.read /\ x.head = y.head
      <4>1. ASSUME NEW n \in Nat
            PROVE  LET z == [y EXCEPT !.offers = n, !.pinned = p]
                   IN z \in Held /\ z.before = y.before /\ z.read = y.read /\ z.head = y.head
        BY <3>2 DEF Held
      <4>2. y.offers + 1 \in Nat
        BY <3>2 DEF Held
      <4> QED
        BY <3>1, <4>1, <4>2
    <3> QED
      BY <3>2, <3>3
  <2> QED
    BY <2>1 DEF HeldInv
<1>7. ResumeInv(s.resume, data, D, N)
  BY <1>1 DEF TailInv, ResumeInv
<1> QED
  BY <1>1, <1>4, <1>5, <1>6, <1>7 DEF TailInv, s

\* prune_checkpoint_entries and count_truncations
LEMMA PrunedKeeps ==
  ASSUME NEW t, NEW found, NEW listed, NEW D, NEW G, NEW ov, NEW N, TailInv(t, data, D, G, ov, N)
  PROVE  LET p == Pruned(t, found, listed)
         IN TailInv(p, data, D, G, ov, N) /\ p.files = t.files
<1> DEFINE p == Pruned(t, found, listed)
<1>1. /\ Record(p) /\ p.files = t.files /\ p.truncations \subseteq t.truncations
      /\ DOMAIN p.resume \subseteq DOMAIN t.resume
      /\ \A i \in DOMAIN p.resume : p.resume[i] = t.resume[i]
  BY PrunedFields DEF TailInv
<1> HIDE DEF p
<1>2. ResumeInv(p.resume, data, D, N) /\ HeldInv(p.truncations, data, G, N)
  BY <1>1 DEF TailInv, ResumeInv, HeldInv
<1> QED
  BY <1>1, <1>2 DEF TailInv, p

\* Marking the drained files leaves every position sound.
LEMMA RescannedKeeps ==
  ASSUME NEW t, NEW old, NEW listed, NEW D, NEW G, NEW ov, NEW N, TailInv(t, data, D, G, ov, N)
  PROVE  LET r == Rescanned(t, old, listed)
         IN TailInv(r, data, D, G, ov, N) /\ Kept(r.files, t.files)
<1> DEFINE r == Rescanned(t, old, listed)
<1>1. /\ Record(r) /\ r.resume = t.resume /\ r.truncations = t.truncations
      /\ DOMAIN r.files = DOMAIN t.files
      /\ \A i \in DOMAIN t.files :
           r.files[i] = t.files[i] \/ r.files[i] = [t.files[i] EXCEPT !.state = "rescanned"]
  BY RescannedFields DEF TailInv
<1> HIDE DEF r
<1>2. ASSUME NEW i \in DOMAIN t.files
      PROVE  /\ i \in Inodes /\ FileInv(r.files[i], i, data, G, ov, N)
             /\ r.files[i].seen = t.files[i].seen /\ r.files[i].acc = t.files[i].acc
  <2> DEFINE f == t.files[i]  g == r.files[i]
  <2>1. i \in Inodes /\ FileInv(f, i, data, G, ov, N) /\ f \in File
    BY DEF TailInv, FilesInv, FileInv
  <2>2. g = f \/ g = [f EXCEPT !.state = "rescanned"]
    BY <1>1
  <2> HIDE DEF f, g
  <2>3. /\ g \in File /\ g.seen = f.seen /\ g.pend = f.pend /\ g.acc = f.acc
        /\ g.claimable = f.claimable
    BY <2>1, <2>2 DEF File, States
  <2> QED
    BY <2>1, <2>3, FileFields DEF f, g
<1>3. FilesInv(r.files, data, G, ov, N) /\ Kept(r.files, t.files)
  BY <1>1, <1>2 DEF FilesInv, Kept
<1> QED
  BY <1>1, <1>3 DEF TailInv, r

\* The first half of a scan leaves every position sound.
LEMMA FirstPassKeeps ==
  ASSUME data \in [Inodes -> Seq(Nat)],
         NEW t, NEW found, NEW listed, NEW D, NEW G, NEW ov, NEW N, TailInv(t, data, D, G, ov, N),
         D \subseteq G, FoundOK(found), listed \/ Found(found) = {}
  PROVE  LET r == FirstPass(t, found, listed)
         IN /\ TailInv(r, data, D, G, ov, N) /\ Kept(r.files, t.files)
            /\ DOMAIN r.files = (DOMAIN t.files \ Untracked(t, found)) \cup Resumed(t, found)
<1> DEFINE o == Opened(t, found, listed)
           S == DOMAIN t.files \cup Resumed(t, found)
           r == Rewound(o, S)
<1>1. TailInv(o, data, D, G, ov, N) /\ Kept(o.files, t.files)
  BY OpenedKeeps
<1>2. DOMAIN o.files = (DOMAIN t.files \ Untracked(t, found)) \cup Resumed(t, found)
  BY OpenedFields DEF TailInv
<1>3. FirstPass(t, found, listed) = r
  BY FirstPassIsOpened
<1> HIDE DEF o, S
<1>4. TailInv(r, data, D, G, ov, N) /\ Kept(r.files, o.files)
  BY <1>1, RewoundKeeps
<1>5. DOMAIN r.files = DOMAIN o.files
  BY <1>1, RewoundFields DEF TailInv
<1> HIDE DEF r
<1>6. Kept(r.files, t.files)
  BY <1>1, <1>4, KeptTransitive
<1> QED
  BY <1>2, <1>3, <1>4, <1>5, <1>6

\* A scan: every position it keeps, opens or claims is sound.
LEMMA ScannedKeeps ==
  ASSUME data \in [Inodes -> Seq(Nat)],
         NEW t, NEW found, NEW listed, NEW first, NEW D, NEW G, NEW ov, NEW N,
         TailInv(t, data, D, G, ov, N), D \subseteq G, FoundOK(found), listed \/ Found(found) = {}
  PROVE  LET r == Scanned(t, found, listed, first)
         IN TailInv(r, data, D, G, ov, N) /\ Kept(r.files, t.files)
<1> DEFINE one == FirstPass(t, found, listed)
           cands == Candidates(one, t, found, listed)
           new == Unmatched(t, found)
           two == SecondPass(one, cands, new, found, first)
           three == Pruned(two, found, listed)
           r == Rescanned(three, t, listed)
<1>1. /\ TailInv(one, data, D, G, ov, N) /\ Kept(one.files, t.files)
      /\ DOMAIN one.files = (DOMAIN t.files \ Untracked(t, found)) \cup Resumed(t, found)
  BY FirstPassKeeps
<1> HIDE DEF one
<1>2. \A c \in cands : CandidateInv(c, data, G, N)
  BY <1>1, CandidatesKeep
<1>3. new \subseteq Found(found) /\ new \cap DOMAIN one.files = {}
  BY <1>1 DEF Unmatched, Untracked, Resumed
<1> HIDE DEF cands, new
<1>4. TailInv(two, data, D, G, ov, N) /\ Kept(two.files, one.files)
  BY <1>1, <1>2, <1>3, SecondKeeps
<1> HIDE DEF two
<1>5. TailInv(three, data, D, G, ov, N) /\ three.files = two.files
  BY <1>4, PrunedKeeps
<1> HIDE DEF three
<1>6. TailInv(r, data, D, G, ov, N) /\ Kept(r.files, three.files)
  BY <1>5, RescannedKeeps
<1> HIDE DEF r
<1>7. Kept(r.files, t.files)
  <2>1. Kept(two.files, t.files)
    BY <1>1, <1>4, KeptTransitive
  <2> QED
    BY <2>1, <1>5, <1>6, KeptTransitive
<1>8. Scanned(t, found, listed, first) = r
  BY DEF Scanned, r, three, two, new, cands, one
<1> QED
  BY <1>6, <1>7, <1>8

-----------------------------------------------------------------------------
(* What the writer and the rotator do to the files keeps positions sound.  *)

\* The files after a step: how a file began before, and at the back of one, w, the next cell.
Came(d, d2, N) ==
  \E w \in Inodes : \A i \in Inodes : \E j \in Inodes : \A k \in 1..Len(d2[i]) :
    \/ k <= Len(d[j]) /\ \A m \in 1..k : d2[i][m] = d[j][m]
    \/ i = w /\ k = Len(d2[i]) /\ d2[i][k] = N + 1

\* Cells that came from the writer or a copy keep the one history, and every sound position.
LEMMA CameKeeps ==
  ASSUME NEW d \in [Inodes -> Seq(Nat)], NEW d2 \in [Inodes -> Seq(Nat)], NEW N \in Nat,
         \A i \in Inodes : Stamped(d[i], N), OneHistory(d), Came(d, d2, N)
  PROVE  OneHistory(d2) /\ \A s : Stamped(s, N) /\ Sound(s, d) => Sound(s, d2)
<1>1. PICK w \in Inodes : \A i \in Inodes : \E j \in Inodes : \A k \in 1..Len(d2[i]) :
        \/ k <= Len(d[j]) /\ \A m \in 1..k : d2[i][m] = d[j][m]
        \/ i = w /\ k = Len(d2[i]) /\ d2[i][k] = N + 1
  BY DEF Came
<1>2. ASSUME NEW i \in Inodes, NEW k \in 1..Len(d2[i]), d2[i][k] <= N
      PROVE  \E j \in Inodes : k \in 1..Len(d[j]) /\ \A m \in 1..k : d2[i][m] = d[j][m]
  <2>1. PICK j \in Inodes : \A n \in 1..Len(d2[i]) :
          \/ n <= Len(d[j]) /\ \A m \in 1..n : d2[i][m] = d[j][m]
          \/ i = w /\ n = Len(d2[i]) /\ d2[i][n] = N + 1
    BY <1>1
  <2>2. d2[i][k] # N + 1 /\ d[j] \in Seq(Nat) /\ d2[i] \in Seq(Nat)
    BY <1>2
  <2>3. k <= Len(d[j]) /\ \A m \in 1..k : d2[i][m] = d[j][m]
    BY <2>1, <2>2
  <2>4. k \in 1..Len(d[j])
    BY <2>2, <2>3
  <2> QED
    BY <2>3, <2>4
<1>3. ASSUME NEW i \in Inodes, NEW k \in 1..Len(d2[i])
      PROVE  d2[i][k] <= N \/ (i = w /\ d2[i][k] = N + 1)
  <2>1. PICK j \in Inodes : \A n \in 1..Len(d2[i]) :
          \/ n <= Len(d[j]) /\ \A m \in 1..n : d2[i][m] = d[j][m]
          \/ i = w /\ n = Len(d2[i]) /\ d2[i][n] = N + 1
    BY <1>1
  <2>2. CASE k <= Len(d[j]) /\ \A m \in 1..k : d2[i][m] = d[j][m]
    <3>1. k \in 1..k /\ k \in 1..Len(d[j])
      BY <2>2
    <3>2. d[j][k] <= N
      BY <3>1 DEF Stamped
    <3> QED
      BY <2>2, <3>1, <3>2
  <2> QED
    BY <2>1, <2>2
<1>4. OneHistory(d2)
  <2> SUFFICES ASSUME NEW a \in Inodes, NEW b \in Inodes, NEW k \in 1..Len(d2[a]),
                      k <= Len(d2[b]), d2[a][k] = d2[b][k]
               PROVE  \A m \in 1..k : d2[a][m] = d2[b][m]
    BY DEF OneHistory
  <2>1. k \in 1..Len(d2[b])
    OBVIOUS
  <2>2. CASE d2[a][k] <= N
    <3>1. PICK i \in Inodes : k \in 1..Len(d[i]) /\ \A m \in 1..k : d2[a][m] = d[i][m]
      BY <1>2, <2>2
    <3>2. PICK j \in Inodes : k \in 1..Len(d[j]) /\ \A m \in 1..k : d2[b][m] = d[j][m]
      BY <1>2, <2>1, <2>2
    <3>3. k \in 1..k /\ k <= Len(d[j])
      BY <3>2
    <3>4. d[i][k] = d[j][k]
      BY <3>1, <3>2, <3>3
    <3>5. \A m \in 1..k : d[i][m] = d[j][m]
      BY <3>1, <3>3, <3>4 DEF OneHistory
    <3> QED
      BY <3>1, <3>2, <3>5
  <2>3. CASE ~(d2[a][k] <= N)
    <3>1. a = w /\ b = w
      BY <1>3, <2>1, <2>3
    <3> QED
      BY <3>1
  <2> QED
    BY <2>2, <2>3
<1>5. ASSUME NEW s, Stamped(s, N), Sound(s, d) PROVE Sound(s, d2)
  <2> SUFFICES ASSUME NEW i \in Inodes, NEW k \in 1..Len(s),
                      k <= Len(d2[i]), d2[i][1] = s[1], d2[i][k] = s[k]
               PROVE  \A m \in 1..k : d2[i][m] = s[m]
    BY DEF Sound
  <2>1. s \in Seq(Nat) /\ s[k] <= N
    BY <1>5 DEF Stamped
  <2>2. k \in 1..Len(d2[i])
    BY <2>1
  <2>3. PICK j \in Inodes : k \in 1..Len(d[j]) /\ \A m \in 1..k : d2[i][m] = d[j][m]
    BY <1>2, <2>1, <2>2
  <2>4. 1 \in 1..k /\ k \in 1..k /\ k <= Len(d[j])
    BY <2>3
  <2>5. d[j][1] = s[1] /\ d[j][k] = s[k]
    BY <2>3, <2>4
  <2>6. \A m \in 1..k : d[j][m] = s[m]
    BY <1>5, <2>4, <2>5 DEF Sound
  <2> QED
    BY <2>3, <2>6
<1> QED
  BY <1>4, <1>5

\* A file left alone, emptied, or one cell longer.
LEMMA FileData ==
  ASSUME NEW d \in [Inodes -> Seq(Nat)], NEW d2 \in [Inodes -> Seq(Nat)], NEW i \in Inodes,
         NEW f, NEW G, NEW ov, NEW ov2, NEW N \in Nat, NEW N2 \in Nat, NEW c \in Nat,
         FileInv(f, i, d, G, ov, N), Sound(f.seen, d2), N <= N2, ov \subseteq ov2,
         \/ d2[i] = d[i]
         \/ d2[i] = <<>>
         \/ /\ d2[i] = Append(d[i], c)
            /\ Len(d[i]) < Len(f.seen) => c \in ov2
            /\ d[i] = <<>> /\ f.seen # <<>> => c # f.seen[1]
  PROVE  FileInv(f, i, d2, G, ov2, N2)
<1>1. f.seen \in Seq(Nat) /\ Len(f.seen) \in Nat /\ d[i] \in Seq(Nat) /\ d2[i] \in Seq(Nat)
  BY DEF FileInv, Stamped
<1>2. Stamped(f.seen, N2)
  <2> DEFINE s == f.seen
  <2>1. Stamped(s, N)
    BY DEF FileInv
  <2>2. s \in Seq(Nat)
    BY <1>1
  <2> HIDE DEF s
  <2>3. ASSUME NEW k \in 1..Len(s) PROVE s[k] <= N2
    <3>1. s[k] \in Nat /\ s[k] <= N
      BY <2>1, <2>2 DEF Stamped
    <3> QED
      BY <3>1
  <2>4. Stamped(s, N2)
    BY <2>2, <2>3 DEF Stamped
  <2> QED
    BY <2>4 DEF s
<1>3. ASSUME d2[i] # <<>>, f.seen # <<>>, d2[i][1] = f.seen[1]
      PROVE  Begins(f.seen, d2[i])
  <2>1. CASE d2[i] = d[i]
    BY <1>3, <2>1 DEF FileInv
  <2>2. CASE d2[i] = Append(d[i], c) /\ (d[i] = <<>> => c # f.seen[1])
    <3>1. /\ Len(d2[i]) = Len(d[i]) + 1 /\ \A k \in 1..Len(d[i]) : d2[i][k] = d[i][k]
          /\ d2[i][Len(d[i]) + 1] = c
      BY <1>1, <2>2, AppendFacts
    <3>2. d[i] # <<>>
      BY <1>1, <1>3, <2>2, <3>1
    <3>3. d[i][1] = f.seen[1]
      BY <1>1, <1>3, <3>1, <3>2
    <3>4. Begins(f.seen, d[i])
      BY <1>3, <3>2, <3>3 DEF FileInv
    <3>5. Len(f.seen) <= Len(d[i]) /\ \A k \in 1..Len(f.seen) : k \in 1..Len(d[i])
      BY <1>1, <3>4 DEF Begins
    <3>6. Len(f.seen) <= Len(d2[i])
      BY <1>1, <3>1, <3>5
    <3> QED
      BY <3>1, <3>4, <3>5, <3>6 DEF Begins
  <2> QED
    BY <1>3, <2>1, <2>2
<1>4. ASSUME NEW m \in 1..Len(d2[i]), m <= Len(f.seen)
      PROVE  d2[i][m] \in ov2 \/ \E k \in 1..Len(f.seen) : d2[i][m] = f.seen[k]
  <2>0. \A n \in 1..Len(d[i]) : n <= Len(f.seen) =>
          d[i][n] \in ov \/ \E k \in 1..Len(f.seen) : d[i][n] = f.seen[k]
    BY DEF FileInv
  <2>1. CASE d2[i] = d[i]
    BY <1>4, <2>0, <2>1
  <2>2. CASE d2[i] = <<>>
    BY <2>2
  <2>3. CASE d2[i] = Append(d[i], c) /\ (Len(d[i]) < Len(f.seen) => c \in ov2)
    <3>1. /\ Len(d2[i]) = Len(d[i]) + 1 /\ \A k \in 1..Len(d[i]) : d2[i][k] = d[i][k]
          /\ d2[i][Len(d[i]) + 1] = c
      BY <1>1, <2>3, AppendFacts
    <3>2. CASE m \in 1..Len(d[i])
      BY <1>4, <2>0, <3>1, <3>2
    <3>3. CASE m = Len(d[i]) + 1
      BY <1>1, <1>4, <2>3, <3>1, <3>3
    <3> QED
      BY <1>1, <3>1, <3>2, <3>3
  <2> QED
    BY <2>1, <2>2, <2>3
<1> QED
  BY <1>2, <1>3, <1>4 DEF FileInv

\* A position stays one when the files change and its soundness is kept.
LEMMA PositionData ==
  ASSUME NEW before, NEW head, NEW d, NEW d2, NEW G, NEW N \in Nat, NEW N2 \in Nat,
         PositionInv(before, head, d, G, N), N <= N2, Sound(before, d2)
  PROVE  PositionInv(before, head, d2, G, N2)
<1>1. ASSUME NEW s, Stamped(s, N) PROVE Stamped(s, N2)
  <2>1. \A k \in 1..Len(s) : s[k] \in Nat /\ s[k] <= N
    BY <1>1 DEF Stamped
  <2> QED
    BY <1>1, <2>1 DEF Stamped
<1> QED
  BY <1>1 DEF PositionInv

\* How the content of a tracked file may change under its reader.
Changed(files, d, d2, ov2, N) ==
  \A i \in DOMAIN files :
    \/ d2[i] = d[i]
    \/ d2[i] = <<>>
    \/ \E c \in Nat : /\ d2[i] = Append(d[i], c)
                      /\ Len(d[i]) < Len(files[i].seen) => c \in ov2
                      /\ d[i] = <<>> /\ files[i].seen # <<>> => c # files[i].seen[1]

\* A step of the writer or of the rotator keeps the tailer's positions.
LEMMA DataKeeps ==
  ASSUME NEW d \in [Inodes -> Seq(Nat)], NEW d2 \in [Inodes -> Seq(Nat)],
         NEW t, NEW disk0, NEW D, NEW G, NEW ov, NEW ov2, NEW N \in Nat, NEW N2 \in Nat,
         TailInv(t, d, D, G, ov, N), ResumeInv(disk0, d, D, N),
         \A i \in Inodes : Stamped(d[i], N), OneHistory(d), Came(d, d2, N),
         N <= N2, ov \subseteq ov2, Changed(t.files, d, d2, ov2, N)
  PROVE  TailInv(t, d2, D, G, ov2, N2) /\ ResumeInv(disk0, d2, D, N2)
<1>1. \A s : Stamped(s, N) /\ Sound(s, d) => Sound(s, d2)
  BY CameKeeps
<1>2. ASSUME NEW before, NEW head, NEW H, PositionInv(before, head, d, H, N)
      PROVE  PositionInv(before, head, d2, H, N2)
  <2>1. Sound(before, d2)
    BY <1>1, <1>2 DEF PositionInv
  <2> QED
    BY <1>2, <2>1, PositionData
<1>3. ASSUME NEW r, ResumeInv(r, d, D, N) PROVE ResumeInv(r, d2, D, N2)
  BY <1>2, <1>3 DEF ResumeInv
<1>4. HeldInv(t.truncations, d2, G, N2)
  BY <1>2 DEF TailInv, HeldInv
<1>5. ASSUME NEW i \in DOMAIN t.files PROVE i \in Inodes /\ FileInv(t.files[i], i, d2, G, ov2, N2)
  <2> DEFINE f == t.files[i]
  <2>1. i \in Inodes /\ FileInv(f, i, d, G, ov, N)
    BY DEF TailInv, FilesInv
  <2>2. \/ d2[i] = d[i]
        \/ d2[i] = <<>>
        \/ \E c \in Nat : /\ d2[i] = Append(d[i], c)
                          /\ Len(d[i]) < Len(f.seen) => c \in ov2
                          /\ d[i] = <<>> /\ f.seen # <<>> => c # f.seen[1]
    BY DEF Changed
  <2>3. Sound(f.seen, d2)
    BY <1>1, <2>1 DEF FileInv
  <2> HIDE DEF f
  <2>4. PICK c \in Nat :
          \/ d2[i] = d[i]
          \/ d2[i] = <<>>
          \/ /\ d2[i] = Append(d[i], c)
             /\ Len(d[i]) < Len(f.seen) => c \in ov2
             /\ d[i] = <<>> /\ f.seen # <<>> => c # f.seen[1]
    BY <2>2
  <2>5. FileInv(f, i, d2, G, ov2, N2)
    BY <2>1, <2>3, <2>4, FileData
  <2> QED
    BY <2>1, <2>5 DEF f
<1> QED
  BY <1>3, <1>4, <1>5 DEF TailInv, FilesInv

-----------------------------------------------------------------------------
(* Reads and lines.                                                        *)

\* A set of positions of a sequence has a last one.
LEMMA LastExists ==
  ASSUME NEW n \in Nat, NEW S \in SUBSET (1..n), S # {}
  PROVE  Max(S) \in S /\ \A y \in S : Max(S) >= y
<1> DEFINE T == {m \in Nat : n - m \in S}
<1>1. T \in SUBSET Nat /\ T # {}
  <2>1. PICK x \in S : TRUE
    OBVIOUS
  <2>2. n - x \in Nat /\ n - (n - x) = x
    BY <2>1
  <2> QED
    BY <2>1, <2>2
<1>2. ASSUME NEW x \in S PROVE n - x \in T
  <2>1. n - x \in Nat /\ n - (n - x) = x
    OBVIOUS
  <2> QED
    BY <2>1
<1>3. \A m \in T : m \in Nat /\ n - m \in S
  OBVIOUS
<1> HIDE DEF T
<1>4. \E x \in T : \A y \in T : ~(<<y, x>> \in OpToRel(<, Nat))
  <2>1. IsWellFoundedOn(OpToRel(<, Nat), Nat)
    BY NatLessThanWellFounded
  <2> QED
    BY <1>1, <2>1, WFMin, Zenon
<1>5. \A x, y \in Nat : ~(<<y, x>> \in OpToRel(<, Nat)) => x <= y
  BY DEF OpToRel
<1>6. PICK x \in T : \A y \in T : x <= y
  BY <1>1, <1>4, <1>5
<1>7. n - x \in S
  BY <1>3
<1>8. ASSUME NEW y \in S PROVE n - x >= y
  <2>1. n - y \in T /\ y \in Nat /\ x \in Nat
    BY <1>1, <1>2
  <2>2. x <= n - y
    BY <1>6, <2>1
  <2> QED
    BY <2>1, <2>2
<1>9. \E z \in S : \A y \in S : z >= y
  BY <1>7, <1>8
<1> QED
  BY <1>9 DEF Max

\* s is read on from d to u.
Extended(s, d, u) ==
  /\ u \in Seq(Nat) /\ Len(s) < Len(u) /\ Len(u) <= Len(d)
  /\ \A m \in 1..Len(s) : u[m] = s[m]
  /\ \A m \in 1..Len(u) : m > Len(s) => u[m] = d[m]

\* read_one's chunk.
LEMMA ReadChunk ==
  ASSUME NEW s \in Seq(Nat), NEW d \in Seq(Nat), NEW size \in Nat, Len(s) < size, size <= Len(d)
  PROVE  LET new == SubSeq(d, Len(s) + 1, size)
         IN new \in Seq(Nat) /\ Extended(s, d, s \o new) /\ Len(s \o new) = Len(s) + Len(new)
<1> DEFINE new == SubSeq(d, Len(s) + 1, size)
<1>1. /\ new \in Seq(Nat) /\ Len(new) = size - Len(s)
      /\ \A k \in 1..(size - Len(s)) : new[k] = d[Len(s) + k]
  OBVIOUS
<1> HIDE DEF new
<1> DEFINE u == s \o new
<1>2. /\ u \in Seq(Nat) /\ Len(u) = Len(s) + Len(new)
      /\ \A m \in 1..Len(s) : u[m] = s[m]
      /\ \A k \in 1..Len(new) : u[Len(s) + k] = new[k]
  BY <1>1
<1> HIDE DEF u
<1>3. ASSUME NEW m \in 1..Len(u), m > Len(s) PROVE u[m] = d[m]
  <2>1. m - Len(s) \in 1..Len(new) /\ Len(s) + (m - Len(s)) = m
    BY <1>1, <1>2, <1>3
  <2> QED
    BY <1>1, <1>2, <2>1
<1>4. Len(u) = size
  BY <1>1, <1>2
<1>5. Extended(s, d, u)
  BY <1>2, <1>3, <1>4 DEF Extended
<1> QED
  BY <1>1, <1>2, <1>5 DEF u, new

\* The cells of two sequences, one after the other.
LEMMA Joined ==
  ASSUME NEW s \in Seq(Nat), NEW t \in Seq(Nat)
  PROVE  /\ s \o t \in Seq(Nat) /\ Len(s \o t) = Len(s) + Len(t)
         /\ \A j \in 1..Len(s) : (s \o t)[j] = s[j]
         /\ \A j \in 1..Len(t) : (s \o t)[Len(s) + j] = t[j]
<1> DEFINE u == s \o t
<1>1. /\ u \in Seq(Nat) /\ Len(u) = Len(s) + Len(t)
      /\ \A j \in 1..(Len(s) + Len(t)) : u[j] = IF j <= Len(s) THEN s[j] ELSE t[j - Len(s)]
  BY ConcatProperties
<1>2. Len(s) \in Nat /\ Len(t) \in Nat
  OBVIOUS
<1> HIDE DEF u
<1>3. \A j \in 1..Len(s) : u[j] = s[j]
  BY <1>1, <1>2
<1>4. ASSUME NEW j \in 1..Len(t) PROVE u[Len(s) + j] = t[j]
  <2>1. Len(s) + j \in 1..(Len(s) + Len(t)) /\ ~(Len(s) + j <= Len(s)) /\ (Len(s) + j) - Len(s) = j
    BY <1>2
  <2> QED
    BY <1>1, <2>1
<1> QED
  BY <1>1, <1>3, <1>4 DEF u

\* The splitter: of the cells read so far, those up to the last line end are lines.
LEMMA SplitFacts ==
  ASSUME NEW f \in File, f.pend <= Len(f.seen), NEW new \in Seq(Nat)
  PROVE  LET s == Split(f, new)
             u == f.seen \o new
         IN /\ s.pend \in Nat /\ s.pend <= Len(u)
            /\ Len(f.seen) - f.pend <= Len(u) - s.pend
            /\ s.lines = {u[k] : k \in (Len(f.seen) - f.pend + 1)..(Len(u) - s.pend)}
<1> DEFINE s == f.seen  q == f.pend  b == Len(s) - q
           h == SubSeq(s, b + 1, Len(s))
           held == h \o new
           k == SelectLastInSeq(held, EndsLine)
           u == s \o new
<1>1. s \in Seq(Nat) /\ q \in Nat /\ b \in Nat /\ Len(s) = b + q
  BY DEF File
<1>2. Split(f, new) = [lines |-> ToSet(Upto(held, k)), pend |-> Len(held) - k]
  BY DEF Split
<1> HIDE DEF s, q, b
<1>3. h \in Seq(Nat) /\ Len(h) = q /\ \A j \in 1..q : h[j] = s[b + j]
  <2>1. h \in Seq(Nat) /\ Len(h) = q
    BY <1>1
  <2>2. ASSUME NEW j \in 1..q PROVE h[j] = s[b + j]
    <3>1. j \in 1..(Len(s) - (b + 1) + 1) /\ (b + 1) + j - 1 = b + j
      BY <1>1
    <3>2. b + 1 \in 1..Len(s) /\ Len(s) \in b..Len(s)
      BY <1>1
    <3> QED
      BY <1>1, <3>1, <3>2
  <2> QED
    BY <2>1, <2>2
<1>4. /\ u \in Seq(Nat) /\ Len(u) = Len(s) + Len(new)
      /\ \A j \in 1..Len(s) : u[j] = s[j]
      /\ \A j \in 1..Len(new) : u[Len(s) + j] = new[j]
  BY <1>1, Joined
<1>5. Len(new) \in Nat
  OBVIOUS
<1> HIDE DEF h, u
<1>6. /\ held \in Seq(Nat) /\ Len(held) = q + Len(new)
      /\ \A j \in 1..q : held[j] = h[j]
      /\ \A j \in 1..Len(new) : held[q + j] = new[j]
  <2>1. /\ held \in Seq(Nat) /\ Len(held) = Len(h) + Len(new)
        /\ \A j \in 1..Len(h) : held[j] = h[j]
        /\ \A j \in 1..Len(new) : held[Len(h) + j] = new[j]
    BY <1>3, Joined
  <2> HIDE DEF held
  <2> QED
    BY <1>3, <2>1
<1> HIDE DEF held
<1>7. ASSUME NEW j \in 1..Len(held) PROVE held[j] = u[b + j]
  <2>1. CASE j <= q
    <3>1. j \in 1..q /\ b + j \in 1..Len(s)
      BY <1>1, <2>1
    <3> QED
      BY <1>3, <1>4, <1>6, <3>1
  <2>2. CASE j > q
    <3>1. j - q \in 1..Len(new)
      BY <1>1, <1>5, <1>6, <2>2
    <3>2. q + (j - q) = j /\ Len(s) + (j - q) = b + j
      BY <1>1
    <3> QED
      BY <1>4, <1>6, <3>1, <3>2
  <2> QED
    BY <1>1, <2>1, <2>2
<1>a. Len(held) \in Nat
  BY <1>6
<1>8. k \in 0..Len(held)
  <2> DEFINE I == {i \in 1..Len(held) : EndsLine(held[i])}
  <2>1. k = IF I # {} THEN Max(I) ELSE 0
    BY DEF SelectLastInSeq
  <2>2. I \in SUBSET (1..Len(held))
    OBVIOUS
  <2> HIDE DEF I, k
  <2>3. I # {} => Max(I) \in I
    BY <1>a, <2>2, LastExists
  <2>4. CASE I # {}
    <3>1. k \in 1..Len(held)
      BY <2>1, <2>2, <2>3, <2>4
    <3> QED
      BY <3>1
  <2>5. CASE I = {}
    BY <1>a, <2>1, <2>5
  <2> QED
    BY <2>4, <2>5
<1> HIDE DEF k
<1> DEFINE p == Len(held) - k
<1>b. \A j \in 1..k : j \in 1..Len(held)
  BY <1>a, <1>8
<1>9. p \in Nat /\ p <= Len(u) /\ b <= Len(u) - p /\ Len(u) - p = b + k
  BY <1>1, <1>4, <1>5, <1>6, <1>8
<1>10. ToSet(Upto(held, k)) = {u[j] : j \in (b + 1)..(Len(u) - p)}
  <2> DEFINE v == Upto(held, k)
  <2>1. v \in Seq(Nat) /\ Len(v) = k /\ \A j \in 1..k : v[j] = held[j]
    BY <1>6, <1>8, UptoFacts
  <2> HIDE DEF v
  <2>2. \A x : x \in ToSet(v) <=> \E j \in 1..k : x = v[j]
    BY <2>1, ToSetByIndex
  <2>3. \A j \in 1..k : v[j] = u[b + j]
    BY <1>7, <1>b, <2>1
  <2>4. ASSUME NEW x \in ToSet(v) PROVE x \in {u[j] : j \in (b + 1)..(Len(u) - p)}
    <3>1. PICK j \in 1..k : x = u[b + j]
      BY <2>2, <2>3
    <3>2. b + j \in (b + 1)..(Len(u) - p)
      BY <1>1, <1>8, <1>9
    <3> QED
      BY <3>1, <3>2
  <2>5. ASSUME NEW j \in (b + 1)..(Len(u) - p) PROVE u[j] \in ToSet(v)
    <3>1. j - b \in 1..k /\ b + (j - b) = j
      BY <1>1, <1>8, <1>9
    <3> QED
      BY <2>2, <2>3, <3>1
  <2> QED
    BY <2>4, <2>5 DEF v
<1>11. Split(f, new).lines = {u[j] : j \in (b + 1)..(Len(u) - p)} /\ Split(f, new).pend = p
  BY <1>2, <1>10
<1> QED
  BY <1>9, <1>11 DEF u, b, s, q

\* What a reader has seen stays sound when it reads on.
LEMMA ReadSound ==
  ASSUME NEW d \in [Inodes -> Seq(Nat)], NEW i \in Inodes, OneHistory(d), NEW s \in Seq(Nat), NEW u,
         Sound(s, d), Extended(s, d[i], u),
         d[i] # <<>> /\ s # <<>> /\ d[i][1] = s[1] => Begins(s, d[i])
  PROVE  Sound(u, d) /\ (d[i][1] = u[1] => Begins(u, d[i]))
<1>1. /\ u \in Seq(Nat) /\ Len(s) < Len(u) /\ Len(u) <= Len(d[i]) /\ Len(s) \in Nat
      /\ Len(d[i]) \in Nat /\ Len(u) \in Nat
      /\ \A m \in 1..Len(s) : u[m] = s[m]
      /\ \A m \in 1..Len(u) : m > Len(s) => u[m] = d[i][m]
  BY DEF Extended
<1>2. d[i] # <<>>
  BY <1>1
<1>3. ASSUME d[i][1] = u[1] PROVE \A m \in 1..Len(u) : u[m] = d[i][m]
  <2>1. CASE s = <<>>
    BY <1>1, <2>1
  <2>2. CASE s # <<>>
    <3>1. 1 \in 1..Len(s)
      BY <2>2
    <3>2. Begins(s, d[i])
      BY <1>1, <1>2, <1>3, <2>2, <3>1
    <3>3. \A m \in 1..Len(s) : u[m] = d[i][m]
      BY <1>1, <3>2 DEF Begins
    <3>4. \A m \in 1..Len(u) : m \in 1..Len(s) \/ m > Len(s)
      BY <1>1
    <3> QED
      BY <1>1, <3>3, <3>4
  <2> QED
    BY <2>1, <2>2
<1>4. Sound(u, d)
  <2> SUFFICES ASSUME NEW j \in Inodes, NEW k \in 1..Len(u),
                      k <= Len(d[j]), d[j][1] = u[1], d[j][k] = u[k]
               PROVE  \A m \in 1..k : d[j][m] = u[m]
    BY DEF Sound
  <2>0. k \in Nat /\ 1 <= k /\ Len(s) \in Nat
    BY <1>1
  <2>1. CASE k <= Len(s)
    <3>1. k \in 1..Len(s) /\ 1 \in 1..Len(s) /\ \A m \in 1..k : m \in 1..Len(s)
      BY <2>0, <2>1
    <3>2. d[j][1] = s[1] /\ d[j][k] = s[k]
      BY <1>1, <3>1
    <3>3. \A m \in 1..k : d[j][m] = s[m]
      BY <3>1, <3>2 DEF Sound
    <3> QED
      BY <1>1, <3>1, <3>3
  <2>2. CASE k > Len(s)
    <3>1. u[k] = d[i][k] /\ k \in 1..Len(d[j]) /\ k <= Len(d[i])
      BY <1>1, <2>2
    <3>2. \A m \in 1..k : d[j][m] = d[i][m]
      BY <3>1 DEF OneHistory
    <3>3. 1 \in 1..k /\ \A m \in 1..k : m \in 1..Len(u)
      BY <1>1
    <3>4. d[i][1] = u[1]
      BY <3>2, <3>3
    <3> QED
      BY <1>3, <3>2, <3>3, <3>4
  <2> QED
    BY <2>0, <2>1, <2>2
<1> QED
  BY <1>1, <1>3, <1>4 DEF Begins

\* read_one keeps the file it reads.
LEMMA ReadKeeps ==
  ASSUME NEW d \in [Inodes -> Seq(Nat)], NEW i \in Inodes, OneHistory(d), NEW N,
         Stamped(d[i], N), NEW f, NEW g \in File, NEW G, NEW G2, NEW ov,
         FileInv(f, i, d, G, ov, N), Extended(f.seen, d[i], g.seen), ~g.claimable, G \subseteq G2,
         g.pend <= Len(g.seen), Len(f.seen) - f.pend <= Len(g.seen) - g.pend,
         {g.seen[k] : k \in (Len(f.seen) - f.pend + 1)..(Len(g.seen) - g.pend)} \subseteq G2
  PROVE  FileInv(g, i, d, G2, ov, N)
<1> DEFINE s == f.seen  u == g.seen  q == f.pend  p == g.pend
<1>1. /\ s \in Seq(Nat) /\ q \in Nat /\ q <= Len(s) /\ Stamped(s, N) /\ Sound(s, d)
      /\ \A k \in 1..(Len(s) - q) : s[k] \in G
      /\ d[i] # <<>> /\ s # <<>> /\ d[i][1] = s[1] => Begins(s, d[i])
      /\ \A m \in 1..Len(d[i]) : m <= Len(s) =>
           d[i][m] \in ov \/ \E k \in 1..Len(s) : d[i][m] = s[k]
  BY DEF FileInv, File
<1>2. u \in Seq(Nat) /\ p \in Nat /\ p <= Len(u) /\ Extended(s, d[i], u) /\ Len(s) - q <= Len(u) - p
  BY DEF File
<1>3. {u[k] : k \in (Len(s) - q + 1)..(Len(u) - p)} \subseteq G2
  OBVIOUS
<1> HIDE DEF s, u, q, p
<1>4. /\ Len(s) < Len(u) /\ Len(u) <= Len(d[i]) /\ Len(s) \in Nat /\ Len(d[i]) \in Nat /\ Len(u) \in Nat
      /\ \A m \in 1..Len(s) : u[m] = s[m]
      /\ \A m \in 1..Len(u) : m > Len(s) => u[m] = d[i][m]
  <2>1. Len(s) \in Nat /\ Len(d[i]) \in Nat /\ Len(u) \in Nat
    BY <1>1, <1>2
  <2> QED
    BY <1>2, <2>1 DEF Extended
<1>5. Sound(u, d) /\ (d[i][1] = u[1] => Begins(u, d[i]))
  BY <1>1, <1>2, ReadSound
<1>6. Stamped(u, N)
  <2>1. ASSUME NEW m \in 1..Len(u) PROVE u[m] <= N
    <3>1. CASE m \in 1..Len(s)
      BY <1>1, <1>4, <3>1 DEF Stamped
    <3>2. CASE m > Len(s)
      <4>1. m \in 1..Len(d[i]) /\ u[m] = d[i][m]
        BY <1>4, <3>2
      <4> QED
        BY <4>1 DEF Stamped
    <3> QED
      BY <1>4, <3>1, <3>2
  <2> QED
    BY <1>2, <2>1 DEF Stamped
<1>7. ASSUME NEW k \in 1..(Len(u) - p) PROVE u[k] \in G2
  <2>1. CASE k <= Len(s) - q
    <3>1. k \in 1..(Len(s) - q) /\ k \in 1..Len(s)
      BY <1>1, <1>4, <2>1
    <3> QED
      BY <1>1, <1>4, <3>1
  <2>2. CASE k > Len(s) - q
    <3>1. k \in (Len(s) - q + 1)..(Len(u) - p)
      BY <1>1, <1>2, <1>4, <2>2
    <3> QED
      BY <1>3, <3>1
  <2> QED
    BY <1>1, <1>4, <2>1, <2>2
<1>8. ASSUME NEW m \in 1..Len(d[i]), m <= Len(u)
      PROVE  d[i][m] \in ov \/ \E k \in 1..Len(u) : d[i][m] = u[k]
  <2>1. CASE m <= Len(s)
    <3>1. d[i][m] \in ov \/ \E k \in 1..Len(s) : d[i][m] = s[k]
      BY <1>1, <2>1
    <3>2. \A k \in 1..Len(s) : k \in 1..Len(u)
      BY <1>4
    <3> QED
      BY <1>4, <3>1, <3>2
  <2>2. CASE m > Len(s)
    <3>1. m \in 1..Len(u) /\ u[m] = d[i][m]
      BY <1>4, <1>8, <2>2
    <3> QED
      BY <3>1
  <2> QED
    BY <1>4, <2>1, <2>2
<1> QED
  BY <1>2, <1>5, <1>6, <1>7, <1>8 DEF FileInv, s, u, q, p

\* Delivering more keeps everything.
LEMMA TailMore ==
  ASSUME NEW t, NEW d, NEW D, NEW D2, NEW G, NEW G2, NEW ov, NEW N, TailInv(t, d, D, G, ov, N),
         D \subseteq D2, G \subseteq G2
  PROVE  TailInv(t, d, D2, G2, ov, N)
<1>1. ResumeInv(t.resume, d, D2, N) /\ HeldInv(t.truncations, d, G2, N)
  BY PositionMore DEF TailInv, ResumeInv, HeldInv
<1>2. FilesInv(t.files, d, G2, ov, N)
  BY DEF TailInv, FilesInv, FileInv
<1> QED
  BY <1>1, <1>2 DEF TailInv

\* Entries stay sound when more is delivered.
LEMMA ResumeMore ==
  ASSUME NEW r, NEW d, NEW D, NEW D2, NEW N, ResumeInv(r, d, D, N), D \subseteq D2
  PROVE  ResumeInv(r, d, D2, N)
BY PositionMore DEF ResumeInv

\* The entries of a tailer whose lines were all delivered are sound on disk.
LEMMA EntriesKeep ==
  ASSUME NEW t, NEW d, NEW D, NEW ov, NEW N, TailInv(t, d, D, D, ov, N)
  PROVE  ResumeInv(Entries(t), d, D, N)
<1> DEFINE e == Entries(t)
<1>1. /\ DOMAIN e = DOMAIN t.files \cup DOMAIN t.resume
      /\ \A i \in DOMAIN e : e[i] = IF i \in DOMAIN t.files THEN Entry(t.files[i]) ELSE t.resume[i]
  BY DEF Entries
<1> HIDE DEF e
<1>2. ASSUME NEW i \in DOMAIN e
      PROVE  i \in Inodes /\ e[i] \in Saved /\ PositionInv(e[i].before, e[i].head, d, D, N)
  <2>1. CASE i \in DOMAIN t.files
    <3>1. i \in Inodes /\ FileInv(t.files[i], i, d, D, ov, N) /\ e[i] = Entry(t.files[i])
      BY <1>1, <2>1 DEF TailInv, FilesInv
    <3> QED
      BY <3>1, EntryPosition
  <2>2. CASE i \notin DOMAIN t.files
    BY <1>1, <2>2 DEF TailInv, ResumeInv
  <2> QED
    BY <2>1, <2>2
<1> QED
  BY <1>2 DEF ResumeInv, e

\* The tailer with its accumulators flushed.
Flushed(t) == [t EXCEPT !.files = [i \in DOMAIN @ |-> [@[i] EXCEPT !.acc = {}]]]

\* flush_all
LEMMA FlushKeeps ==
  ASSUME NEW t, NEW d, NEW D, NEW D2, NEW ov, NEW N, NEW t2,
         TailInv(t, d, D, D2, ov, N), t2 = Flushed(t), D2 = D \cup AccOf(t.files)
  PROVE  /\ TailInv(t2, d, D2, D2, ov, N) /\ AccOf(t2.files) = {}
         /\ DOMAIN t2.files = DOMAIN t.files /\ t2.resume = t.resume
         /\ t2.truncations = t.truncations
         /\ \A i \in DOMAIN t.files : t2.files[i] = [t.files[i] EXCEPT !.acc = {}]
<1> DEFINE F == [i \in DOMAIN t.files |-> [t.files[i] EXCEPT !.acc = {}]]
<1>1. t2 = [t EXCEPT !.files = F]
  BY DEF Flushed
<1>2. TailInv(t, d, D2, D2, ov, N)
  BY TailMore
<1>3. /\ DOMAIN F = DOMAIN t.files /\ \A i \in DOMAIN t.files : F[i] = [t.files[i] EXCEPT !.acc = {}]
  OBVIOUS
<1> HIDE DEF F
<1>4. Record(t2) /\ t2.files = F /\ t2.resume = t.resume /\ t2.truncations = t.truncations
  BY <1>1 DEF TailInv, Record
<1>5. ASSUME NEW i \in DOMAIN t.files
      PROVE  i \in Inodes /\ FileInv(F[i], i, d, D2, ov, N) /\ F[i].acc = {}
  <2> DEFINE f == t.files[i]  g == F[i]
  <2>1. i \in Inodes /\ FileInv(f, i, d, D2, ov, N) /\ f \in File
    BY <1>2 DEF TailInv, FilesInv, FileInv
  <2>2. g = [f EXCEPT !.acc = {}]
    BY <1>3
  <2> HIDE DEF f, g
  <2>3. /\ g \in File /\ g.seen = f.seen /\ g.pend = f.pend /\ g.acc = {}
        /\ g.claimable = f.claimable
    BY <2>1, <2>2 DEF File
  <2>4. FileInv(g, i, d, D2, ov, N)
    BY <2>1, <2>3 DEF FileInv
  <2> QED
    BY <2>1, <2>3, <2>4 DEF g
<1>6. AccOf(F) = {}
  BY <1>3, <1>5 DEF AccOf
<1>7. TailInv(t2, d, D2, D2, ov, N)
  BY <1>2, <1>3, <1>4, <1>5 DEF TailInv, FilesInv
<1> QED
  BY <1>3, <1>4, <1>6, <1>7

-----------------------------------------------------------------------------
(* Every step keeps the positions.                                         *)

\* The cells of delivered lines, and of lines in an accumulator.
Good == delivered \cup AccOf(tailer.files)

\* A step of the driver leaves the files alone.
LEMMA DriverStep ==
  ASSUME SkipInv, UNCHANGED env, overwritten' = overwritten,
         phase' \in {"down", "bind", "run"}, names' = None \/ names' \in SUBSET Paths,
         TailInv(tailer', data, delivered', delivered' \cup AccOf(tailer'.files), overwritten, cells),
         ResumeInv(disk', data, delivered', cells),
         \A i \in DOMAIN tailer'.files :
           \/ i \in DOMAIN tailer.files /\ tailer'.files[i].seen = tailer.files[i].seen
           \/ Len(tailer'.files[i].seen) <= Len(data[i])
  PROVE  SkipInv'
<1>1. /\ dir' = dir /\ data' = data /\ writer' = writer /\ cells' = cells /\ copy' = copy
  BY DEF env
<1>2. DataInv'
  BY <1>1 DEF SkipInv, DataInv
<1>3. DirInv'
  <2>1. DirInv
    BY DEF SkipInv
  <2>2. ASSUME NEW i \in DOMAIN tailer'.files, copy' = "filling", i = dir'["log1"]
        PROVE  Len(tailer'.files[i].seen) <= Len(data'[i])
    BY <1>1, <2>1, <2>2 DEF DirInv
  <2> QED
    BY <1>1, <2>1, <2>2 DEF DirInv
<1> QED
  BY <1>1, <1>2, <1>3 DEF SkipInv

\* A scan over any listing, the empty one of a failed listing included.
LEMMA SkipScan ==
  ASSUME SkipInv, UNCHANGED <<env, disk, delivered, overwritten>>,
         phase' = "run", names' = None,
         NEW found, NEW listed, NEW first, FoundOK(found), listed \/ Found(found) = {},
         tailer' = Scanned(tailer, found, listed, first)
  PROVE  SkipInv'
<1>1. /\ data \in [Inodes -> Seq(Nat)]
      /\ TailInv(tailer, data, delivered, Good, overwritten, cells)
      /\ delivered \subseteq Good
  BY DEF SkipInv, DataInv, Good
<1> DEFINE r == Scanned(tailer, found, listed, first)
<1>2. TailInv(r, data, delivered, Good, overwritten, cells) /\ Kept(r.files, tailer.files)
  BY <1>1, ScannedKeeps
<1>3. tailer' = r
  OBVIOUS
<1> HIDE DEF r
<1>4. AccOf(r.files) = AccOf(tailer.files)
  BY <1>2, KeptAcc
<1>5. TailInv(tailer', data, delivered', delivered' \cup AccOf(tailer'.files), overwritten, cells)
  BY <1>2, <1>3, <1>4 DEF Good
<1>6. \A i \in DOMAIN tailer'.files :
        \/ i \in DOMAIN tailer.files /\ tailer'.files[i].seen = tailer.files[i].seen
        \/ Len(tailer'.files[i].seen) <= Len(data[i])
  BY <1>2, <1>3 DEF Kept
<1>7. ResumeInv(disk', data, delivered', cells)
  BY DEF SkipInv
<1> QED
  BY <1>5, <1>6, <1>7, DriverStep

\* What the listing of a scan found.
Looked == [p \in {n \in names : dir[n] # None} |-> dir[p]]

\* What the lookups of a listing find.
LEMMA LookedFacts ==
  ASSUME DirInv, names \in SUBSET Paths
  PROVE  /\ FoundOK(Looked) /\ DOMAIN Looked = {n \in names : dir[n] # None}
         /\ Found(Looked) = {dir[p] : p \in names} \ {None}
<1>1. /\ DOMAIN Looked = {n \in names : dir[n] # None}
      /\ \A p \in DOMAIN Looked : Looked[p] = dir[p]
  BY DEF Looked
<1>2. dir \in [Paths -> Inodes \cup {None}]
  BY DEF DirInv
<1>3. FoundOK(Looked)
  BY <1>1, <1>2 DEF FoundOK
<1>4. Found(Looked) = {dir[p] : p \in names} \ {None}
  BY <1>1 DEF Found
<1> QED
  BY <1>1, <1>3, <1>4

\* A listing that failed finds nothing.
LEMMA NothingFound ==
  FoundOK(<<>>) /\ Found(<<>>) = {}
BY DEF FoundOK, Found

\* The tailer without a file.
Dropped(t, i) == [t EXCEPT !.files = Restrict(@, DOMAIN @ \ {i}), !.dirty = TRUE]

\* The fields of a tailer without one of its files.
LEMMA DropFields ==
  ASSUME NEW t, NEW i, Record(t)
  PROVE  /\ Record(Dropped(t, i))
         /\ Dropped(t, i).resume = t.resume /\ Dropped(t, i).truncations = t.truncations
         /\ DOMAIN Dropped(t, i).files = DOMAIN t.files \ {i}
         /\ \A j \in DOMAIN t.files \ {i} : Dropped(t, i).files[j] = t.files[j]
<1> DEFINE F == [j \in DOMAIN t.files \ {i} |-> t.files[j]]
           t2 == Dropped(t, i)
<1>1. t2 = [t EXCEPT !.files = F, !.dirty = TRUE]
  BY DEF Restrict, Dropped
<1>2. DOMAIN F = DOMAIN t.files \ {i} /\ \A j \in DOMAIN F : F[j] = t.files[j]
  OBVIOUS
<1> HIDE DEF F, t2
<1>3. Record(t2) /\ t2.files = F /\ t2.resume = t.resume /\ t2.truncations = t.truncations
  BY <1>1 DEF Record
<1> QED
  BY <1>2, <1>3 DEF t2

\* Removing a file that was delivered leaves the others sound.
LEMMA DropFile ==
  ASSUME NEW t, NEW d, NEW D, NEW D2, NEW ov, NEW N, NEW i \in DOMAIN t.files, NEW t2,
         TailInv(t, d, D, D \cup AccOf(t.files), ov, N),
         t2 = Dropped(t, i),
         D \subseteq D2, t.files[i].acc \subseteq D2
  PROVE  TailInv(t2, d, D2, D2 \cup AccOf(t2.files), ov, N)
<1> DEFINE F == t2.files
<1>1. Record(t)
  BY DEF TailInv
<1>2. DOMAIN F = DOMAIN t.files \ {i} /\ \A j \in DOMAIN F : F[j] = t.files[j]
  BY <1>1, DropFields
<1>3. Record(t2) /\ t2.files = F /\ t2.resume = t.resume /\ t2.truncations = t.truncations
  BY <1>1, DropFields
<1> HIDE DEF F
<1>4. D \cup AccOf(t.files) \subseteq D2 \cup AccOf(F)
  <2>1. ASSUME NEW x \in AccOf(t.files) PROVE x \in D2 \cup AccOf(F)
    <3>1. PICK j \in DOMAIN t.files : x \in t.files[j].acc
      BY DEF AccOf
    <3>2. CASE j = i
      BY <3>1, <3>2
    <3>3. CASE j # i
      <4>1. j \in DOMAIN F /\ F[j] = t.files[j]
        BY <1>2, <3>3
      <4> QED
        BY <3>1, <4>1 DEF AccOf
    <3> QED
      BY <3>2, <3>3
  <2> QED
    BY <2>1
<1> DEFINE G2 == D2 \cup AccOf(F)
<1> HIDE DEF G2
<1>5. TailInv(t, d, D2, G2, ov, N)
  BY <1>4, TailMore DEF G2
<1>6. TailInv(t2, d, D2, G2, ov, N)
  BY <1>2, <1>3, <1>5 DEF TailInv, FilesInv
<1> QED
  BY <1>2, <1>3, <1>6 DEF G2

\* A reap delivers all that the file it closes has.
LEMMA SkipReap ==
  ASSUME SkipInv, NEW i, Reap(i)
  PROVE  SkipInv'
<1>1. /\ i \in DOMAIN tailer.files /\ phase = "run" /\ names = None
      /\ tailer' = Dropped(tailer, i)
      /\ delivered' = delivered \cup (tailer.files[i].acc \cup Partial(tailer.files[i]))
      /\ UNCHANGED <<env, phase, names, disk, overwritten>>
  BY DEF Reap, Idle, Deliver, Dropped
<1>2. TailInv(tailer, data, delivered, delivered \cup AccOf(tailer.files), overwritten, cells)
  BY DEF SkipInv
<1>3. delivered \subseteq delivered' /\ tailer.files[i].acc \subseteq delivered'
  BY <1>1
<1>4. /\ TailInv(tailer', data, delivered', delivered' \cup AccOf(tailer'.files), overwritten, cells)
      /\ DOMAIN tailer'.files = DOMAIN tailer.files \ {i}
      /\ \A j \in DOMAIN tailer'.files : tailer'.files[j] = tailer.files[j]
  <2>1. tailer' = Dropped(tailer, i) /\ i \in DOMAIN tailer.files /\ Record(tailer)
    BY <1>1, <1>2 DEF TailInv
  <2>2. TailInv(tailer', data, delivered', delivered' \cup AccOf(tailer'.files), overwritten, cells)
    BY <1>2, <1>3, <2>1, DropFile
  <2>3. /\ DOMAIN tailer'.files = DOMAIN tailer.files \ {i}
        /\ \A j \in DOMAIN tailer'.files : tailer'.files[j] = tailer.files[j]
    BY <2>1, DropFields
  <2> QED
    BY <2>2, <2>3
<1>5. ResumeInv(disk', data, delivered', cells)
  BY <1>1, <1>3, ResumeMore DEF SkipInv
<1> QED
  BY <1>1, <1>4, <1>5, DriverStep

\* A flush delivers the accumulators, and a checkpoint is written after it.
LEMMA SkipFlush ==
  ASSUME SkipInv, FlushAll \/ Checkpoint
  PROVE  SkipInv'
<1> DEFINE D2 == delivered \cup AccOf(tailer.files)
<1>1. /\ phase = "run" /\ names = None /\ delivered' = D2
      /\ UNCHANGED <<env, phase, names, overwritten>>
      /\ \/ tailer' = Emptied /\ UNCHANGED disk
         \/ tailer' = [Emptied EXCEPT !.dirty = FALSE] /\ disk' = Entries(tailer)
  BY DEF FlushAll, Checkpoint, Idle, Deliver, Accumulated, AccOf
<1>2. TailInv(tailer, data, delivered, D2, overwritten, cells)
  BY DEF SkipInv
<1> DEFINE e == Emptied
<1>a. e = Flushed(tailer)
  BY DEF Emptied, Flushed
<1>3. /\ TailInv(e, data, D2, D2, overwritten, cells) /\ AccOf(e.files) = {}
      /\ DOMAIN e.files = DOMAIN tailer.files
      /\ \A i \in DOMAIN tailer.files : e.files[i] = [tailer.files[i] EXCEPT !.acc = {}]
  BY <1>2, <1>a, FlushKeeps
<1> HIDE DEF e
<1>4. /\ TailInv(tailer', data, D2, D2, overwritten, cells) /\ AccOf(tailer'.files) = {}
      /\ tailer'.files = e.files
  <2>1. CASE tailer' = e
    BY <1>3, <2>1
  <2>2. CASE tailer' = [e EXCEPT !.dirty = FALSE]
    <3>1. /\ Record(tailer') /\ tailer'.files = e.files /\ tailer'.resume = e.resume
          /\ tailer'.truncations = e.truncations
      BY <1>3, <2>2 DEF TailInv, Record
    <3> QED
      BY <1>3, <3>1 DEF TailInv
  <2> QED
    BY <1>1, <2>1, <2>2 DEF e
<1>5. ASSUME NEW i \in DOMAIN tailer'.files
      PROVE  i \in DOMAIN tailer.files /\ tailer'.files[i].seen = tailer.files[i].seen
  <2>1. i \in DOMAIN tailer.files /\ tailer'.files[i] = [tailer.files[i] EXCEPT !.acc = {}]
    BY <1>3, <1>4
  <2>2. tailer.files[i] \in File
    BY <1>2, <2>1 DEF TailInv, FilesInv, FileInv
  <2> QED
    BY <2>1, <2>2 DEF File
<1>6. ResumeInv(disk', data, D2, cells)
  <2>1. ResumeInv(disk, data, D2, cells)
    BY ResumeMore DEF SkipInv
  <2>2. TailInv(tailer, data, D2, D2, overwritten, cells)
    BY <1>2, TailMore
  <2>3. ResumeInv(Entries(tailer), data, D2, cells)
    BY <2>2, EntriesKeep
  <2> QED
    BY <1>1, <2>1, <2>3
<1> HIDE DEF D2
<1>7. TailInv(tailer', data, delivered', delivered' \cup AccOf(tailer'.files), overwritten, cells)
  BY <1>1, <1>4
<1> QED
  BY <1>1, <1>5, <1>6, <1>7, DriverStep

\* The unterminated line, cell by cell.
LEMMA PartialFacts ==
  ASSUME NEW f \in File, f.pend <= Len(f.seen)
  PROVE  Partial(f) = {f.seen[k] : k \in (Len(f.seen) - f.pend + 1)..Len(f.seen)}
<1> DEFINE s == f.seen  b == Len(s) - f.pend  h == SubSeq(s, b + 1, Len(s))
<1>1. s \in Seq(Nat) /\ f.pend \in Nat /\ b \in Nat /\ b <= Len(s)
  BY DEF File
<1>2. Partial(f) = ToSet(h)
  BY DEF Partial
<1> HIDE DEF s, b
<1>3. h \in Seq(Nat) /\ Len(h) = Len(s) - b
  BY <1>1
<1>4. ASSUME NEW j \in 1..(Len(s) - b) PROVE h[j] = s[b + j]
  <2>1. j \in 1..(Len(s) - (b + 1) + 1) /\ (b + 1) + j - 1 = b + j
    BY <1>1
  <2>2. b + 1 \in 1..Len(s)
    BY <1>1
  <2> QED
    BY <1>1, <2>1, <2>2
<1> HIDE DEF h
<1>5. \A x : x \in ToSet(h) <=> \E j \in 1..(Len(s) - b) : x = h[j]
  BY <1>3, ToSetByIndex
<1>6. ASSUME NEW x \in ToSet(h) PROVE x \in {s[k] : k \in (b + 1)..Len(s)}
  <2>1. PICK j \in 1..(Len(s) - b) : x = s[b + j]
    BY <1>4, <1>5
  <2>2. b + j \in (b + 1)..Len(s)
    BY <1>1
  <2> QED
    BY <2>1, <2>2
<1>7. ASSUME NEW k \in (b + 1)..Len(s) PROVE s[k] \in ToSet(h)
  <2>1. k - b \in 1..(Len(s) - b) /\ b + (k - b) = k
    BY <1>1
  <2> QED
    BY <1>4, <1>5, <2>1
<1> QED
  BY <1>2, <1>6, <1>7 DEF b, s

\* What is below a reader's offset is in its lines, its unterminated line or unseen.
LEMMA BelowFacts ==
  ASSUME NEW d \in [Inodes -> Seq(Nat)], NEW i \in Inodes, NEW f, NEW G, NEW ov, NEW N,
         FileInv(f, i, d, G, ov, N),
         NEW n \in Nat, n <= Len(d[i]), n <= Len(f.seen)
  PROVE  ToSet(Upto(d[i], n)) \subseteq G \cup Partial(f) \cup ov
<1>1. f \in File /\ f.pend \in Nat /\ f.pend <= Len(f.seen) /\ f.seen \in Seq(Nat) /\ d[i] \in Seq(Nat)
  BY DEF FileInv, File
<1> DEFINE u == Upto(d[i], n)
<1>0. n \in 0..Len(d[i])
  BY <1>1
<1>2. u \in Seq(Nat) /\ Len(u) = n /\ \A k \in 1..n : u[k] = d[i][k]
  BY <1>0, <1>1, UptoFacts
<1> HIDE DEF u
<1>3. ASSUME NEW m \in 1..n PROVE u[m] \in G \cup Partial(f) \cup ov
  <2>1. m \in 1..Len(d[i]) /\ m <= Len(f.seen) /\ u[m] = d[i][m]
    BY <1>1, <1>2
  <2>2. u[m] \in ov \/ \E k \in 1..Len(f.seen) : u[m] = f.seen[k]
    BY <2>1 DEF FileInv
  <2>3. ASSUME NEW k \in 1..Len(f.seen) PROVE f.seen[k] \in G \cup Partial(f)
    <3>1. CASE k \in 1..(Len(f.seen) - f.pend)
      BY <3>1 DEF FileInv
    <3>2. CASE k \in (Len(f.seen) - f.pend + 1)..Len(f.seen)
      BY <1>1, <3>2, PartialFacts
    <3> QED
      BY <1>1, <3>1, <3>2
  <2> QED
    BY <2>2, <2>3
<1> QED
  BY <1>2, <1>3, ToSetByIndex DEF u

\* The invariant says what was promised.
LEMMA SkipImplies ==
  ASSUME SkipInv
  PROVE  NothingSkipped
<1>1. /\ data \in [Inodes -> Seq(Nat)]
      /\ TailInv(tailer, data, delivered, Good, overwritten, cells)
      /\ ResumeInv(disk, data, delivered, cells)
  BY DEF SkipInv, DataInv, Good
<1>2. Accumulated = AccOf(tailer.files)
  BY DEF Accumulated, AccOf
<1>3. ASSUME NEW i \in DOMAIN tailer.files
      PROVE  LET f == tailer.files[i]
                 below == Upto(data[i], IF Len(data[i]) < Len(f.seen) THEN Len(data[i]) ELSE Len(f.seen))
             IN Cells(below) \subseteq delivered \cup Accumulated \cup Partial(f) \cup overwritten
  <2> DEFINE f == tailer.files[i]
             n == IF Len(data[i]) < Len(f.seen) THEN Len(data[i]) ELSE Len(f.seen)
  <2>1. i \in Inodes /\ FileInv(f, i, data, Good, overwritten, cells)
    BY <1>1 DEF TailInv, FilesInv
  <2>2. f.seen \in Seq(Nat) /\ data[i] \in Seq(Nat)
    BY <1>1, <2>1 DEF FileInv, Stamped
  <2> HIDE DEF f
  <2>3. n \in Nat /\ n <= Len(data[i]) /\ n <= Len(f.seen)
    BY <2>2
  <2> HIDE DEF n
  <2>4. ToSet(Upto(data[i], n)) \subseteq Good \cup Partial(f) \cup overwritten
    BY <1>1, <2>1, <2>3, BelowFacts
  <2> QED
    BY <1>2, <2>4 DEF Good, Cells, f, n
<1>4. ASSUME NEW r, ResumeInv(r, data, delivered, cells)
      PROVE  \A i \in DOMAIN r : Cells(r[i].before) \subseteq delivered
  BY <1>4 DEF ResumeInv, PositionInv, Cells
<1>5. ResumeInv(tailer.resume, data, delivered, cells)
  BY <1>1 DEF TailInv
<1> QED
  BY <1>1, <1>3, <1>4, <1>5 DEF NothingSkipped

\* A closed tailer has nothing.
LEMMA ClosedFacts ==
  ASSUME NEW d, NEW D, NEW G, NEW ov, NEW N
  PROVE  /\ TailInv(Closed, d, D, G, ov, N) /\ DOMAIN Closed.files = {} /\ DOMAIN Closed.resume = {}
         /\ Closed.truncations = {} /\ Record(Closed)
<1>1. Closed.files = <<>> /\ Closed.resume = <<>> /\ Closed.truncations = {} /\ Record(Closed)
  BY DEF Closed, Record
<1>2. DOMAIN Closed.files = {} /\ DOMAIN Closed.resume = {}
  BY <1>1
<1> QED
  BY <1>1, <1>2 DEF TailInv, FilesInv, ResumeInv, HeldInv

\* A clean stop's tailer: nothing is pending.
SettledOf(t) == [t EXCEPT !.files = [i \in DOMAIN @ |-> [@[i] EXCEPT !.pend = 0]]]

\* The fields of a tailer whose partial lines were emitted.
LEMMA SettledFields ==
  ASSUME NEW t, Record(t)
  PROVE  /\ Record(SettledOf(t))
         /\ SettledOf(t).resume = t.resume /\ SettledOf(t).truncations = t.truncations
         /\ DOMAIN SettledOf(t).files = DOMAIN t.files
         /\ \A i \in DOMAIN t.files : SettledOf(t).files[i] = [t.files[i] EXCEPT !.pend = 0]
<1> DEFINE F == [i \in DOMAIN t.files |-> [t.files[i] EXCEPT !.pend = 0]]
           r == SettledOf(t)
<1>1. r = [t EXCEPT !.files = F]
  BY DEF SettledOf
<1>2. DOMAIN F = DOMAIN t.files /\ \A i \in DOMAIN F : F[i] = [t.files[i] EXCEPT !.pend = 0]
  OBVIOUS
<1> HIDE DEF F, r
<1>3. Record(r) /\ r.files = F /\ r.resume = t.resume /\ r.truncations = t.truncations
  BY <1>1 DEF Record
<1> QED
  BY <1>2, <1>3 DEF r

\* Once everything read is delivered, the read offsets are sound positions.
LEMMA SettledKeeps ==
  ASSUME NEW t, NEW d, NEW D, NEW D2, NEW ov, NEW N, TailInv(t, d, D, D \cup AccOf(t.files), ov, N),
         D \cup AccOf(t.files) \cup UNION {Partial(t.files[i]) : i \in DOMAIN t.files} \subseteq D2
  PROVE  TailInv(SettledOf(t), d, D2, D2, ov, N)
<1> DEFINE r == SettledOf(t)
<1>0. Record(t)
  BY DEF TailInv
<1>1. /\ Record(r) /\ r.resume = t.resume /\ r.truncations = t.truncations
      /\ DOMAIN r.files = DOMAIN t.files
      /\ \A i \in DOMAIN t.files : r.files[i] = [t.files[i] EXCEPT !.pend = 0]
  BY <1>0, SettledFields
<1> HIDE DEF r
<1>2. TailInv(t, d, D2, D2, ov, N)
  BY TailMore
<1>3. ASSUME NEW i \in DOMAIN t.files
      PROVE  i \in Inodes /\ FileInv(r.files[i], i, d, D2, ov, N)
  <2> DEFINE f == t.files[i]  g == r.files[i]
  <2>1. i \in Inodes /\ FileInv(f, i, d, D2, ov, N) /\ f \in File /\ f.pend <= Len(f.seen)
    BY <1>2 DEF TailInv, FilesInv, FileInv
  <2>2. g = [f EXCEPT !.pend = 0] /\ Partial(f) \subseteq D2
    BY <1>1
  <2> HIDE DEF f, g
  <2>3. /\ g \in File /\ g.seen = f.seen /\ g.pend = 0 /\ g.acc = f.acc
        /\ g.claimable = f.claimable
    BY <2>1, <2>2 DEF File
  <2>4. ASSUME NEW k \in 1..(Len(g.seen) - g.pend) PROVE g.seen[k] \in D2
    <3>1. k \in 1..Len(f.seen) /\ f.seen \in Seq(Nat) /\ f.pend \in Nat
      BY <2>1, <2>3 DEF File
    <3>2. CASE k \in 1..(Len(f.seen) - f.pend)
      BY <2>1, <2>3, <3>2 DEF FileInv
    <3>3. CASE k \in (Len(f.seen) - f.pend + 1)..Len(f.seen)
      BY <2>1, <2>2, <2>3, <3>3, PartialFacts
    <3> QED
      BY <2>1, <3>1, <3>2, <3>3
  <2>5. g.pend <= Len(g.seen)
    BY <2>3 DEF File
  <2>6. FileInv(g, i, d, D2, ov, N)
    BY <2>1, <2>3, <2>4, <2>5 DEF FileInv
  <2> QED
    BY <2>1, <2>6 DEF g
<1>4. TailInv(r, d, D2, D2, ov, N)
  BY <1>1, <1>2, <1>3 DEF TailInv, FilesInv
<1> QED
  BY <1>4 DEF r

\* A clean stop delivers what was read before its entries cover it.
LEMMA SkipShutdown ==
  ASSUME SkipInv, Shutdown
  PROVE  SkipInv'
<1> DEFINE S == Accumulated \cup UNION {Partial(tailer.files[i]) : i \in DOMAIN tailer.files}
<1>1. /\ delivered' = delivered \cup S /\ tailer' = Closed
      /\ phase' = "down" /\ names' = None /\ UNCHANGED <<env, overwritten>>
      /\ disk' = Entries(Settled) \/ disk' = disk
  BY DEF Shutdown, Down, Deliver
<1>2. Settled = SettledOf(tailer) /\ Accumulated = AccOf(tailer.files)
  BY DEF Settled, SettledOf, Accumulated, AccOf
<1>3. TailInv(tailer, data, delivered, delivered \cup AccOf(tailer.files), overwritten, cells)
  BY DEF SkipInv
<1>4. TailInv(Settled, data, delivered', delivered', overwritten, cells)
  BY <1>1, <1>2, <1>3, SettledKeeps
<1>5. ResumeInv(disk', data, delivered', cells)
  <2>1. ResumeInv(Entries(Settled), data, delivered', cells)
    BY <1>4, EntriesKeep
  <2>2. ResumeInv(disk, data, delivered', cells)
    BY <1>1, ResumeMore DEF SkipInv
  <2> QED
    BY <1>1, <2>1, <2>2
<1>6. /\ TailInv(tailer', data, delivered', delivered' \cup AccOf(tailer'.files), overwritten, cells)
      /\ DOMAIN tailer'.files = {}
  BY <1>1, ClosedFacts
<1> QED
  BY <1>1, <1>5, <1>6, DriverStep

\* A crash leaves the checkpoint as it was.
LEMMA SkipCrash ==
  ASSUME SkipInv, Crash
  PROVE  SkipInv'
<1>1. /\ tailer' = Closed /\ phase' = "down" /\ names' = None
      /\ UNCHANGED <<env, overwritten, disk, delivered>>
  BY DEF Crash, Down
<1>2. /\ TailInv(tailer', data, delivered', delivered' \cup AccOf(tailer'.files), overwritten, cells)
      /\ DOMAIN tailer'.files = {}
  BY <1>1, ClosedFacts
<1>3. ResumeInv(disk', data, delivered', cells)
  BY <1>1 DEF SkipInv
<1> QED
  BY <1>1, <1>2, <1>3, DriverStep

\* A start resumes from the checkpoint.
LEMMA SkipBind ==
  ASSUME SkipInv, Bind
  PROVE  SkipInv'
<1>1. /\ tailer' = [Closed EXCEPT !.resume = disk] /\ phase' = "bind"
      /\ UNCHANGED <<env, names, overwritten, disk, delivered>>
  BY DEF Bind, ghosts
<1>2. /\ Record(tailer') /\ tailer'.files = Closed.files /\ tailer'.resume = disk
      /\ tailer'.truncations = Closed.truncations
  BY <1>1 DEF Closed, Record
<1>3. ResumeInv(disk, data, delivered, cells)
  BY DEF SkipInv
<1>4. DOMAIN tailer'.files = {} /\ tailer'.truncations = {}
  BY <1>2, ClosedFacts
<1>5. TailInv(tailer', data, delivered', delivered' \cup AccOf(tailer'.files), overwritten, cells)
  BY <1>1, <1>2, <1>3, <1>4 DEF TailInv, FilesInv, HeldInv
<1>6. names = None \/ names \in SUBSET Paths
  BY DEF SkipInv
<1> QED
  BY <1>1, <1>3, <1>4, <1>5, <1>6, DriverStep

\* A shrunk file noticed between two scans.
LEMMA SkipDataWake ==
  ASSUME SkipInv, NEW i, DataWake(i)
  PROVE  SkipInv'
<1>1. /\ tailer' = Rewound(tailer, {i}) /\ phase = "run" /\ names = None
      /\ UNCHANGED <<env, phase, names, overwritten, disk, delivered>>
  BY DEF DataWake, Idle, ghosts
<1>2. /\ TailInv(tailer, data, delivered, Good, overwritten, cells)
      /\ data \in [Inodes -> Seq(Nat)]
  BY DEF SkipInv, Good, DataInv
<1>3. TailInv(tailer', data, delivered, Good, overwritten, cells) /\ Kept(tailer'.files, tailer.files)
  BY <1>1, <1>2, RewoundKeeps
<1>4. AccOf(tailer'.files) = AccOf(tailer.files)
  BY <1>3, KeptAcc
<1>5. TailInv(tailer', data, delivered', delivered' \cup AccOf(tailer'.files), overwritten, cells)
  BY <1>1, <1>3, <1>4 DEF Good
<1>6. ResumeInv(disk', data, delivered', cells)
  BY <1>1 DEF SkipInv
<1> QED
  BY <1>1, <1>3, <1>5, <1>6, DriverStep DEF Kept

\* Listing the directory changes nothing else.
LEMMA SkipReadDir ==
  ASSUME SkipInv, ReadDir
  PROVE  SkipInv'
BY DEF SkipInv, ReadDir, DirInv, DataInv, env, ghosts

\* The file a read leaves.
ReadFile(f, u, p, acc) ==
  [f EXCEPT !.seen = u, !.pend = p, !.acc = acc, !.claimable = FALSE, !.waits = FALSE]

\* The fields of a tailer after a read.
LEMMA ReadFields ==
  ASSUME NEW f \in File, NEW u \in Seq(Nat), NEW p \in Nat, NEW acc \in SUBSET Nat
  PROVE  LET g == ReadFile(f, u, p, acc)
         IN /\ g \in File /\ g.seen = u /\ g.pend = p /\ g.acc = acc /\ ~g.claimable
            /\ g.state = f.state
BY DEF ReadFile, File

\* What read_one does to a file: u is what it has seen then, lines are what the read ended.
ReadStep(i, f, u, p, lines) ==
  /\ i \in DOMAIN tailer.files /\ f = tailer.files[i]
  /\ Extended(f.seen, data[i], u) /\ p \in Nat /\ p <= Len(u)
  /\ Len(f.seen) - f.pend <= Len(u) - p
  /\ lines = {u[k] : k \in (Len(f.seen) - f.pend + 1)..(Len(u) - p)}
  /\ \/ /\ tailer' = [tailer EXCEPT !.files[i] = ReadFile(f, u, p, f.acc \cup lines), !.dirty = TRUE]
        /\ UNCHANGED <<delivered, twice>>
     \/ /\ tailer' = [tailer EXCEPT !.files[i] = ReadFile(f, u, p, {}), !.dirty = TRUE]
        /\ Deliver(f.acc \cup lines)
  /\ UNCHANGED <<disturbed, prunedLive, overwritten>>

\* A read waits for a claim, or takes a chunk.
LEMMA ReadCases ==
  ASSUME SkipInv, NEW i \in Inodes, Read(i)
  PROVE  /\ phase = "run" /\ names = None /\ i \in DOMAIN tailer.files
         /\ UNCHANGED <<env, phase, names, disk, used>>
         /\ \/ tailer' = [tailer EXCEPT !.files[i].waits = TRUE] /\ UNCHANGED ghosts
            \/ \E u, p, lines : ReadStep(i, tailer.files[i], u, p, lines)
<1> DEFINE f == tailer.files[i]
           size == IF Len(data[i]) < Len(f.seen) + Chunk THEN Len(data[i]) ELSE Len(f.seen) + Chunk
           new == SubSeq(data[i], Len(f.seen) + 1, size)
           s == Split(f, new)
           u == f.seen \o new
<1>1. /\ phase = "run" /\ names = None /\ i \in DOMAIN tailer.files
      /\ Len(f.seen) < Len(data[i])
      /\ UNCHANGED <<env, phase, names, disk, used>>
      /\ IF ClaimWaits(i)
         THEN tailer' = [tailer EXCEPT !.files[i].waits = TRUE] /\ UNCHANGED ghosts
         ELSE \E full \in BOOLEAN :
                /\ tailer' = [tailer EXCEPT
                     !.files[i] = [f EXCEPT !.seen = @ \o new, !.pend = s.pend,
                                     !.acc = IF full THEN {} ELSE @ \cup s.lines,
                                     !.claimable = FALSE, !.waits = FALSE],
                     !.dirty = TRUE]
                /\ IF full THEN Deliver(f.acc \cup s.lines) ELSE UNCHANGED <<delivered, twice>>
                /\ UNCHANGED <<disturbed, prunedLive, overwritten>>
  BY DEF Read, Idle
<1>2. f \in File /\ f.pend <= Len(f.seen) /\ f.seen \in Seq(Nat) /\ data[i] \in Seq(Nat)
  BY <1>1 DEF SkipInv, TailInv, FilesInv, FileInv, File, DataInv
<1>3. size \in Nat /\ Len(f.seen) < size /\ size <= Len(data[i])
  <2> HIDE DEF f
  <2>1. Len(f.seen) \in Nat /\ Len(data[i]) \in Nat
    BY <1>2
  <2>2. Len(f.seen) < Len(data[i])
    BY <1>1
  <2>3. Chunk \in Nat /\ 0 < Chunk
    BY TailAssumption
  <2> QED
    BY <2>1, <2>2, <2>3
<1> HIDE DEF size, f
<1>4. new \in Seq(Nat) /\ Extended(f.seen, data[i], u)
  BY <1>2, <1>3, ReadChunk
<1> HIDE DEF new
<1>5. /\ s.pend \in Nat /\ s.pend <= Len(u)
      /\ Len(f.seen) - f.pend <= Len(u) - s.pend
      /\ s.lines = {u[k] : k \in (Len(f.seen) - f.pend + 1)..(Len(u) - s.pend)}
  BY <1>2, <1>4, SplitFacts
<1>6. ASSUME ~ClaimWaits(i)
      PROVE  ReadStep(i, f, u, s.pend, s.lines)
  <2>1. PICK full \in BOOLEAN :
                /\ tailer' = [tailer EXCEPT
                     !.files[i] = [f EXCEPT !.seen = @ \o new, !.pend = s.pend,
                                     !.acc = IF full THEN {} ELSE @ \cup s.lines,
                                     !.claimable = FALSE, !.waits = FALSE],
                     !.dirty = TRUE]
                /\ IF full THEN Deliver(f.acc \cup s.lines) ELSE UNCHANGED <<delivered, twice>>
                /\ UNCHANGED <<disturbed, prunedLive, overwritten>>
    BY <1>1, <1>6
  <2> DEFINE p == s.pend  L == s.lines  uu == u
  <2>2. full => /\ tailer' = [tailer EXCEPT !.files[i] = ReadFile(f, uu, p, {}), !.dirty = TRUE]
                /\ Deliver(f.acc \cup L)
    BY <2>1 DEF ReadFile
  <2>3. ~full => /\ tailer' = [tailer EXCEPT !.files[i] = ReadFile(f, uu, p, f.acc \cup L), !.dirty = TRUE]
                 /\ UNCHANGED <<delivered, twice>>
    BY <2>1 DEF ReadFile
  <2>4. UNCHANGED <<disturbed, prunedLive, overwritten>> /\ i \in DOMAIN tailer.files
        /\ f = tailer.files[i]
    BY <1>1, <2>1 DEF f
  <2>5. /\ Extended(f.seen, data[i], uu) /\ p \in Nat /\ p <= Len(uu)
        /\ Len(f.seen) - f.pend <= Len(uu) - p
        /\ L = {uu[k] : k \in (Len(f.seen) - f.pend + 1)..(Len(uu) - p)}
    BY <1>4, <1>5
  <2> HIDE DEF p, L, uu
  <2>6. ReadStep(i, f, uu, p, L)
    BY <2>2, <2>3, <2>4, <2>5 DEF ReadStep
  <2> QED
    BY <2>6 DEF p, L, uu
<1> QED
  BY <1>1, <1>6 DEF f

\* A read adds a chunk, and its lines go to the accumulator or out.
LEMMA SkipRead ==
  ASSUME SkipInv, NEW i \in Inodes, Read(i)
  PROVE  SkipInv'
<1>1. /\ phase = "run" /\ names = None /\ i \in DOMAIN tailer.files
      /\ UNCHANGED <<env, phase, names, disk, used>>
      /\ \/ tailer' = [tailer EXCEPT !.files[i].waits = TRUE] /\ UNCHANGED ghosts
         \/ \E u, p, lines : ReadStep(i, tailer.files[i], u, p, lines)
  BY ReadCases
<1> DEFINE f == tailer.files[i]
<1>2. /\ TailInv(tailer, data, delivered, Good, overwritten, cells) /\ Record(tailer)
      /\ FileInv(f, i, data, Good, overwritten, cells)
      /\ f \in File
  BY <1>1 DEF SkipInv, TailInv, FilesInv, FileInv, Good
<1>3. ASSUME NEW g, NEW F, F = [tailer.files EXCEPT ![i] = g], tailer'.files = F,
             Record(tailer'), tailer'.resume = tailer.resume,
             tailer'.truncations = tailer.truncations,
             UNCHANGED overwritten, delivered \subseteq delivered',
             f.acc \subseteq delivered' \cup g.acc,
             FileInv(g, i, data, delivered' \cup AccOf(F), overwritten, cells),
             g.seen = f.seen \/ Len(g.seen) <= Len(data[i])
      PROVE  SkipInv'
  <2> DEFINE G2 == delivered' \cup AccOf(F)
  <2>1. DOMAIN F = DOMAIN tailer.files /\ F[i] = g /\ \A j \in DOMAIN tailer.files \ {i} : F[j] = tailer.files[j]
    BY <1>1, <1>3
  <2>2. Good \subseteq G2
    <3>1. ASSUME NEW x \in AccOf(tailer.files) PROVE x \in G2
      <4>1. PICK j \in DOMAIN tailer.files : x \in tailer.files[j].acc
        BY DEF AccOf
      <4>2. CASE j = i
        <5>1. x \in delivered' \/ x \in F[i].acc
          BY <1>3, <2>1, <4>1, <4>2
        <5> QED
          BY <1>1, <2>1, <5>1 DEF AccOf
      <4>3. CASE j # i
        <5>1. j \in DOMAIN F /\ x \in F[j].acc
          BY <2>1, <4>1, <4>3
        <5> QED
          BY <5>1 DEF AccOf
      <4> QED
        BY <4>2, <4>3
    <3> QED
      BY <1>3, <3>1 DEF Good
  <2> HIDE DEF G2
  <2>3. TailInv(tailer, data, delivered', G2, overwritten, cells)
    BY <1>2, <1>3, <2>2, TailMore
  <2>4. ASSUME NEW j \in DOMAIN F
        PROVE  j \in Inodes /\ FileInv(F[j], j, data, G2, overwritten, cells)
    <3>1. CASE j = i
      BY <1>3, <2>1, <3>1 DEF G2
    <3>2. CASE j # i
      BY <2>1, <2>3, <3>2 DEF TailInv, FilesInv
    <3> QED
      BY <3>1, <3>2
  <2>5. TailInv(tailer', data, delivered', G2, overwritten, cells)
    BY <1>3, <2>3, <2>4 DEF TailInv, FilesInv
  <2>6. \A j \in DOMAIN tailer'.files :
         \/ j \in DOMAIN tailer.files /\ tailer'.files[j].seen = tailer.files[j].seen
         \/ Len(tailer'.files[j].seen) <= Len(data[j])
    <3>1. ASSUME NEW j \in DOMAIN tailer'.files
          PROVE  \/ j \in DOMAIN tailer.files /\ tailer'.files[j].seen = tailer.files[j].seen
                 \/ Len(tailer'.files[j].seen) <= Len(data[j])
      <4>1. CASE j = i
        BY <1>3, <2>1, <4>1
      <4>2. CASE j # i
        BY <1>3, <2>1, <4>2
      <4> QED
        BY <4>1, <4>2
    <3> QED
      BY <3>1
  <2>7. ResumeInv(disk', data, delivered', cells)
    BY <1>1, <1>3, ResumeMore DEF SkipInv
  <2> QED
    BY <1>1, <1>3, <2>5, <2>6, <2>7, DriverStep DEF G2
<1>4. CASE tailer' = [tailer EXCEPT !.files[i].waits = TRUE] /\ UNCHANGED ghosts
  <2> DEFINE g == [f EXCEPT !.waits = TRUE]  F == [tailer.files EXCEPT ![i] = g]
  <2>1. /\ g \in File /\ g.seen = f.seen /\ g.pend = f.pend /\ g.acc = f.acc
        /\ g.claimable = f.claimable
    BY <1>2 DEF File
  <2>2. FileInv(g, i, data, Good, overwritten, cells)
    BY <1>2, <2>1, FileFields
  <2>3. tailer' = [tailer EXCEPT !.files[i] = g]
    BY <1>4
  <2>4. F = [tailer.files EXCEPT ![i] = g]
    OBVIOUS
  <2> HIDE DEF g, F
  <2>5. /\ Record(tailer') /\ tailer'.resume = tailer.resume /\ tailer'.truncations = tailer.truncations
        /\ tailer'.files = F
    BY <1>2, <2>3, <2>4 DEF Record
  <2>6. UNCHANGED <<delivered, overwritten>>
    BY <1>4 DEF ghosts
  <2>7. AccOf(F) = AccOf(tailer.files)
    <3>1. \A j \in DOMAIN tailer.files : F[j].acc = tailer.files[j].acc
      BY <1>1, <2>1, <2>4
    <3>2. DOMAIN F = DOMAIN tailer.files
      BY <2>4
    <3> QED
      BY <3>1, <3>2 DEF AccOf
  <2>8. FileInv(g, i, data, delivered' \cup AccOf(F), overwritten, cells)
    BY <2>2, <2>6, <2>7 DEF Good
  <2> QED
    BY <1>3, <2>1, <2>4, <2>5, <2>6, <2>8
<1>5. CASE \E u, p, lines : ReadStep(i, f, u, p, lines)
  <2>1. PICK u, p, lines : ReadStep(i, f, u, p, lines)
    BY <1>5
  <2>2. PICK acc : /\ tailer' = [tailer EXCEPT !.files[i] = ReadFile(f, u, p, acc), !.dirty = TRUE]
                   /\ \/ acc = f.acc \cup lines /\ delivered' = delivered
                      \/ acc = {} /\ delivered' = delivered \cup (f.acc \cup lines)
                   /\ overwritten' = overwritten
    BY <2>1 DEF ReadStep, Deliver
  <2>3. /\ Extended(f.seen, data[i], u) /\ p \in Nat /\ p <= Len(u)
        /\ Len(f.seen) - f.pend <= Len(u) - p
        /\ lines = {u[k] : k \in (Len(f.seen) - f.pend + 1)..(Len(u) - p)}
    BY <2>1 DEF ReadStep
  <2>4. u \in Seq(Nat) /\ f.seen \in Seq(Nat) /\ f.pend \in Nat /\ f.pend <= Len(f.seen)
        /\ f.acc \in SUBSET Nat /\ Len(u) <= Len(data[i])
    BY <1>2, <2>3 DEF Extended, FileInv, File
  <2>5. lines \in SUBSET Nat
    <3>1. \A k \in (Len(f.seen) - f.pend + 1)..(Len(u) - p) : k \in 1..Len(u)
      <4> HIDE DEF f
      <4>1. Len(u) \in Nat /\ Len(f.seen) \in Nat
        BY <2>4
      <4>2. f.pend \in Nat /\ f.pend <= Len(f.seen)
        BY <2>4
      <4>3. p \in Nat
        BY <2>3
      <4> QED
        BY <4>1, <4>2, <4>3
    <3> QED
      BY <2>3, <2>4, <3>1
  <2> DEFINE g == ReadFile(f, u, p, acc)  F == [tailer.files EXCEPT ![i] = g]
  <2>6. g \in File /\ g.seen = u /\ g.pend = p /\ g.acc = acc /\ ~g.claimable
    <3>1. acc \in SUBSET Nat
      BY <2>2, <2>4, <2>5
    <3> HIDE DEF f
    <3> QED
      BY <1>2, <2>3, <2>4, <3>1 DEF ReadFile, File
  <2>7. /\ F = [tailer.files EXCEPT ![i] = g] /\ DOMAIN F = DOMAIN tailer.files /\ F[i] = g
        /\ tailer' = [tailer EXCEPT !.files[i] = g, !.dirty = TRUE]
    BY <1>1, <2>2
  <2> HIDE DEF g, F
  <2>8. /\ Record(tailer') /\ tailer'.resume = tailer.resume /\ tailer'.truncations = tailer.truncations
        /\ tailer'.files = F
    BY <1>2, <2>7 DEF Record
  <2>9. Good \cup lines \subseteq delivered' \cup AccOf(F)
    <3>1. f.acc \cup lines \subseteq delivered' \cup AccOf(F)
      <4>1. g.acc \subseteq AccOf(F)
        BY <1>1, <2>7 DEF AccOf
      <4> QED
        BY <2>2, <2>6, <4>1
    <3>2. ASSUME NEW j \in DOMAIN tailer.files, j # i PROVE tailer.files[j].acc \subseteq AccOf(F)
      <4>1. j \in DOMAIN F /\ F[j] = tailer.files[j]
        BY <2>7, <3>2
      <4> QED
        BY <4>1 DEF AccOf
    <3>3. AccOf(tailer.files) \subseteq delivered' \cup AccOf(F)
      <4>1. ASSUME NEW x \in AccOf(tailer.files) PROVE x \in delivered' \cup AccOf(F)
        <5>1. PICK j \in DOMAIN tailer.files : x \in tailer.files[j].acc
          BY DEF AccOf
        <5> QED
          BY <3>1, <3>2, <5>1
      <4> QED
        BY <4>1
    <3>4. delivered \subseteq delivered'
      BY <2>2
    <3> QED
      BY <3>1, <3>3, <3>4 DEF Good
  <2>10. FileInv(g, i, data, delivered' \cup AccOf(F), overwritten, cells)
    <3>1. /\ data \in [Inodes -> Seq(Nat)] /\ OneHistory(data) /\ Stamped(data[i], cells)
      BY DEF SkipInv, DataInv
    <3> DEFINE G2 == delivered' \cup AccOf(F)
    <3>2. Good \subseteq G2 /\ {g.seen[k] : k \in (Len(f.seen) - f.pend + 1)..(Len(g.seen) - g.pend)} \subseteq G2
      BY <2>3, <2>6, <2>9
    <3> HIDE DEF G2
    <3>3. FileInv(g, i, data, G2, overwritten, cells)
      BY <1>2, <2>3, <2>6, <3>1, <3>2, ReadKeeps
    <3> QED
      BY <3>3 DEF G2
  <2>11. f.acc \subseteq delivered' \cup g.acc /\ delivered \subseteq delivered'
    BY <2>2, <2>6
  <2>12. Len(g.seen) <= Len(data[i])
    BY <2>4, <2>6
  <2> QED
    BY <1>3, <2>2, <2>7, <2>8, <2>10, <2>11, <2>12
<1> QED
  BY <1>1, <1>4, <1>5

Moves(d, d2, t, disk0, D, G, ov, ov2, N, N2) ==
  /\ d \in [Inodes -> Seq(Nat)] /\ d2 \in [Inodes -> Seq(Nat)] /\ N \in Nat /\ N2 \in Nat
  /\ TailInv(t, d, D, G, ov, N) /\ ResumeInv(disk0, d, D, N)
  /\ \A i \in Inodes : Stamped(d[i], N)
  /\ OneHistory(d) /\ Came(d, d2, N)
  /\ N <= N2 /\ ov \subseteq ov2 /\ Changed(t.files, d, d2, ov2, N)

\* DataKeeps, its premises under one name.
LEMMA MovesKeep ==
  ASSUME NEW d, NEW d2, NEW t, NEW disk0, NEW D, NEW G, NEW ov, NEW ov2, NEW N, NEW N2,
         Moves(d, d2, t, disk0, D, G, ov, ov2, N, N2)
  PROVE  TailInv(t, d2, D, G, ov2, N2) /\ ResumeInv(disk0, d2, D, N2)
<1>1. /\ d \in [Inodes -> Seq(Nat)] /\ d2 \in [Inodes -> Seq(Nat)] /\ N \in Nat /\ N2 \in Nat
      /\ TailInv(t, d, D, G, ov, N) /\ ResumeInv(disk0, d, D, N)
      /\ \A i \in Inodes : Stamped(d[i], N)
      /\ OneHistory(d) /\ Came(d, d2, N)
      /\ N <= N2 /\ ov \subseteq ov2 /\ Changed(t.files, d, d2, ov2, N)
  BY DEF Moves
<1> QED
  BY <1>1, DataKeeps, Zenon

\* A step of the writer or of the rotator leaves the driver alone.
LEMMA WorldStep ==
  ASSUME SkipInv, UNCHANGED <<phase, names, tailer, disk, delivered>>,
         data' \in [Inodes -> Seq(Nat)], cells' \in Nat, cells <= cells',
         \A i \in Inodes : Stamped(data'[i], cells'),
         Came(data, data', cells), overwritten \subseteq overwritten',
         Changed(tailer.files, data, data', overwritten', cells), DirInv'
  PROVE  SkipInv'
<1>1. /\ data \in [Inodes -> Seq(Nat)] /\ cells \in Nat /\ OneHistory(data)
      /\ \A i \in Inodes : Stamped(data[i], cells)
      /\ TailInv(tailer, data, delivered, Good, overwritten, cells)
      /\ ResumeInv(disk, data, delivered, cells)
  BY DEF SkipInv, DataInv, Good
<1> DEFINE d2 == data'  N2 == cells'  ov2 == overwritten'
<1>2. /\ d2 \in [Inodes -> Seq(Nat)] /\ N2 \in Nat /\ cells <= N2 /\ overwritten \subseteq ov2
      /\ Came(data, d2, cells) /\ Changed(tailer.files, data, d2, ov2, cells)
  OBVIOUS
<1> HIDE DEF d2, N2, ov2
<1>3. OneHistory(d2)
  BY <1>1, <1>2, CameKeeps
<1>4. TailInv(tailer, d2, delivered, Good, ov2, N2) /\ ResumeInv(disk, d2, delivered, N2)
  <2>1. Moves(data, d2, tailer, disk, delivered, Good, overwritten, ov2, cells, N2)
    BY <1>1, <1>2 DEF Moves
  <2> QED
    BY <2>1, MovesKeep
<1>5. DataInv'
  BY <1>3 DEF DataInv, d2
<1> QED
  BY <1>4, <1>5 DEF SkipInv, Good, d2, N2, ov2

\* Files a step leaves alone, or empties, hold nothing new.
LEMMA CameSame ==
  ASSUME NEW d \in [Inodes -> Seq(Nat)], NEW d2 \in [Inodes -> Seq(Nat)], NEW N, NEW w \in Inodes,
         \A i \in Inodes : d2[i] = d[i] \/ d2[i] = <<>>
  PROVE  Came(d, d2, N)
<1>1. ASSUME NEW i \in Inodes, NEW k \in 1..Len(d2[i])
      PROVE  k <= Len(d[i]) /\ \A m \in 1..k : d2[i][m] = d[i][m]
  <2>1. CASE d2[i] = d[i]
    <3>1. d[i] \in Seq(Nat)
      OBVIOUS
    <3> QED
      BY <2>1, <3>1
  <2>2. CASE d2[i] = <<>>
    BY <2>2
  <2> QED
    BY <2>1, <2>2
<1> QED
  BY <1>1 DEF Came

\* A file one cell longer, by the next cell or by the next one of a file it copies.
LEMMA CameAppend ==
  ASSUME NEW d \in [Inodes -> Seq(Nat)], NEW d2 \in [Inodes -> Seq(Nat)], NEW N, NEW w \in Inodes,
         NEW c \in Nat, d2[w] = Append(d[w], c), \A i \in Inodes \ {w} : d2[i] = d[i],
         \/ c = N + 1
         \/ \E j \in Inodes : Begins(d[w], d[j]) /\ Len(d[w]) < Len(d[j]) /\ c = d[j][Len(d[w]) + 1]
  PROVE  Came(d, d2, N)
<1>1. /\ d[w] \in Seq(Nat) /\ Len(d[w]) \in Nat /\ Len(d2[w]) = Len(d[w]) + 1
      /\ \A k \in 1..Len(d[w]) : d2[w][k] = d[w][k]
      /\ d2[w][Len(d[w]) + 1] = c
  BY AppendFacts
<1>2. ASSUME NEW i \in Inodes \ {w}, NEW k \in 1..Len(d2[i])
      PROVE  k <= Len(d[i]) /\ \A m \in 1..k : d2[i][m] = d[i][m]
  BY <1>2
<1>3. CASE c = N + 1
  <2>1. ASSUME NEW k \in 1..Len(d2[w])
        PROVE  \/ k <= Len(d[w]) /\ \A m \in 1..k : d2[w][m] = d[w][m]
               \/ k = Len(d2[w]) /\ d2[w][k] = N + 1
    BY <1>1, <1>3
  <2>2. ASSUME NEW i \in Inodes
        PROVE  \E j \in Inodes : \A k \in 1..Len(d2[i]) :
                 \/ k <= Len(d[j]) /\ \A m \in 1..k : d2[i][m] = d[j][m]
                 \/ i = w /\ k = Len(d2[i]) /\ d2[i][k] = N + 1
    <3>1. \A k \in 1..Len(d2[i]) :
                 \/ k <= Len(d[i]) /\ \A m \in 1..k : d2[i][m] = d[i][m]
                 \/ i = w /\ k = Len(d2[i]) /\ d2[i][k] = N + 1
      <4>1. CASE i = w
        BY <2>1, <4>1
      <4>2. CASE i # w
        BY <1>2, <4>2
      <4> QED
        BY <4>1, <4>2
    <3> QED
      BY <3>1
  <2> QED
    BY <2>2 DEF Came
<1>4. CASE \E j \in Inodes : Begins(d[w], d[j]) /\ Len(d[w]) < Len(d[j]) /\ c = d[j][Len(d[w]) + 1]
  <2>1. PICK j \in Inodes : Begins(d[w], d[j]) /\ Len(d[w]) < Len(d[j]) /\ c = d[j][Len(d[w]) + 1]
    BY <1>4
  <2>2. ASSUME NEW m \in 1..Len(d2[w]) PROVE m <= Len(d[j]) /\ d2[w][m] = d[j][m]
    <3>0. d[j] \in Seq(Nat) /\ Len(d[j]) \in Nat
      OBVIOUS
    <3>1. CASE m \in 1..Len(d[w])
      BY <1>1, <2>1, <3>0, <3>1 DEF Begins
    <3>2. CASE m = Len(d[w]) + 1
      BY <1>1, <2>1, <3>0, <3>2
    <3> QED
      BY <1>1, <3>1, <3>2
  <2>3. ASSUME NEW k \in 1..Len(d2[w])
        PROVE  k <= Len(d[j]) /\ \A m \in 1..k : d2[w][m] = d[j][m]
    <3>1. \A m \in 1..k : m \in 1..Len(d2[w])
      BY <1>1
    <3> QED
      BY <2>2, <3>1
  <2>4. ASSUME NEW i \in Inodes
        PROVE  \E l \in Inodes : \A k \in 1..Len(d2[i]) :
                 \/ k <= Len(d[l]) /\ \A m \in 1..k : d2[i][m] = d[l][m]
                 \/ i = w /\ k = Len(d2[i]) /\ d2[i][k] = N + 1
    <3>1. CASE i = w
      <4>1. \A k \in 1..Len(d2[i]) : k <= Len(d[j]) /\ \A m \in 1..k : d2[i][m] = d[j][m]
        BY <2>3, <3>1
      <4> QED
        BY <2>1, <4>1
    <3>2. CASE i # w
      <4>1. \A k \in 1..Len(d2[i]) : k <= Len(d[i]) /\ \A m \in 1..k : d2[i][m] = d[i][m]
        BY <1>2, <3>2
      <4> QED
        BY <4>1
    <3> QED
      BY <3>1, <3>2
  <2> QED
    BY <2>4 DEF Came
<1> QED
  BY <1>3, <1>4

\* The writer adds the next cell, which no position covers unless the reader is past it.
LEMMA SkipWrite ==
  ASSUME SkipInv, Write
  PROVE  SkipInv'
<1>1. /\ cells' = cells + 1 /\ data' = [data EXCEPT ![writer] = Append(@, cells + 1)]
      /\ overwritten' = IF /\ writer \in DOMAIN tailer.files
                           /\ Len(data[writer]) < Len(tailer.files[writer].seen)
                        THEN overwritten \cup {cells + 1} ELSE overwritten
      /\ UNCHANGED <<dir, writer, copy, phase, names, tailer, disk, delivered>>
  BY DEF Write, Tailed
<1>2. /\ data \in [Inodes -> Seq(Nat)] /\ cells \in Nat /\ writer \in Inodes /\ DirInv
      /\ \A i \in Inodes : Stamped(data[i], cells)
      /\ TailInv(tailer, data, delivered, Good, overwritten, cells)
  BY DEF SkipInv, DataInv, DirInv, Good
<1>3. /\ data'[writer] = Append(data[writer], cells + 1)
      /\ \A i \in Inodes \ {writer} : data'[i] = data[i]
      /\ data' \in [Inodes -> Seq(Nat)] /\ cells' \in Nat /\ cells <= cells' /\ cells + 1 \in Nat
  BY <1>1, <1>2
<1>4. ASSUME NEW i \in Inodes PROVE Stamped(data'[i], cells')
  <2>0. data[i] \in Seq(Nat) /\ \A k \in 1..Len(data[i]) : data[i][k] \in Nat /\ data[i][k] <= cells
    BY <1>2 DEF Stamped
  <2>1. CASE i # writer
    BY <1>1, <1>2, <1>3, <2>0, <2>1 DEF Stamped
  <2>2. CASE i = writer
    <3>1. /\ data'[i] \in Seq(Nat) /\ Len(data'[i]) = Len(data[i]) + 1
          /\ \A k \in 1..Len(data[i]) : data'[i][k] = data[i][k]
          /\ data'[i][Len(data[i]) + 1] = cells + 1
      <4>1. data[i] \in Seq(Nat) /\ cells + 1 \in Nat /\ data'[i] = Append(data[i], cells + 1)
        BY <1>3, <2>0, <2>2
      <4> QED
        BY <4>1, AppendFacts
    <3>2. ASSUME NEW k \in 1..Len(data'[i]) PROVE data'[i][k] <= cells'
      <4>1. CASE k \in 1..Len(data[i])
        BY <1>1, <1>2, <2>0, <3>1, <4>1
      <4>2. CASE k = Len(data[i]) + 1
        BY <1>1, <1>2, <3>1, <4>2
      <4> QED
        BY <2>0, <3>1, <4>1, <4>2
    <3> QED
      BY <3>1, <3>2 DEF Stamped
  <2> QED
    BY <2>1, <2>2
<1>5. Came(data, data', cells)
  BY <1>2, <1>3, CameAppend
<1>6. Changed(tailer.files, data, data', overwritten', cells)
  <2>1. ASSUME NEW i \in DOMAIN tailer.files, i = writer
        PROVE  /\ Len(data[i]) < Len(tailer.files[i].seen) => cells + 1 \in overwritten'
               /\ tailer.files[i].seen # <<>> => cells + 1 # tailer.files[i].seen[1]
    <3>1. Len(data[i]) < Len(tailer.files[i].seen) => cells + 1 \in overwritten'
      BY <1>1, <2>1
    <3> DEFINE s == tailer.files[i].seen
    <3>2. Stamped(s, cells)
      BY <1>2 DEF TailInv, FilesInv, FileInv
    <3> HIDE DEF s
    <3>3. s # <<>> => s[1] \in Nat /\ s[1] <= cells
      BY <3>2 DEF Stamped
    <3>4. s # <<>> => cells + 1 # s[1]
      BY <1>2, <3>3
    <3> QED
      BY <3>1, <3>4 DEF s
  <2>2. \A i \in DOMAIN tailer.files : i \in Inodes
    BY <1>2 DEF TailInv, FilesInv
  <2> QED
    BY <1>3, <2>1, <2>2 DEF Changed
<1>7. DirInv'
  <2>1. copy' = "filling" => Begins(data'[dir'["log1"]], data'[dir'["log"]])
    <3>1. SUFFICES ASSUME copy = "filling"
                   PROVE  Begins(data'[dir["log1"]], data'[dir["log"]])
      BY <1>1
    <3>2. /\ dir["log"] = writer /\ dir["log1"] # writer /\ dir["log1"] \in Inodes
          /\ Begins(data[dir["log1"]], data[writer])
      BY <1>2, <3>1, TailAssumption DEF DirInv, Paths
    <3>3. data'[dir["log1"]] = data[dir["log1"]] /\ data[dir["log1"]] \in Seq(Nat) /\ data[writer] \in Seq(Nat)
      BY <1>2, <1>3, <3>2
    <3>4. /\ Len(data'[writer]) = Len(data[writer]) + 1
          /\ \A k \in 1..Len(data[writer]) : data'[writer][k] = data[writer][k]
      BY <1>3, <3>3, AppendFacts
    <3>5. \A k \in 1..Len(data[dir["log1"]]) : k \in 1..Len(data[writer])
      BY <3>2, <3>3 DEF Begins
    <3>6. Len(data[dir["log1"]]) <= Len(data'[writer])
      BY <3>2, <3>3, <3>4 DEF Begins
    <3> QED
      BY <3>2, <3>3, <3>4, <3>5, <3>6 DEF Begins
  <2>2. ASSUME NEW i \in DOMAIN tailer'.files, copy' = "filling", i = dir'["log1"]
        PROVE  Len(tailer'.files[i].seen) <= Len(data'[i])
    <3>1. i \in DOMAIN tailer.files /\ copy = "filling" /\ i = dir["log1"]
      BY <1>1, <2>2
    <3>2. Len(tailer.files[i].seen) <= Len(data[i]) /\ i \in Inodes /\ i # writer
      BY <1>2, <3>1, TailAssumption DEF DirInv, Paths
    <3> QED
      BY <1>1, <1>3, <3>2
  <2> QED
    BY <1>1, <1>2, <2>1, <2>2 DEF DirInv
<1>8. overwritten \subseteq overwritten'
  BY <1>1
<1> QED
  BY <1>1, <1>3, <1>4, <1>5, <1>6, <1>7, <1>8, WorldStep

\* A file is emptied, or none changes, and the directory may change.
LEMMA SkipEmptied ==
  ASSUME SkipInv, UNCHANGED <<cells, overwritten, phase, names, tailer, disk, delivered>>, DirInv',
         data' \in [Inodes -> Seq(Nat)], \A i \in Inodes : data'[i] = data[i] \/ data'[i] = <<>>
  PROVE  SkipInv'
<1>1. /\ data \in [Inodes -> Seq(Nat)] /\ cells \in Nat /\ writer \in Inodes
      /\ \A i \in Inodes : Stamped(data[i], cells)
      /\ \A i \in DOMAIN tailer.files : i \in Inodes
  BY DEF SkipInv, DataInv, DirInv, TailInv, FilesInv
<1>2. \A i \in Inodes : Stamped(data'[i], cells')
  <2>1. Stamped(<<>>, cells)
    BY NoPosition
  <2> QED
    BY <1>1, <2>1
<1>3. Came(data, data', cells)
  BY <1>1, CameSame
<1>4. Changed(tailer.files, data, data', overwritten', cells)
  BY <1>1 DEF Changed
<1>5. cells' \in Nat /\ cells <= cells' /\ overwritten \subseteq overwritten'
  BY <1>1
<1> QED
  BY <1>2, <1>3, <1>4, <1>5, WorldStep

\* A rename moves no cell.
LEMMA SkipRename ==
  ASSUME SkipInv, Rename
  PROVE  SkipInv'
<1>1. /\ dir["log"] # None /\ copy = None
      /\ dir' = [dir EXCEPT !["log1"] = dir["log"], !["log"] = None]
      /\ UNCHANGED <<data, writer, cells, copy, phase, names, tailer, disk, delivered, overwritten>>
  BY DEF Rename, Tailed
<1>2. DirInv /\ data \in [Inodes -> Seq(Nat)]
  BY DEF SkipInv, DataInv
<1>3. DirInv'
  BY <1>1, <1>2, TailAssumption DEF DirInv, Paths
<1> QED
  BY <1>1, <1>2, <1>3, SkipEmptied

\* A removal moves no cell.
LEMMA SkipUnlink ==
  ASSUME SkipInv, Unlink
  PROVE  SkipInv'
<1>1. /\ copy = None
      /\ dir' = [dir EXCEPT !["log1"] = None]
      /\ UNCHANGED <<data, writer, cells, copy, phase, names, tailer, disk, delivered, overwritten>>
  BY DEF Unlink, Tailed
<1>2. DirInv /\ data \in [Inodes -> Seq(Nat)]
  BY DEF SkipInv, DataInv
<1>3. DirInv'
  BY <1>1, <1>2, TailAssumption DEF DirInv, Paths
<1> QED
  BY <1>1, <1>2, <1>3, SkipEmptied

\* A new log on a recycled inode is empty.
LEMMA SkipReopen ==
  ASSUME SkipInv, NEW i \in Inodes, Reopen(i)
  PROVE  SkipInv'
<1>1. /\ dir["log"] = None /\ Fresh(i)
      /\ dir' = [dir EXCEPT !["log"] = i] /\ data' = [data EXCEPT ![i] = <<>>] /\ writer' = i
      /\ UNCHANGED <<cells, copy, phase, names, tailer, disk, delivered, overwritten>>
  BY DEF Reopen, Tailed
<1>2. DirInv /\ data \in [Inodes -> Seq(Nat)]
  BY DEF SkipInv, DataInv
<1>3. copy = None
  BY <1>1, <1>2 DEF DirInv
<1>4. i # dir["log1"] /\ i # None
  BY <1>1, TailAssumption DEF Fresh, Linked, Paths
<1>5. DirInv'
  BY <1>1, <1>2, <1>3, <1>4, TailAssumption DEF DirInv, Paths
<1>6. data' \in [Inodes -> Seq(Nat)] /\ \A j \in Inodes : data'[j] = data[j] \/ data'[j] = <<>>
  BY <1>1, <1>2
<1> QED
  BY <1>1, <1>5, <1>6, SkipEmptied

\* A copy starts empty.
LEMMA SkipCopyStart ==
  ASSUME SkipInv, NEW i \in Inodes, CopyStart(i)
  PROVE  SkipInv'
<1>1. /\ dir["log"] # None /\ dir["log1"] = None /\ copy = None /\ Fresh(i)
      /\ dir' = [dir EXCEPT !["log1"] = i] /\ data' = [data EXCEPT ![i] = <<>>] /\ copy' = "filling"
      /\ UNCHANGED <<cells, writer, phase, names, tailer, disk, delivered, overwritten>>
  BY DEF CopyStart, Tailed
<1>2. DirInv /\ data \in [Inodes -> Seq(Nat)]
  BY DEF SkipInv, DataInv
<1>3. i # dir["log"] /\ i # None /\ i \notin DOMAIN tailer.files
  BY <1>1, TailAssumption DEF Fresh, Linked, Paths
<1>4. data' \in [Inodes -> Seq(Nat)] /\ \A j \in Inodes : data'[j] = data[j] \/ data'[j] = <<>>
  BY <1>1, <1>2
<1>5. dir' \in [Paths -> Inodes \cup {None}] /\ dir'["log1"] = i /\ dir'["log"] = dir["log"]
      /\ data'[i] = <<>>
  BY <1>1, <1>2 DEF DirInv, Paths
<1>6. Begins(data'[dir'["log1"]], data'[dir'["log"]])
  <2>1. dir'["log"] \in Inodes
    BY <1>1, <1>2 DEF DirInv, Paths
  <2> QED
    BY <1>4, <1>5, <2>1 DEF Begins
<1>7. DirInv'
  BY <1>1, <1>2, <1>3, <1>5, <1>6 DEF DirInv
<1> QED
  BY <1>1, <1>4, <1>7, SkipEmptied

\* A truncated file is empty.
LEMMA SkipTruncate ==
  ASSUME SkipInv, Truncate
  PROVE  SkipInv'
<1>1. /\ copy = "filled" /\ copy' = None
      /\ data' = [data EXCEPT ![dir["log"]] = <<>>]
      /\ UNCHANGED <<dir, writer, cells, phase, names, tailer, disk, delivered, overwritten>>
  BY DEF Truncate, Tailed
<1>2. DirInv /\ data \in [Inodes -> Seq(Nat)]
  BY DEF SkipInv, DataInv
<1>a. <<>> \in Seq(Nat) /\ dir["log"] \in Inodes
  BY <1>1, <1>2, TailAssumption DEF DirInv, Paths
<1>b. ASSUME NEW j \in Inodes PROVE data'[j] = data[j] \/ data'[j] = <<>>
  BY <1>1, <1>2, <1>a
<1>3. data' \in [Inodes -> Seq(Nat)] /\ \A j \in Inodes : data'[j] = data[j] \/ data'[j] = <<>>
  BY <1>1, <1>2, <1>a, <1>b
<1>4. DirInv'
  BY <1>1, <1>2, TailAssumption DEF DirInv
<1> QED
  BY <1>1, <1>3, <1>4, SkipEmptied

\* A copy continues as the log it is a copy of.
LEMMA SkipCopyMore ==
  ASSUME SkipInv, CopyMore
  PROVE  SkipInv'
<1> DEFINE a == dir["log"]  b == dir["log1"]
<1>1. /\ copy = "filling"
      /\ \/ /\ Len(data[b]) < Len(data[a])
            /\ data' = [data EXCEPT ![b] = Append(@, data[a][Len(data[b]) + 1])] /\ copy' = copy
         \/ copy' = "filled" /\ data' = data
      /\ UNCHANGED <<dir, writer, cells, phase, names, tailer, disk, delivered, overwritten>>
  BY DEF CopyMore, Tailed
<1>2. /\ DirInv /\ data \in [Inodes -> Seq(Nat)] /\ cells \in Nat
      /\ \A i \in Inodes : Stamped(data[i], cells)
      /\ \A i \in DOMAIN tailer.files : i \in Inodes
  BY DEF SkipInv, DataInv, TailInv, FilesInv
<1>3. /\ a \in Inodes /\ b \in Inodes /\ a # b /\ Begins(data[b], data[a])
      /\ \A i \in DOMAIN tailer.files : i = b => Len(tailer.files[i].seen) <= Len(data[i])
  BY <1>1, <1>2, TailAssumption DEF DirInv, Paths
<1>4. CASE copy' = "filled" /\ data' = data
  <2>1. DirInv'
    BY <1>1, <1>2, <1>4, TailAssumption DEF DirInv
  <2> QED
    BY <1>1, <1>2, <1>4, <2>1, SkipEmptied
<1>5. CASE /\ Len(data[b]) < Len(data[a]) /\ copy' = copy
           /\ data' = [data EXCEPT ![b] = Append(@, data[a][Len(data[b]) + 1])]
  <2> DEFINE c == data[a][Len(data[b]) + 1]
  <2>0. data[a] \in Seq(Nat) /\ data[b] \in Seq(Nat)
    BY <1>2, <1>3
  <2>1. c \in Nat /\ c <= cells
    <3>1. Len(data[b]) + 1 \in 1..Len(data[a])
      BY <1>5, <2>0
    <3> QED
      BY <1>2, <1>3, <2>0, <3>1 DEF Stamped
  <2>2. data' = [data EXCEPT ![b] = Append(data[b], c)]
    BY <1>5
  <2>a. c = data[a][Len(data[b]) + 1]
    OBVIOUS
  <2> HIDE DEF c
  <2>3. /\ data'[b] = Append(data[b], c) /\ data' \in [Inodes -> Seq(Nat)]
        /\ \A i \in Inodes \ {b} : data'[i] = data[i]
    BY <1>2, <1>3, <2>0, <2>1, <2>2
  <2>4. /\ Len(data'[b]) = Len(data[b]) + 1 /\ data'[b][Len(data[b]) + 1] = c
        /\ \A k \in 1..Len(data[b]) : data'[b][k] = data[b][k]
    BY <2>0, <2>1, <2>3, AppendFacts
  <2>5. Came(data, data', cells)
    <3>1. \E j \in Inodes : Begins(data[b], data[j]) /\ Len(data[b]) < Len(data[j])
                            /\ c = data[j][Len(data[b]) + 1]
      BY <1>3, <1>5, <2>a
    <3> QED
      BY <1>2, <1>3, <2>1, <2>3, <3>1, CameAppend
  <2>6. ASSUME NEW i \in Inodes PROVE Stamped(data'[i], cells')
    <3>1. CASE i # b
      BY <1>1, <1>2, <2>3, <3>1
    <3>2. CASE i = b
      <4>1. ASSUME NEW k \in 1..Len(data'[b]) PROVE data'[b][k] <= cells
        <5>1. CASE k \in 1..Len(data[b])
          BY <1>2, <1>3, <2>4, <5>1 DEF Stamped
        <5>2. CASE k = Len(data[b]) + 1
          BY <2>1, <2>4, <5>2
        <5> QED
          BY <2>0, <2>4, <5>1, <5>2
      <4> QED
        BY <1>1, <1>3, <2>3, <3>2, <4>1 DEF Stamped
    <3> QED
      BY <3>1, <3>2
  <2>7. Changed(tailer.files, data, data', overwritten', cells)
    <3>1. ASSUME NEW i \in DOMAIN tailer.files, i = b
          PROVE  ~(Len(data[i]) < Len(tailer.files[i].seen))
                 /\ (data[i] = <<>> => tailer.files[i].seen = <<>>)
      <4> DEFINE s == tailer.files[i].seen
      <4>1. s \in Seq(Nat)
        BY DEF SkipInv, TailInv, FilesInv, FileInv, Stamped
      <4>2. Len(s) <= Len(data[i])
        BY <1>3, <3>1
      <4> HIDE DEF s
      <4>3. ~(Len(data[i]) < Len(s)) /\ (data[i] = <<>> => s = <<>>)
        BY <2>0, <3>1, <4>1, <4>2
      <4> QED
        BY <4>3 DEF s
    <3> QED
      BY <1>2, <2>1, <2>3, <3>1 DEF Changed
  <2>8. DirInv'
    <3>1. Begins(data'[b], data'[a])
      <4>1. data'[a] = data[a]
        BY <1>3, <2>3
      <4>2. ASSUME NEW k \in 1..Len(data'[b]) PROVE data'[b][k] = data[a][k]
        <5>1. CASE k \in 1..Len(data[b])
          BY <1>3, <2>4, <5>1 DEF Begins
        <5>2. CASE k = Len(data[b]) + 1
          BY <2>4, <2>a, <5>2
        <5> QED
          BY <2>0, <2>4, <5>1, <5>2
      <4>3. Len(data'[b]) <= Len(data[a])
        BY <1>5, <2>0, <2>4
      <4> QED
        BY <4>1, <4>2, <4>3 DEF Begins
    <3>2. ASSUME NEW i \in DOMAIN tailer'.files, i = dir'["log1"]
          PROVE  Len(tailer'.files[i].seen) <= Len(data'[i])
      <4>1. i \in DOMAIN tailer.files /\ i = b /\ tailer'.files[i].seen = tailer.files[i].seen
        BY <1>1, <3>2
      <4>2. tailer.files[i].seen \in Seq(Nat)
        BY <4>1 DEF SkipInv, TailInv, FilesInv, FileInv, Stamped
      <4>3. Len(tailer.files[i].seen) <= Len(data[b])
        BY <1>3, <4>1
      <4> QED
        BY <2>0, <2>4, <4>1, <4>2, <4>3
    <3> QED
      BY <1>1, <1>2, <1>5, <3>1, <3>2 DEF DirInv
  <2>9. cells' \in Nat /\ cells <= cells' /\ overwritten \subseteq overwritten'
    BY <1>1, <1>2
  <2> QED
    BY <1>1, <2>3, <2>5, <2>6, <2>7, <2>8, <2>9, WorldStep
<1> QED
  BY <1>1, <1>4, <1>5

\* A scan, whose listing worked or failed (scan, keep_unlisted).
LEMMA SkipScans ==
  ASSUME SkipInv, Scan \/ ScanFails
  PROVE  SkipInv'
<1>1. CASE Scan
  <2>1. /\ names # None /\ tailer' = Scanned(tailer, Looked, TRUE, phase = "bind")
        /\ names' = None /\ phase' = "run" /\ UNCHANGED <<env, disk, delivered, overwritten>>
    BY <1>1 DEF Scan, Looked
  <2>2. FoundOK(Looked)
    BY <2>1, LookedFacts DEF SkipInv
  <2> QED
    BY <2>1, <2>2, SkipScan
<1>2. CASE ScanFails
  <2>1. /\ tailer' = Scanned(tailer, <<>>, FALSE, phase = "bind")
        /\ names' = None /\ phase' = "run" /\ UNCHANGED <<env, disk, delivered, overwritten>>
    BY <1>2 DEF ScanFails, Idle, ghosts
  <2> QED
    BY <2>1, NothingFound, SkipScan
<1> QED
  BY <1>1, <1>2

\* Before the first write there is nothing to skip.
LEMMA SkipInit ==
  ASSUME Init
  PROVE  SkipInv
<1>1. PICK i \in Inodes : dir = [p \in Paths |-> IF p = "log" THEN i ELSE None] /\ writer = i
  BY DEF Init
<1>2. /\ data = [j \in Inodes |-> <<>>] /\ cells = 0 /\ copy = None
      /\ phase = "down" /\ names = None /\ tailer = Closed /\ disk = <<>>
  BY DEF Init
<1>3. <<>> \in Seq(Nat) /\ Len(<<>>) = 0 /\ DOMAIN <<>> = {}
  OBVIOUS
<1>4. DataInv
  <2>1. \A j \in Inodes : data[j] = <<>>
    BY <1>2
  <2>2. \A j \in Inodes : Stamped(data[j], cells)
    BY <2>1, NoPosition
  <2>3. OneHistory(data)
    BY <1>3, <2>1 DEF OneHistory
  <2>4. data \in [Inodes -> Seq(Nat)] /\ cells \in Nat
    BY <1>2, <1>3
  <2> QED
    BY <2>2, <2>3, <2>4 DEF DataInv
<1>5. Record(tailer) /\ tailer.files = <<>> /\ tailer.resume = <<>> /\ tailer.truncations = {}
  BY <1>2 DEF Record, Closed
<1>6. DirInv
  BY <1>1, <1>2, <1>3, <1>5, TailAssumption DEF DirInv, Paths
<1>7. /\ TailInv(tailer, data, delivered, delivered \cup AccOf(tailer.files), overwritten, cells)
      /\ ResumeInv(disk, data, delivered, cells)
  BY <1>2, <1>3, <1>5 DEF TailInv, FilesInv, ResumeInv, HeldInv
<1> QED
  BY <1>2, <1>4, <1>6, <1>7 DEF SkipInv

\* Every step of the driver, of the writer and of the rotator.
LEMMA SkipNext ==
  ASSUME SkipInv, [Next]_vars
  PROVE  SkipInv'
<1>1. CASE UNCHANGED vars
  BY <1>1 DEF vars, env, ghosts, SkipInv, DirInv, DataInv
<1>2. CASE ReadDir \/ Scan \/ ScanFails \/ FlushAll \/ Checkpoint \/ Shutdown \/ Crash \/ Bind
  BY <1>2, SkipReadDir, SkipScans, SkipFlush, SkipShutdown, SkipCrash, SkipBind
<1>3. CASE \E i \in Inodes : DataWake(i) \/ Read(i) \/ Reap(i) \/ Reopen(i) \/ CopyStart(i)
  BY <1>3, SkipDataWake, SkipRead, SkipReap, SkipReopen, SkipCopyStart
<1>4. CASE Write \/ Rename \/ Unlink \/ CopyMore \/ Truncate
  BY <1>4, SkipWrite, SkipRename, SkipUnlink, SkipCopyMore, SkipTruncate
<1> QED
  BY <1>1, <1>2, <1>3, <1>4 DEF Next

\* SkipInv holds of every state the tail driver reaches: the directory and the files are
\* of one history, and every position the driver keeps, in a tracked file, a checkpoint
\* entry, a held truncation or on disk, covers cells of that history that someone took.
THEOREM SkipInductive == Spec => []SkipInv
BY SkipInit, SkipNext, PTL DEF Spec

\* NothingSkipped, for any files, sizes, chunk and schedule of rotations, copies,
\* truncations, recycled inodes, claims, failed listings, crashes and restarts.
THEOREM NothingIsSkipped == Spec => []NothingSkipped
<1>1. SkipInv => NothingSkipped
  BY SkipImplies
<1> QED
  BY <1>1, SkipInductive, PTL

-----------------------------------------------------------------------------
(* Nothing is delivered twice: what a step delivers.                       *)

\* The cells of S are of the files in T, up to n[j] in file j, and new to the consumers.
Yields(S, T, n, d, D) ==
  \A x \in S : x \notin D /\ \E j \in T : \E k \in 1..Len(d[j]) : k <= n[j] /\ x = d[j][k]

\* Nothing of file j is in S.
Apart(S, j, d) == \A k \in 1..Len(d[j]) : d[j][k] \notin S

\* What is delivered of some files is new, and of no other file.
LEMMA YieldsFacts ==
  ASSUME NEW d, Distinct(d), NEW T \in SUBSET Inodes, NEW n, NEW S, NEW D, Yields(S, T, n, d, D)
  PROVE  /\ S \cap D = {}
         /\ \A j \in Inodes \ T : Apart(S, j, d)
         /\ \A j \in T : \A k \in 1..Len(d[j]) : d[j][k] \in S => k <= n[j]
<1>1. S \cap D = {}
  BY DEF Yields
<1>2. ASSUME NEW j \in Inodes, NEW k \in 1..Len(d[j]), d[j][k] \in S
      PROVE  j \in T /\ k <= n[j]
  <2>1. PICK i \in T : \E m \in 1..Len(d[i]) : m <= n[i] /\ d[j][k] = d[i][m]
    BY <1>2 DEF Yields
  <2>2. PICK m \in 1..Len(d[i]) : m <= n[i] /\ d[j][k] = d[i][m]
    BY <2>1
  <2>3. i = j /\ m = k
    BY <2>2 DEF Distinct
  <2> QED
    BY <2>1, <2>2, <2>3
<1> QED
  BY <1>1, <1>2 DEF Apart

\* A delivery is nothing to the files it has nothing of.
LEMMA ApartKeeps ==
  ASSUME NEW d, NEW j, NEW S, NEW D, Apart(S, j, d)
  PROVE  /\ \A f : OnceFile(f, d[j], D) => OnceFile(f, d[j], D \cup S)
         /\ \A e : OnceEntry(e, d[j], D) => OnceEntry(e, d[j], D \cup S)
         /\ Untold(j, d, D) => Untold(j, d, D \cup S)
<1>1. \A k \in 1..Len(d[j]) : d[j][k] \in D \cup S <=> d[j][k] \in D
  BY DEF Apart
<1>2. ASSUME NEW f, OnceFile(f, d[j], D) PROVE OnceFile(f, d[j], D \cup S)
  BY <1>1, <1>2 DEF OnceFile
<1>3. ASSUME NEW e, OnceEntry(e, d[j], D) PROVE OnceEntry(e, d[j], D \cup S)
  <2>1. CASE /\ Begins(e.before, d[j]) /\ Begins(e.head, d[j])
             /\ \A k \in 1..Len(d[j]) : d[j][k] \in D => k <= Len(e.before)
    BY <1>1, <2>1 DEF OnceEntry
  <2>2. CASE \A k \in 1..Len(d[j]) : d[j][k] \notin D \cup ToSet(e.before) \cup ToSet(e.head)
    <3>1. \A k \in 1..Len(d[j]) : d[j][k] \notin (D \cup S) \cup ToSet(e.before) \cup ToSet(e.head)
      BY <1>1, <2>2
    <3> QED
      BY <3>1 DEF OnceEntry
  <2> QED
    BY <1>3, <2>1, <2>2 DEF OnceEntry
<1>4. Untold(j, d, D) => Untold(j, d, D \cup S)
  BY <1>1 DEF Untold
<1> QED
  BY <1>2, <1>3, <1>4

\* Nor to the entries of files it has nothing of.
LEMMA ApartResume ==
  ASSUME NEW d, NEW r, NEW S, NEW D, OnceResume(r, d, D), \A j \in DOMAIN r : Apart(S, j, d)
  PROVE  OnceResume(r, d, D \cup S)
<1>1. ASSUME NEW j \in DOMAIN r PROVE OnceEntry(r[j], d[j], D \cup S)
  BY ApartKeeps DEF OnceResume
<1> QED
  BY <1>1 DEF OnceResume

\* What a delivery of known files leaves of the files, by the files it is of.
Advanced(t, t2, T, d, D2) ==
  /\ t2.resume = t.resume /\ t2.truncations = t.truncations
  /\ DOMAIN t2.files \subseteq DOMAIN t.files
  /\ \A i \in DOMAIN t.files \ DOMAIN t2.files : i \notin Linked
  /\ \A i \in DOMAIN t2.files : /\ t2.files[i].state = t.files[i].state
                                /\ \/ i \in T /\ OnceFile(t2.files[i], d[i], D2)
                                   \/ i \notin T /\ t2.files[i] = t.files[i]

\* A step of the running driver that delivers.
LEMMA OnceStep ==
  ASSUME SkipInv, OnceInv, phase = "run", names = None,
         UNCHANGED <<env, phase, names, disturbed, prunedLive>>,
         NEW S, NEW T, NEW n, T \subseteq DOMAIN tailer.files,
         delivered' = delivered \cup S, twice' => twice \/ (Undisturbed /\ S \cap delivered # {}),
         Undisturbed => /\ Yields(S, T, n, data, delivered)
                        /\ Advanced(tailer, tailer', T, data, delivered')
  PROVE  OnceInv'
<1>1. /\ dir' = dir /\ data' = data /\ cells' = cells /\ copy' = copy
      /\ phase' = "run" /\ names' = None /\ (Undisturbed' <=> Undisturbed)
  BY DEF env, Undisturbed
<1>2. DOMAIN tailer.files \subseteq Inodes /\ (\A i \in Inodes : Stamped(data[i], cells))
      /\ cells \in Nat /\ dir \in [Paths -> Inodes \cup {None}]
  BY DEF SkipInv, TailInv, FilesInv, DataInv, DirInv
<1>3. CASE ~Undisturbed
  BY <1>1, <1>3 DEF OnceInv
<1>4. CASE Undisturbed
  <2>1. OnceClean /\ Distinct(data) /\ Yields(S, T, n, data, delivered)
        /\ Advanced(tailer, tailer', T, data, delivered')
    BY <1>4 DEF OnceInv, OnceClean
  <2>2. /\ S \cap delivered = {}
        /\ \A j \in Inodes \ T : Apart(S, j, data)
    BY <1>2, <2>1, YieldsFacts
  <2>3. ~twice'
    BY <2>2 DEF OnceInv
  <2>4. \A c \in delivered' : c \in Nat /\ c <= cells'
    <3>1. ASSUME NEW x \in S PROVE x \in Nat /\ x <= cells
      <4>1. PICK j \in T : \E k \in 1..Len(data[j]) : x = data[j][k]
        BY <2>1 DEF Yields
      <4> QED
        BY <1>2, <4>1 DEF Stamped
    <3> QED
      BY <1>1, <2>1, <3>1 DEF OnceClean
  <2>5. DOMAIN tailer.files \cap DOMAIN tailer.resume = {} /\ tailer.truncations = {}
        /\ (\A i \in DOMAIN tailer.files : OnceFile(tailer.files[i], data[i], delivered))
        /\ OnceResume(tailer.resume, data, delivered)
    BY <2>1 DEF OnceClean, OnceTail
  <2>6. OnceTail(tailer', data, delivered')
    <3>1. ASSUME NEW i \in DOMAIN tailer'.files PROVE OnceFile(tailer'.files[i], data[i], delivered')
      <4>1. CASE i \in T
        BY <2>1, <4>1 DEF Advanced
      <4>2. CASE i \notin T
        <5>1. i \in DOMAIN tailer.files /\ tailer'.files[i] = tailer.files[i]
          BY <2>1, <4>2 DEF Advanced
        <5>2. Apart(S, i, data)
          BY <1>2, <2>2, <4>2, <5>1
        <5> QED
          BY <2>5, <5>1, <5>2, ApartKeeps
      <4> QED
        BY <4>1, <4>2
    <3>2. \A j \in DOMAIN tailer.resume : Apart(S, j, data)
      <4>1. \A j \in DOMAIN tailer.resume : j \in Inodes /\ j \notin T
        BY <2>5 DEF SkipInv, TailInv, ResumeInv
      <4> QED
        BY <2>2, <4>1
    <3>3. OnceResume(tailer.resume, data, delivered')
      BY <2>5, <3>2, ApartResume
    <3> QED
      BY <2>1, <2>5, <3>1, <3>3 DEF OnceTail, Advanced
  <2>7. OnceListed(tailer)'
    BY <1>1, <2>1 DEF OnceClean, OnceListed, Advanced, Linked
  <2>8. ASSUME NEW i \in Linked', i \notin DOMAIN tailer'.files, i \notin DOMAIN tailer'.resume
        PROVE  Untold(i, data', delivered')
    <3>1. i \in Linked /\ i \in Inodes
      BY <1>1, <1>2 DEF Linked
    <3>2. i \notin DOMAIN tailer.files /\ i \notin DOMAIN tailer.resume
      BY <2>1, <2>8, <3>1 DEF Advanced
    <3>3. Untold(i, data, delivered) /\ Apart(S, i, data)
      BY <2>1, <2>2, <3>1, <3>2 DEF OnceClean
    <3> QED
      BY <1>1, <3>3, ApartKeeps
  <2>9. OnceClean'
    BY <1>1, <2>1, <2>4, <2>6, <2>7, <2>8 DEF OnceClean
  <2> QED
    BY <1>1, <2>3, <2>9 DEF OnceInv
<1> QED
  BY <1>3, <1>4

-----------------------------------------------------------------------------
(* Nothing is delivered twice: the driver's steps between scans.           *)

\* x is a cell of d, of its first n, and nobody has it.
Owed(x, d, n, D) == x \notin D /\ \E k \in 1..Len(d) : k <= n /\ x = d[k]

\* What a reader accumulated, and its unterminated line, are cells of its file nobody has.
LEMMA FileYields ==
  ASSUME NEW d \in [Inodes -> Seq(Nat)], Distinct(d), NEW i \in Inodes, NEW D,
         NEW f \in File, f.pend <= Len(f.seen), OnceFile(f, d[i], D)
  PROVE  /\ \A x \in f.acc : Owed(x, d[i], Len(f.seen) - f.pend, D)
         /\ \A x \in Partial(f) : Owed(x, d[i], Len(f.seen), D)
         /\ \A x \in f.acc : Owed(x, d[i], Len(f.seen), D)
<1>1. /\ f.seen \in Seq(Nat) /\ f.pend \in Nat /\ d[i] \in Seq(Nat) /\ Begins(f.seen, d[i])
      /\ Len(f.seen) <= Len(d[i])
  BY DEF File, OnceFile, Begins
<1>2. ASSUME NEW x \in f.acc
      PROVE  Owed(x, d[i], Len(f.seen) - f.pend, D) /\ Owed(x, d[i], Len(f.seen), D)
  <2>1. PICK k \in 1..(Len(f.seen) - f.pend) : x = d[i][k]
    BY DEF OnceFile
  <2>2. k \in 1..Len(d[i]) /\ k <= Len(f.seen) - f.pend /\ k <= Len(f.seen)
    BY <1>1
  <2>3. x \notin D
    BY <2>1, <2>2 DEF OnceFile
  <2> QED
    BY <2>1, <2>2, <2>3 DEF Owed
<1>3. ASSUME NEW x \in Partial(f) PROVE Owed(x, d[i], Len(f.seen), D)
  <2>1. PICK k \in (Len(f.seen) - f.pend + 1)..Len(f.seen) : x = f.seen[k]
    BY PartialFacts
  <2>2. k \in 1..Len(d[i]) /\ k <= Len(f.seen) /\ ~(k <= Len(f.seen) - f.pend) /\ k \in 1..Len(f.seen)
    BY <1>1
  <2>3. x = d[i][k]
    BY <1>1, <2>1, <2>2 DEF Begins
  <2>4. x \notin D
    BY <2>2, <2>3 DEF OnceFile
  <2> QED
    BY <2>2, <2>3, <2>4 DEF Owed
<1> QED
  BY <1>2, <1>3

\* A read goes on where the reader stood, and its lines are new.
LEMMA ReadOnce ==
  ASSUME NEW d \in [Inodes -> Seq(Nat)], Distinct(d), NEW i \in Inodes, NEW D,
         NEW f \in File, f.pend <= Len(f.seen), OnceFile(f, d[i], D),
         NEW u, NEW p \in Nat, NEW lines, Extended(f.seen, d[i], u), p <= Len(u),
         Len(f.seen) - f.pend <= Len(u) - p,
         lines = {u[k] : k \in (Len(f.seen) - f.pend + 1)..(Len(u) - p)}
  PROVE  /\ Yields(f.acc \cup lines, {i}, [j \in {i} |-> Len(u) - p], d, D)
         /\ \A g : g.seen = u /\ g.pend = p /\ g.acc = f.acc \cup lines => OnceFile(g, d[i], D)
         /\ \A g : g.seen = u /\ g.pend = p /\ g.acc = {} => OnceFile(g, d[i], D \cup (f.acc \cup lines))
<1> DEFINE n == Len(u) - p  b == Len(f.seen) - f.pend
<1>1. /\ u \in Seq(Nat) /\ d[i] \in Seq(Nat) /\ f.seen \in Seq(Nat) /\ f.pend \in Nat
      /\ Len(u) <= Len(d[i]) /\ Len(f.seen) < Len(u)
      /\ b \in Nat /\ n \in Nat /\ b <= n /\ n <= Len(u)
  BY DEF Extended, File
<1>2. ASSUME NEW k \in 1..Len(u) PROVE u[k] = d[i][k]
  <2>1. CASE k <= Len(f.seen)
    <3>1. k \in 1..Len(f.seen) /\ Begins(f.seen, d[i])
      BY <1>1, <2>1 DEF OnceFile
    <3>2. u[k] = f.seen[k]
      BY <3>1 DEF Extended
    <3> QED
      BY <3>1, <3>2 DEF Begins
  <2>2. CASE k > Len(f.seen)
    BY <2>2 DEF Extended
  <2> QED
    BY <1>1, <2>1, <2>2
<1>3. Begins(u, d[i])
  BY <1>1, <1>2 DEF Begins
<1>5. lines = {u[k] : k \in (b + 1)..n}
  OBVIOUS
<1>6. /\ \A k \in 1..Len(d[i]) : d[i][k] \in D => k <= b /\ d[i][k] \notin f.acc
      /\ f.acc \subseteq {d[i][k] : k \in 1..b}
  BY DEF OnceFile
<1> HIDE DEF n, b
<1>4. ASSUME NEW x \in f.acc PROVE x \notin D /\ \E k \in 1..Len(d[i]) : k <= b /\ x = d[i][k]
  <2>1. PICK k \in 1..b : x = d[i][k]
    BY <1>6
  <2>2. k \in 1..Len(d[i]) /\ k <= b
    BY <1>1
  <2> QED
    BY <1>6, <2>1, <2>2
<1>7. ASSUME NEW x \in lines
      PROVE  x \notin D /\ \E k \in 1..Len(d[i]) : k <= n /\ b < k /\ x = d[i][k]
  <2>1. PICK k \in (b + 1)..n : x = u[k]
    BY <1>5
  <2>2. k \in 1..Len(u) /\ k \in 1..Len(d[i]) /\ k <= n /\ b < k
    BY <1>1
  <2>3. x = d[i][k]
    BY <1>2, <2>1, <2>2
  <2>4. ~(k <= b)
    BY <1>1, <2>2
  <2> QED
    BY <1>6, <2>2, <2>3, <2>4
<1>8. ASSUME NEW x \in f.acc \cup lines
      PROVE  x \notin D /\ \E k \in 1..Len(d[i]) : k <= n /\ x = d[i][k]
  <2>1. CASE x \in f.acc
    BY <1>1, <1>4, <2>1
  <2>2. CASE x \in lines
    BY <1>7, <2>2
  <2> QED
    BY <2>1, <2>2
<1>9. Yields(f.acc \cup lines, {i}, [j \in {i} |-> n], d, D)
  BY <1>8 DEF Yields
<1>10. \A k \in 1..Len(d[i]) : d[i][k] \in f.acc \cup lines => k <= n
  <2>1. ASSUME NEW k \in 1..Len(d[i]), d[i][k] \in f.acc \cup lines PROVE k <= n
    <3>1. PICK m \in 1..Len(d[i]) : m <= n /\ d[i][k] = d[i][m]
      BY <1>8, <2>1
    <3> QED
      BY <3>1 DEF Distinct
  <2> QED
    BY <2>1
<1>11. f.acc \cup lines \subseteq {d[i][k] : k \in 1..n}
  <2>1. ASSUME NEW x \in f.acc \cup lines PROVE x \in {d[i][k] : k \in 1..n}
    <3>1. PICK k \in 1..Len(d[i]) : k <= n /\ x = d[i][k]
      BY <1>8
    <3>2. k \in 1..n
      BY <1>1, <3>1
    <3> QED
      BY <3>1, <3>2
  <2> QED
    BY <2>1
<1>12. ASSUME NEW g, g.seen = u, g.pend = p, g.acc = f.acc \cup lines PROVE OnceFile(g, d[i], D)
  <2>1. Begins(g.seen, d[i]) /\ Len(g.seen) - g.pend = n
    BY <1>3, <1>12 DEF n
  <2>2. ASSUME NEW k \in 1..Len(d[i]), d[i][k] \in D PROVE k <= n /\ d[i][k] \notin g.acc
    <3>1. k <= b /\ k \in Nat
      BY <1>6, <2>2
    <3>2. k <= n
      BY <1>1, <3>1
    <3> QED
      BY <1>8, <1>12, <2>2, <3>2
  <2> QED
    BY <1>11, <1>12, <2>1, <2>2 DEF OnceFile
<1>13. ASSUME NEW g, g.seen = u, g.pend = p, g.acc = {}
       PROVE  OnceFile(g, d[i], D \cup (f.acc \cup lines))
  <2>1. Begins(g.seen, d[i]) /\ Len(g.seen) - g.pend = n
    BY <1>3, <1>13 DEF n
  <2>2. ASSUME NEW k \in 1..Len(d[i]), d[i][k] \in D \cup (f.acc \cup lines)
        PROVE  k <= n /\ d[i][k] \notin g.acc
    <3>1. CASE d[i][k] \in D
      <4>1. k <= b /\ k \in Nat
        BY <1>6, <3>1
      <4> QED
        BY <1>1, <1>13, <4>1
    <3>2. CASE d[i][k] \in f.acc \cup lines
      BY <1>10, <1>13, <3>2
    <3> QED
      BY <2>2, <3>1, <3>2
  <2> QED
    BY <1>13, <2>1, <2>2 DEF OnceFile
<1> QED
  BY <1>9, <1>12, <1>13 DEF n

\* A read delivers nothing again.
LEMMA OnceRead ==
  ASSUME SkipInv, OnceInv, NEW i \in Inodes, Read(i)
  PROVE  OnceInv'
<1>1. /\ phase = "run" /\ names = None /\ i \in DOMAIN tailer.files
      /\ UNCHANGED <<env, phase, names, disk, used>>
      /\ \/ tailer' = [tailer EXCEPT !.files[i].waits = TRUE] /\ UNCHANGED ghosts
         \/ \E u, p, lines : ReadStep(i, tailer.files[i], u, p, lines)
  BY ReadCases
<1> DEFINE f == tailer.files[i]
<1>2. /\ Record(tailer) /\ f \in File /\ f.pend <= Len(f.seen) /\ data \in [Inodes -> Seq(Nat)]
  BY <1>1 DEF SkipInv, TailInv, FilesInv, FileInv, DataInv
<1>3. Undisturbed => Distinct(data) /\ OnceFile(f, data[i], delivered)
  BY <1>1 DEF OnceInv, OnceClean, OnceTail
<1>4. ASSUME NEW g, g.state = f.state, tailer'.files = [tailer.files EXCEPT ![i] = g],
             tailer'.resume = tailer.resume, tailer'.truncations = tailer.truncations,
             Undisturbed => OnceFile(g, data[i], delivered')
      PROVE  Undisturbed => Advanced(tailer, tailer', {i}, data, delivered')
  <2>1. /\ DOMAIN tailer'.files = DOMAIN tailer.files /\ tailer'.files[i] = g
        /\ \A j \in DOMAIN tailer.files \ {i} : tailer'.files[j] = tailer.files[j]
    BY <1>1, <1>4
  <2> QED
    BY <1>4, <2>1 DEF Advanced
<1>5. CASE tailer' = [tailer EXCEPT !.files[i].waits = TRUE] /\ UNCHANGED ghosts
  <2> DEFINE g == [f EXCEPT !.waits = TRUE]
  <2>1. /\ g.seen = f.seen /\ g.pend = f.pend /\ g.acc = f.acc /\ g.state = f.state
    BY <1>2 DEF File
  <2>2. tailer' = [tailer EXCEPT !.files[i] = g]
    BY <1>5
  <2> HIDE DEF g
  <2>3. /\ tailer'.resume = tailer.resume /\ tailer'.truncations = tailer.truncations
        /\ tailer'.files = [tailer.files EXCEPT ![i] = g]
    BY <1>2, <2>2 DEF Record
  <2>4. UNCHANGED <<delivered, twice, disturbed, prunedLive>>
    BY <1>5 DEF ghosts
  <2>5. Undisturbed => OnceFile(g, data[i], delivered')
    BY <1>3, <2>1, <2>4 DEF OnceFile
  <2>6. Undisturbed => Advanced(tailer, tailer', {i}, data, delivered')
    BY <1>4, <2>1, <2>3, <2>5
  <2>7. Yields({}, {i}, [j \in {i} |-> 0], data, delivered) /\ delivered' = delivered \cup {} /\ {i} \subseteq DOMAIN tailer.files
    BY <1>1, <2>4 DEF Yields
  <2> QED
    BY <1>1, <2>4, <2>6, <2>7, OnceStep
<1>6. CASE \E u, p, lines : ReadStep(i, f, u, p, lines)
  <2>1. PICK u, p, lines : ReadStep(i, f, u, p, lines)
    BY <1>6
  <2>2. /\ Extended(f.seen, data[i], u) /\ p \in Nat /\ p <= Len(u) /\ u \in Seq(Nat)
        /\ Len(f.seen) - f.pend <= Len(u) - p
        /\ lines = {u[k] : k \in (Len(f.seen) - f.pend + 1)..(Len(u) - p)}
        /\ UNCHANGED <<disturbed, prunedLive>>
    BY <2>1 DEF ReadStep, Extended
  <2> DEFINE n == [j \in {i} |-> Len(u) - p]
  <2>3. Undisturbed =>
          /\ Yields(f.acc \cup lines, {i}, n, data, delivered)
          /\ \A g : g.seen = u /\ g.pend = p /\ g.acc = f.acc \cup lines => OnceFile(g, data[i], delivered)
          /\ \A g : g.seen = u /\ g.pend = p /\ g.acc = {} => OnceFile(g, data[i], delivered \cup (f.acc \cup lines))
    BY <1>2, <1>3, <2>2, ReadOnce
  <2> HIDE DEF n
  <2>4. ASSUME NEW acc, tailer' = [tailer EXCEPT !.files[i] = ReadFile(f, u, p, acc), !.dirty = TRUE]
        PROVE  \E g : /\ g.seen = u /\ g.pend = p /\ g.acc = acc /\ g.state = f.state
                      /\ tailer'.files = [tailer.files EXCEPT ![i] = g]
                      /\ tailer'.resume = tailer.resume /\ tailer'.truncations = tailer.truncations
    <3> DEFINE g == ReadFile(f, u, p, acc)
    <3>1. g.seen = u /\ g.pend = p /\ g.acc = acc /\ g.state = f.state
      BY <1>2 DEF ReadFile, File
    <3>2. tailer' = [tailer EXCEPT !.files[i] = g, !.dirty = TRUE]
      BY <2>4
    <3> HIDE DEF g
    <3>3. /\ tailer'.files = [tailer.files EXCEPT ![i] = g]
          /\ tailer'.resume = tailer.resume /\ tailer'.truncations = tailer.truncations
      BY <1>2, <3>2 DEF Record
    <3> QED
      BY <3>1, <3>3
  <2>5. CASE /\ tailer' = [tailer EXCEPT !.files[i] = ReadFile(f, u, p, f.acc \cup lines), !.dirty = TRUE]
             /\ UNCHANGED <<delivered, twice>>
    <3>1. PICK g : /\ g.seen = u /\ g.pend = p /\ g.acc = f.acc \cup lines /\ g.state = f.state
                   /\ tailer'.files = [tailer.files EXCEPT ![i] = g]
                   /\ tailer'.resume = tailer.resume /\ tailer'.truncations = tailer.truncations
      BY <2>4, <2>5
    <3>2. Undisturbed => OnceFile(g, data[i], delivered')
      BY <2>3, <2>5, <3>1
    <3>3. Undisturbed => Advanced(tailer, tailer', {i}, data, delivered')
      BY <1>4, <3>1, <3>2
    <3>4. Yields({}, {i}, n, data, delivered) /\ delivered' = delivered \cup {} /\ {i} \subseteq DOMAIN tailer.files
      BY <1>1, <2>5 DEF Yields
    <3> QED
      BY <1>1, <2>2, <2>5, <3>3, <3>4, OnceStep
  <2>6. CASE /\ tailer' = [tailer EXCEPT !.files[i] = ReadFile(f, u, p, {}), !.dirty = TRUE]
             /\ Deliver(f.acc \cup lines)
    <3>1. PICK g : /\ g.seen = u /\ g.pend = p /\ g.acc = {} /\ g.state = f.state
                   /\ tailer'.files = [tailer.files EXCEPT ![i] = g]
                   /\ tailer'.resume = tailer.resume /\ tailer'.truncations = tailer.truncations
      BY <2>4, <2>6
    <3> DEFINE S == f.acc \cup lines
    <3>2. /\ delivered' = delivered \cup S /\ {i} \subseteq DOMAIN tailer.files
          /\ twice' => twice \/ (Undisturbed /\ S \cap delivered # {})
      BY <1>1, <2>6 DEF Deliver, Undisturbed
    <3>3. Undisturbed => Yields(S, {i}, n, data, delivered)
      BY <2>3
    <3>4. Undisturbed => OnceFile(g, data[i], delivered')
      BY <2>3, <3>1, <3>2
    <3>5. Undisturbed => Advanced(tailer, tailer', {i}, data, delivered')
      BY <1>4, <3>1, <3>4
    <3> HIDE DEF S
    <3> QED
      BY <1>1, <2>2, <3>2, <3>3, <3>5, OnceStep
  <2> QED
    BY <2>1, <2>5, <2>6 DEF ReadStep
<1> QED
  BY <1>1, <1>5, <1>6

\* A reap delivers the rest of a file no name is left of.
LEMMA OnceReap ==
  ASSUME SkipInv, OnceInv, NEW i, Reap(i)
  PROVE  OnceInv'
<1> DEFINE f == tailer.files[i]  S == f.acc \cup Partial(f)  n == [j \in {i} |-> Len(f.seen)]
<1>1. /\ i \in DOMAIN tailer.files /\ phase = "run" /\ names = None /\ f.state = "rescanned"
      /\ tailer' = Dropped(tailer, i) /\ Deliver(S)
      /\ UNCHANGED <<env, phase, names, disk, disturbed, prunedLive>>
  BY DEF Reap, Idle, Dropped, Reapable
<1>2. /\ Record(tailer) /\ f \in File /\ f.pend <= Len(f.seen) /\ data \in [Inodes -> Seq(Nat)]
      /\ i \in Inodes
  BY <1>1 DEF SkipInv, TailInv, FilesInv, FileInv, DataInv
<1>3. /\ tailer'.resume = tailer.resume /\ tailer'.truncations = tailer.truncations
      /\ DOMAIN tailer'.files = DOMAIN tailer.files \ {i}
      /\ \A j \in DOMAIN tailer.files \ {i} : tailer'.files[j] = tailer.files[j]
  BY <1>1, <1>2, DropFields
<1>4. Undisturbed => Distinct(data) /\ OnceFile(f, data[i], delivered) /\ i \notin Linked
  BY <1>1 DEF OnceInv, OnceClean, OnceTail, OnceListed
<1>5. Undisturbed => Yields(S, {i}, n, data, delivered)
  <2>1. SUFFICES ASSUME Undisturbed, NEW x \in S
                 PROVE  Owed(x, data[i], Len(f.seen), delivered)
    BY DEF Yields, Owed
  <2> HIDE DEF f
  <2> QED
    BY <1>2, <1>4, <2>1, FileYields
<1>6. Undisturbed => Advanced(tailer, tailer', {i}, data, delivered')
  BY <1>3, <1>4 DEF Advanced
<1>7. /\ delivered' = delivered \cup S /\ {i} \subseteq DOMAIN tailer.files
      /\ twice' => twice \/ (Undisturbed /\ S \cap delivered # {})
  BY <1>1 DEF Deliver, Undisturbed
<1> HIDE DEF S, n
<1> QED
  BY <1>1, <1>5, <1>6, <1>7, OnceStep

\* The readers of a tailer hold their files' cells, each its own.
LEMMA FilesYield ==
  ASSUME SkipInv, OnceInv, Undisturbed
  PROVE  /\ Distinct(data) /\ data \in [Inodes -> Seq(Nat)] /\ DOMAIN tailer.files \subseteq Inodes
         /\ \A i \in DOMAIN tailer.files :
              /\ tailer.files[i] \in File /\ tailer.files[i].pend <= Len(tailer.files[i].seen)
              /\ OnceFile(tailer.files[i], data[i], delivered)
BY DEF SkipInv, OnceInv, OnceClean, OnceTail, TailInv, FilesInv, FileInv, DataInv

\* A flush delivers the accumulators' cells, which nobody has.
LEMMA OnceFlush ==
  ASSUME SkipInv, OnceInv, FlushAll \/ Checkpoint
  PROVE  OnceInv'
<1> DEFINE T == DOMAIN tailer.files  S == AccOf(tailer.files)
           n == [j \in T |-> Len(tailer.files[j].seen) - tailer.files[j].pend]
<1>1. /\ phase = "run" /\ names = None /\ Deliver(S)
      /\ UNCHANGED <<env, phase, names, disturbed, prunedLive>>
      /\ \/ tailer' = Emptied
         \/ tailer' = [Emptied EXCEPT !.dirty = FALSE]
  BY DEF FlushAll, Checkpoint, Idle, Accumulated, AccOf
<1>2. Record(tailer)
  BY DEF SkipInv, TailInv
<1> DEFINE e == Emptied
<1>3. /\ Record(e) /\ e.resume = tailer.resume /\ e.truncations = tailer.truncations
      /\ DOMAIN e.files = DOMAIN tailer.files
      /\ \A i \in DOMAIN tailer.files : e.files[i] = [tailer.files[i] EXCEPT !.acc = {}]
  <2> DEFINE F == [i \in DOMAIN tailer.files |-> [tailer.files[i] EXCEPT !.acc = {}]]
  <2>1. e = [tailer EXCEPT !.files = F]
    BY DEF Emptied
  <2>2. DOMAIN F = DOMAIN tailer.files /\ \A i \in DOMAIN F : F[i] = [tailer.files[i] EXCEPT !.acc = {}]
    OBVIOUS
  <2> HIDE DEF F, e
  <2>3. Record(e) /\ e.files = F /\ e.resume = tailer.resume /\ e.truncations = tailer.truncations
    BY <1>2, <2>1 DEF Record
  <2> QED
    BY <2>2, <2>3
<1> HIDE DEF e
<1>4. /\ tailer'.files = e.files /\ tailer'.resume = tailer.resume
      /\ tailer'.truncations = tailer.truncations
  BY <1>1, <1>3 DEF Record, e
<1>5. ASSUME Undisturbed, NEW x \in S
      PROVE  x \notin delivered /\ \E j \in T : \E k \in 1..Len(data[j]) : k <= n[j] /\ x = data[j][k]
  <2>1. PICK j \in T : x \in tailer.files[j].acc
    BY DEF AccOf
  <2> DEFINE f == tailer.files[j]
  <2>2. /\ Distinct(data) /\ data \in [Inodes -> Seq(Nat)] /\ j \in Inodes
        /\ f \in File /\ f.pend <= Len(f.seen) /\ OnceFile(f, data[j], delivered)
    BY <1>5, FilesYield
  <2> HIDE DEF f
  <2>3. x \in f.acc /\ n[j] = Len(f.seen) - f.pend
    BY <2>1 DEF f
  <2> HIDE DEF n
  <2>4. Owed(x, data[j], Len(f.seen) - f.pend, delivered)
    BY <2>2, <2>3, FileYields
  <2> QED
    BY <2>3, <2>4 DEF Owed
<1>6. Undisturbed => Yields(S, T, n, data, delivered)
  BY <1>5 DEF Yields
<1>7. /\ delivered' = delivered \cup S /\ T \subseteq DOMAIN tailer.files
      /\ twice' => twice \/ (Undisturbed /\ S \cap delivered # {})
  BY <1>1 DEF Deliver, Undisturbed
<1>8. ASSUME Undisturbed PROVE Advanced(tailer, tailer', T, data, delivered')
  <2>1. ASSUME NEW i \in DOMAIN tailer'.files
        PROVE  /\ tailer'.files[i].state = tailer.files[i].state /\ i \in T
               /\ OnceFile(tailer'.files[i], data[i], delivered')
    <3> DEFINE f == tailer.files[i]  g == tailer'.files[i]
    <3>1. i \in T /\ g = [f EXCEPT !.acc = {}]
      BY <1>3, <1>4
    <3>2. /\ Distinct(data) /\ data \in [Inodes -> Seq(Nat)] /\ T \subseteq Inodes
          /\ f \in File /\ f.pend <= Len(f.seen) /\ OnceFile(f, data[i], delivered)
      BY <1>8, <3>1, FilesYield
    <3>3. n[i] = Len(f.seen) - f.pend
      BY <3>1
    <3> HIDE DEF f, g, n, T, S
    <3>4. g.seen = f.seen /\ g.pend = f.pend /\ g.acc = {} /\ g.state = f.state
      BY <3>1, <3>2 DEF File
    <3>5. \A k \in 1..Len(data[i]) : data[i][k] \in S => k <= n[i]
      BY <1>6, <1>8, <3>1, <3>2, YieldsFacts
    <3>6. \A k \in 1..Len(data[i]) : data[i][k] \in delivered' => k <= Len(g.seen) - g.pend /\ data[i][k] \notin g.acc
      BY <1>7, <3>2, <3>3, <3>4, <3>5 DEF OnceFile
    <3>7. OnceFile(g, data[i], delivered')
      BY <3>2, <3>4, <3>6 DEF OnceFile
    <3> QED
      BY <3>1, <3>4, <3>7 DEF f, g
  <2>2. DOMAIN tailer'.files = DOMAIN tailer.files
    BY <1>3, <1>4
  <2> QED
    BY <1>4, <2>1, <2>2 DEF Advanced
<1> HIDE DEF S, n, T
<1> QED
  BY <1>1, <1>6, <1>7, <1>8, OnceStep

\* An entry at the end of what was delivered of a file is of that file.
LEMMA SettledEntry ==
  ASSUME NEW d \in [Inodes -> Seq(Nat)], Distinct(d), NEW i \in Inodes, NEW G, NEW ov, NEW N, NEW g,
         FileInv(g, i, d, G, ov, N), g.pend = 0, NEW D, Begins(g.seen, d[i]),
         \A k \in 1..Len(d[i]) : d[i][k] \in D => k <= Len(g.seen)
  PROVE  /\ OnceEntry(Entry(g), d[i], D)
         /\ \A j \in Inodes \ {i} : \A k \in 1..Len(d[j]) : d[j][k] \notin ToSet(Entry(g).head)
<1> DEFINE e == Entry(g)
<1>1. /\ g.seen \in Seq(Nat) /\ d[i] \in Seq(Nat) /\ Len(g.seen) \in Nat /\ Len(d[i]) \in Nat
  BY DEF FileInv, Stamped
<1>2. /\ e.before \in Seq(Nat) /\ Len(e.before) = Len(g.seen)
      /\ \A k \in 1..Len(e.before) : e.before[k] = g.seen[k]
  BY <1>1, EntryPosition
<1>3. /\ e.head \in Seq(Nat) /\ Len(e.head) <= Len(g.seen)
      /\ \A k \in 1..Len(e.head) : e.head[k] = g.seen[k]
  <2>1. e.head = HeadOf(g.seen)
    BY EntryPosition
  <2> QED
    BY <1>1, <2>1, HeadFacts
<1> HIDE DEF e
<1>4. Begins(e.before, d[i])
  BY <1>1, <1>2 DEF Begins
<1>5. ASSUME NEW m \in 1..Len(e.head) PROVE m \in 1..Len(d[i]) /\ e.head[m] = d[i][m]
  <2>1. m \in 1..Len(g.seen) /\ Len(g.seen) <= Len(d[i])
    BY <1>1, <1>3 DEF Begins
  <2> QED
    BY <1>1, <1>3, <2>1 DEF Begins
<1>6. Begins(e.head, d[i])
  <2>1. Len(g.seen) <= Len(d[i]) /\ Len(e.head) \in Nat
    BY <1>3 DEF Begins
  <2>2. Len(e.head) <= Len(d[i])
    BY <1>1, <1>3, <2>1
  <2> QED
    BY <1>5, <2>2 DEF Begins
<1>7. ASSUME NEW j \in Inodes \ {i}, NEW k \in 1..Len(d[j]), d[j][k] \in ToSet(e.head) PROVE FALSE
  <2>1. PICK m \in 1..Len(e.head) : d[j][k] = e.head[m]
    <3>1. ToSet(e.head) = {e.head[m] : m \in 1..Len(e.head)}
      BY <1>3, ToSetByIndex
    <3> QED
      BY <1>7, <3>1
  <2>2. m \in 1..Len(d[i]) /\ d[j][k] = d[i][m]
    BY <1>5, <2>1
  <2> QED
    BY <2>2 DEF Distinct
<1>8. OnceEntry(e, d[i], D)
  BY <1>2, <1>4, <1>6 DEF OnceEntry
<1> QED
  BY <1>7, <1>8 DEF e

\* A tailer that is closed knows of no file.
LEMMA ClosedOnce ==
  ASSUME NEW d, NEW D
  PROVE  OnceTail(Closed, d, D) /\ DOMAIN Closed.files = {} /\ DOMAIN Closed.resume = {}
<1>1. DOMAIN Closed.files = {} /\ DOMAIN Closed.resume = {} /\ Closed.truncations = {}
  BY ClosedFacts
<1> QED
  BY <1>1 DEF OnceTail, OnceResume

\* A clean stop delivers the rest of every file, and its entries stand right after it.
LEMMA OnceShutdown ==
  ASSUME SkipInv, OnceInv, Shutdown
  PROVE  OnceInv'
<1> DEFINE T == DOMAIN tailer.files
           S == AccOf(tailer.files) \cup UNION {Partial(tailer.files[i]) : i \in DOMAIN tailer.files}
           n == [j \in T |-> Len(tailer.files[j].seen)]
<1>1. /\ Deliver(S) /\ tailer' = Closed /\ phase = "run"
      /\ phase' = "down" /\ names' = None /\ UNCHANGED <<env, overwritten, prunedLive>>
      /\ \/ disk' = Entries(SettledOf(tailer)) /\ (disturbed' <=> disturbed)
         \/ disturbed'
  BY DEF Shutdown, Down, Idle, Accumulated, AccOf, Settled, SettledOf
<1>2. dir' = dir /\ data' = data /\ cells' = cells /\ copy' = copy /\ delivered' = delivered \cup S
  BY <1>1 DEF env, Deliver
<1>3. ASSUME Undisturbed, NEW x \in S
      PROVE  x \notin delivered /\ \E j \in T : \E k \in 1..Len(data[j]) : k <= n[j] /\ x = data[j][k]
  <2>1. PICK j \in T : x \in tailer.files[j].acc \cup Partial(tailer.files[j])
    BY DEF AccOf
  <2> DEFINE f == tailer.files[j]
  <2>2. /\ Distinct(data) /\ data \in [Inodes -> Seq(Nat)] /\ j \in Inodes
        /\ f \in File /\ f.pend <= Len(f.seen) /\ OnceFile(f, data[j], delivered)
    BY <1>3, FilesYield
  <2> HIDE DEF f
  <2>3. x \in f.acc \cup Partial(f) /\ n[j] = Len(f.seen)
    BY <2>1 DEF f
  <2> HIDE DEF n
  <2>4. Owed(x, data[j], Len(f.seen), delivered)
    BY <2>2, <2>3, FileYields
  <2> QED
    BY <2>3, <2>4 DEF Owed
<1>4. Undisturbed => Yields(S, T, n, data, delivered)
  BY <1>3 DEF Yields
<1>5. Undisturbed => Distinct(data) /\ T \in SUBSET Inodes
  BY FilesYield
<1>6. Undisturbed => /\ S \cap delivered = {}
                     /\ \A j \in Inodes \ T : Apart(S, j, data)
                     /\ \A j \in T : \A k \in 1..Len(data[j]) : data[j][k] \in S => k <= n[j]
  <2> HIDE DEF S, T, n
  <2> QED
    BY <1>4, <1>5, YieldsFacts
<1>7. ~twice'
  BY <1>1, <1>6 DEF Deliver, OnceInv, Undisturbed
<1>8. copy' # None => disturbed'
  <2>1. (disturbed' <=> disturbed) \/ disturbed'
    BY <1>1
  <2>2. copy # None => disturbed
    BY DEF OnceInv
  <2>3. copy' = copy
    BY <1>2
  <2> QED
    BY <2>1, <2>2, <2>3
<1>9. ASSUME Undisturbed' PROVE OnceClean'
  <2>1. Undisturbed /\ disk' = Entries(SettledOf(tailer)) /\ OnceClean
    BY <1>1, <1>9 DEF Undisturbed, OnceInv
  <2>2. /\ data \in [Inodes -> Seq(Nat)] /\ cells \in Nat /\ dir \in [Paths -> Inodes \cup {None}]
        /\ \A i \in Inodes : Stamped(data[i], cells)
    BY DEF SkipInv, DataInv, DirInv
  <2>3. \A c \in delivered' : c \in Nat /\ c <= cells'
    <3>1. ASSUME NEW x \in S PROVE x \in Nat /\ x <= cells
      <4>1. PICK j \in T : \E k \in 1..Len(data[j]) : x = data[j][k]
        BY <1>3, <2>1
      <4>2. j \in Inodes
        BY <1>5, <2>1
      <4> QED
        BY <2>2, <4>1, <4>2 DEF Stamped
    <3> QED
      BY <1>2, <2>1, <3>1 DEF OnceClean
  <2> DEFINE t == SettledOf(tailer)  e == Entries(t)
  <2>4. Record(tailer) /\ TailInv(t, data, delivered', delivered', overwritten, cells)
    <3>1. TailInv(tailer, data, delivered, delivered \cup AccOf(tailer.files), overwritten, cells)
      BY DEF SkipInv
    <3>2. delivered \cup AccOf(tailer.files) \cup UNION {Partial(tailer.files[i]) : i \in DOMAIN tailer.files}
            \subseteq delivered'
      BY <1>2
    <3> QED
      BY <3>1, <3>2, SettledKeeps DEF TailInv
  <2>5. /\ t.resume = tailer.resume /\ DOMAIN t.files = T
        /\ \A i \in T : t.files[i] = [tailer.files[i] EXCEPT !.pend = 0]
    BY <2>4, SettledFields
  <2> HIDE DEF t, S, T, n
  <2>6. /\ DOMAIN e = T \cup DOMAIN tailer.resume
        /\ \A i \in T : e[i] = Entry(t.files[i])
        /\ \A i \in DOMAIN tailer.resume \ T : e[i] = tailer.resume[i]
    BY <2>5 DEF Entries
  <2> HIDE DEF e
  <2>7. ASSUME NEW i \in T
        PROVE  /\ OnceEntry(e[i], data[i], delivered')
               /\ \A j \in Inodes \ {i} : \A k \in 1..Len(data[j]) : data[j][k] \notin ToSet(e[i].head)
    <3> DEFINE f == tailer.files[i]  g == t.files[i]
    <3>1. /\ Distinct(data) /\ i \in Inodes /\ f \in File /\ OnceFile(f, data[i], delivered)
          /\ n[i] = Len(f.seen)
      BY <2>1, FilesYield DEF T, n
    <3>2. FileInv(g, i, data, delivered', overwritten, cells) /\ g = [f EXCEPT !.pend = 0]
      BY <2>4, <2>5 DEF TailInv, FilesInv
    <3>3. \A k \in 1..Len(data[i]) : data[i][k] \in S => k <= n[i]
      BY <1>6, <2>1
    <3> HIDE DEF f, g
    <3>4. g.seen = f.seen /\ g.pend = 0 /\ f.seen \in Seq(Nat) /\ f.pend \in Nat /\ Begins(g.seen, data[i])
      BY <3>1, <3>2 DEF File, OnceFile
    <3>5. ASSUME NEW k \in 1..Len(data[i]), data[i][k] \in delivered' PROVE k <= Len(g.seen)
      <4>1. CASE data[i][k] \in delivered
        <5>1. k <= Len(f.seen) - f.pend /\ k \in Nat
          BY <3>1, <4>1 DEF OnceFile
        <5> QED
          BY <3>4, <5>1
      <4>2. CASE data[i][k] \in S
        BY <3>1, <3>3, <3>4, <4>2
      <4> QED
        BY <1>2, <3>5, <4>1, <4>2
    <3>6. /\ OnceEntry(Entry(g), data[i], delivered')
          /\ \A j \in Inodes \ {i} : \A k \in 1..Len(data[j]) : data[j][k] \notin ToSet(Entry(g).head)
      BY <2>2, <3>1, <3>2, <3>4, <3>5, SettledEntry
    <3> QED
      BY <2>6, <3>6 DEF g
  <2>8. ASSUME NEW i \in DOMAIN tailer.resume \ T
        PROVE  /\ OnceEntry(e[i], data[i], delivered')
               /\ \A j \in Inodes \ {i} : \A k \in 1..Len(data[j]) : data[j][k] \notin ToSet(e[i].head)
    <3>1. OnceResume(tailer.resume, data, delivered) /\ i \in Inodes
      BY <2>1 DEF OnceClean, OnceTail, SkipInv, TailInv, ResumeInv
    <3>2. Apart(S, i, data)
      BY <1>6, <2>1, <3>1
    <3>3. OnceEntry(tailer.resume[i], data[i], delivered \cup S)
      BY <3>1, <3>2, ApartKeeps DEF OnceResume
    <3> QED
      BY <1>2, <2>6, <3>1, <3>3 DEF OnceResume
  <2>9. OnceResume(disk', data', delivered')
    BY <1>2, <2>1, <2>6, <2>7, <2>8 DEF OnceResume, e, t
  <2>10. ASSUME NEW i \in Linked', i \notin DOMAIN disk' PROVE Untold(i, data', delivered')
    <3>1. i \in Linked /\ i \in Inodes /\ i \notin T /\ i \notin DOMAIN tailer.resume
      BY <1>2, <2>1, <2>2, <2>6, <2>10 DEF Linked, e, t
    <3>2. Untold(i, data, delivered) /\ Apart(S, i, data)
      BY <1>1, <1>6, <2>1, <3>1 DEF OnceClean, T
    <3> QED
      BY <1>2, <3>2, ApartKeeps
  <2>11. OnceTail(tailer', data', delivered') /\ DOMAIN tailer'.files = {}
    BY <1>1, ClosedOnce
  <2>12. OnceListed(tailer)'
    BY <1>1, <2>11 DEF OnceListed
  <2> QED
    BY <1>1, <1>2, <2>1, <2>3, <2>9, <2>10, <2>11, <2>12 DEF OnceClean
<1> QED
  BY <1>1, <1>7, <1>8, <1>9 DEF OnceInv

\* A crash is a disturbance.
LEMMA OnceCrash ==
  ASSUME SkipInv, OnceInv, Crash
  PROVE  OnceInv'
BY DEF OnceInv, Crash, Down, Undisturbed, env

\* A start knows what the clean stop knew.
LEMMA OnceBind ==
  ASSUME SkipInv, OnceInv, Bind
  PROVE  OnceInv'
<1>1. /\ tailer' = [Closed EXCEPT !.resume = disk] /\ phase = "down" /\ phase' = "bind"
      /\ UNCHANGED <<env, names, disk, delivered, twice, disturbed, prunedLive>>
  BY DEF Bind, ghosts
<1>2. DOMAIN Closed.files = {} /\ Closed.truncations = {} /\ Record(Closed)
  BY ClosedFacts
<1>3. DOMAIN tailer'.files = {} /\ tailer'.resume = disk /\ tailer'.truncations = {}
  BY <1>1, <1>2 DEF Closed, Record
<1>4. ASSUME Undisturbed' PROVE OnceClean'
  <2>1. OnceClean /\ names = None
    BY <1>1, <1>4 DEF OnceInv, Undisturbed
  <2>2. OnceTail(tailer', data', delivered')
    BY <1>1, <1>3, <2>1 DEF OnceTail, OnceClean, env
  <2>3. OnceListed(tailer)'
    BY <1>1, <1>3, <2>1 DEF OnceListed
  <2> QED
    BY <1>1, <1>3, <2>1, <2>2, <2>3 DEF OnceClean, env, Linked
<1> QED
  BY <1>1, <1>4 DEF OnceInv, env

\* No file shrinks under its reader unless it was copied and truncated.
LEMMA OnceDataWake ==
  ASSUME SkipInv, OnceInv, NEW i, DataWake(i)
  PROVE  OnceInv'
<1>1. /\ Shrunk(tailer, {i}) # {} /\ phase = "run" /\ names = None
      /\ UNCHANGED <<env, phase, names, twice, disturbed, prunedLive>>
  BY DEF DataWake, Idle, ghosts
<1>2. ASSUME Undisturbed PROVE FALSE
  <2>1. i \in DOMAIN tailer.files /\ Len(data[i]) < Len(tailer.files[i].seen)
    BY <1>1 DEF Shrunk
  <2>2. /\ OnceFile(tailer.files[i], data[i], delivered) /\ tailer.files[i] \in File /\ data[i] \in Seq(Nat)
    BY <1>2, <2>1, FilesYield
  <2>3. Len(tailer.files[i].seen) <= Len(data[i]) /\ tailer.files[i].seen \in Seq(Nat)
    BY <2>2 DEF OnceFile, Begins, File
  <2> QED
    BY <2>1, <2>2, <2>3
<1> QED
  BY <1>1, <1>2 DEF OnceInv, Undisturbed, env

\* A listing that begins now names whatever a scan has missed before.
LEMMA OnceReadDir ==
  ASSUME SkipInv, OnceInv, ReadDir
  PROVE  OnceInv'
<1>1. /\ phase # "down" /\ names = None /\ names' = {p \in Paths : dir[p] # None}
      /\ UNCHANGED <<env, phase, tailer, disk, ghosts, used>>
  BY DEF ReadDir, Idle
<1>2. /\ dir' = dir /\ data' = data /\ cells' = cells /\ copy' = copy /\ delivered' = delivered
      /\ twice' = twice /\ (Undisturbed' <=> Undisturbed)
  BY <1>1 DEF env, ghosts, Undisturbed
<1>3. ASSUME Undisturbed PROVE OnceListed(tailer)'
  <2>1. OnceListed(tailer) /\ DOMAIN tailer.files \subseteq Inodes
    BY <1>3, FilesYield DEF OnceInv, OnceClean
  <2>2. ASSUME NEW i \in DOMAIN tailer.files, tailer.files[i].state # "active", i \in Linked
        PROVE  "log1" \in names'
    BY <1>1, <2>1, <2>2, TailAssumption DEF OnceListed, Paths
  <2>3. "log" \notin names' => dir["log"] \notin DOMAIN tailer.files
    BY <1>1, <2>1, TailAssumption DEF Paths
  <2> QED
    BY <1>1, <1>2, <2>1, <2>2, <2>3 DEF OnceListed, Linked
<1>4. ASSUME Undisturbed PROVE OnceClean'
  <2>1. OnceClean /\ OnceListed(tailer)'
    BY <1>3, <1>4 DEF OnceInv
  <2>2. Linked' = Linked /\ tailer' = tailer /\ disk' = disk /\ phase' = phase
    BY <1>1, <1>2 DEF Linked
  <2> QED
    BY <1>2, <2>1, <2>2 DEF OnceClean
<1>5. ~twice /\ (copy # None => disturbed) /\ disturbed' = disturbed
  BY <1>1 DEF OnceInv, ghosts
<1> QED
  BY <1>1, <1>2, <1>4, <1>5 DEF OnceInv

-----------------------------------------------------------------------------
(* Nothing is delivered twice: the writer and the rotator.                 *)

\* d2 has d's cells, and at most the next one after them.
Grew(d, d2, N) ==
  \A k \in 1..Len(d2) : \/ k \in 1..Len(d) /\ d2[k] = d[k]
                        \/ k = Len(d) + 1 /\ d2[k] = N + 1
Goes(d, d2) == Len(d) <= Len(d2) /\ \A k \in 1..Len(d) : d2[k] = d[k]

\* The ways a file changes while nothing is copied.
LEMMA GrewFacts ==
  ASSUME NEW d \in Seq(Nat), NEW N \in Nat
  PROVE  /\ Grew(d, d, N) /\ Goes(d, d)
         /\ Grew(d, Append(d, N + 1), N) /\ Goes(d, Append(d, N + 1))
         /\ Grew(d, <<>>, N)
<1>1. Grew(d, d, N) /\ Goes(d, d)
  BY DEF Grew, Goes
<1> DEFINE a == Append(d, N + 1)
<1>2. /\ Len(a) = Len(d) + 1 /\ a[Len(d) + 1] = N + 1 /\ \A k \in 1..Len(d) : a[k] = d[k]
  <2>1. N + 1 \in Nat
    OBVIOUS
  <2> QED
    BY <2>1, AppendFacts
<1> HIDE DEF a
<1>3. Grew(d, a, N) /\ Goes(d, a)
  BY <1>2 DEF Grew, Goes
<1>4. Grew(d, <<>>, N)
  BY DEF Grew
<1> QED
  BY <1>1, <1>3, <1>4 DEF a

\* The next cell is nobody's yet, and in no position.
LEMMA GrewKeeps ==
  ASSUME NEW d \in Seq(Nat), NEW d2 \in Seq(Nat), NEW N \in Nat, NEW D, \A c \in D : c <= N,
         Grew(d, d2, N)
  PROVE  /\ \A f : f \in File /\ f.pend <= Len(f.seen) /\ OnceFile(f, d, D) /\ Goes(d, d2) => OnceFile(f, d2, D)
         /\ \A e : Stamped(e.before, N) /\ Stamped(e.head, N) /\ Goes(d, d2) /\ OnceEntry(e, d, D)
                     => OnceEntry(e, d2, D)
         /\ (\A k \in 1..Len(d) : d[k] \notin D) => \A k \in 1..Len(d2) : d2[k] \notin D
<1>0. Len(d) \in Nat /\ Len(d2) \in Nat
  OBVIOUS
<1>1. ASSUME NEW k \in 1..Len(d2), d2[k] \in D PROVE k \in 1..Len(d) /\ d2[k] = d[k]
  <2>1. ~(N + 1 <= N)
    OBVIOUS
  <2>2. d2[k] # N + 1
    BY <1>1, <2>1
  <2> QED
    BY <2>2 DEF Grew
<1>2. ASSUME NEW s, Stamped(s, N), NEW k \in 1..Len(d2), d2[k] \in ToSet(s)
      PROVE  k \in 1..Len(d) /\ d2[k] = d[k]
  <2>1. s \in Seq(Nat) /\ ToSet(s) = {s[m] : m \in 1..Len(s)}
    BY <1>2, ToSetByIndex DEF Stamped
  <2>2. PICK m \in 1..Len(s) : d2[k] = s[m]
    BY <1>2, <2>1
  <2>3. s[m] \in Nat /\ s[m] <= N
    BY <1>2, <2>1 DEF Stamped
  <2>4. d2[k] # N + 1
    BY <2>2, <2>3
  <2> QED
    BY <2>4 DEF Grew
<1>3. ASSUME NEW s \in Seq(Nat), Begins(s, d), Goes(d, d2) PROVE Begins(s, d2)
  <2>1. Len(s) <= Len(d) /\ Len(d) <= Len(d2) /\ Len(s) \in Nat
    BY <1>3 DEF Begins, Goes
  <2>2. Len(s) <= Len(d2) /\ \A k \in 1..Len(s) : k \in 1..Len(d)
    BY <1>0, <2>1
  <2> QED
    BY <1>3, <2>2 DEF Begins, Goes
<1>4. ASSUME NEW f \in File, f.pend <= Len(f.seen), OnceFile(f, d, D), Goes(d, d2) PROVE OnceFile(f, d2, D)
  <2>1. f.seen \in Seq(Nat) /\ f.pend \in Nat /\ Begins(f.seen, d)
    BY <1>4 DEF File, OnceFile
  <2>2. Begins(f.seen, d2)
    BY <1>3, <1>4, <2>1
  <2>3. \A k \in 1..Len(d2) : d2[k] \in D => k <= Len(f.seen) - f.pend /\ d2[k] \notin f.acc
    BY <1>1, <1>4 DEF OnceFile
  <2>4. f.acc \subseteq {d2[k] : k \in 1..(Len(f.seen) - f.pend)}
    <3>1. ASSUME NEW x \in f.acc PROVE x \in {d2[k] : k \in 1..(Len(f.seen) - f.pend)}
      <4>1. PICK k \in 1..(Len(f.seen) - f.pend) : x = d[k]
        BY <1>4 DEF OnceFile
      <4>2. k \in 1..Len(d)
        BY <1>0, <2>1 DEF Begins
      <4>3. x = d2[k]
        BY <1>4, <4>1, <4>2 DEF Goes
      <4> QED
        BY <4>3
    <3> QED
      BY <3>1
  <2> QED
    BY <2>2, <2>3, <2>4 DEF OnceFile
<1>5. ASSUME NEW e, Stamped(e.before, N), Stamped(e.head, N), Goes(d, d2), OnceEntry(e, d, D)
      PROVE  OnceEntry(e, d2, D)
  <2>1. CASE /\ Begins(e.before, d) /\ Begins(e.head, d)
             /\ \A k \in 1..Len(d) : d[k] \in D => k <= Len(e.before)
    <3>1. Begins(e.before, d2) /\ Begins(e.head, d2)
      BY <1>3, <1>5, <2>1 DEF Stamped
    <3>2. \A k \in 1..Len(d2) : d2[k] \in D => k <= Len(e.before)
      BY <1>1, <2>1
    <3> QED
      BY <3>1, <3>2 DEF OnceEntry
  <2>2. CASE \A k \in 1..Len(d) : d[k] \notin D \cup ToSet(e.before) \cup ToSet(e.head)
    <3>1. ASSUME NEW k \in 1..Len(d2), d2[k] \in D \cup ToSet(e.before) \cup ToSet(e.head) PROVE FALSE
      <4>1. k \in 1..Len(d) /\ d2[k] = d[k]
        BY <1>1, <1>2, <1>5, <3>1
      <4> QED
        BY <2>2, <3>1, <4>1
    <3> QED
      BY <3>1 DEF OnceEntry
  <2> QED
    BY <1>5, <2>1, <2>2 DEF OnceEntry
<1>6. (\A k \in 1..Len(d) : d[k] \notin D) => \A k \in 1..Len(d2) : d2[k] \notin D
  BY <1>1
<1> QED
  BY <1>4, <1>5, <1>6

\* d has no cell of S.
Lacks(d, S) == \A k \in 1..Len(d) : d[k] \notin S

\* The next cell is in no position, by itself.
LEMMA GrewLacks ==
  ASSUME NEW d \in Seq(Nat), NEW d2 \in Seq(Nat), NEW N \in Nat, Grew(d, d2, N),
         NEW s, Stamped(s, N), Lacks(d, ToSet(s))
  PROVE  Lacks(d2, ToSet(s))
<1> SUFFICES ASSUME NEW k \in 1..Len(d2), d2[k] \in ToSet(s) PROVE FALSE
  BY DEF Lacks
<1>1. s \in Seq(Nat) /\ ToSet(s) = {s[m] : m \in 1..Len(s)}
  BY ToSetByIndex DEF Stamped
<1>2. PICK m \in 1..Len(s) : d2[k] = s[m]
  BY <1>1
<1>3. s[m] \in Nat /\ s[m] <= N
  BY <1>1 DEF Stamped
<1>4. d2[k] # N + 1
  BY <1>2, <1>3
<1> QED
  BY <1>4 DEF Grew, Lacks

\* A step of the writer or of the rotator, while nothing is copied: files only grow, by the
\* next cell, and one that no reader has open may be emptied for another use.
LEMMA OnceWorld ==
  ASSUME SkipInv, OnceInv, data' \in [Inodes -> Seq(Nat)], cells' \in Nat, cells <= cells',
         UNCHANGED <<copy, phase, names, tailer, disk, delivered, twice, disturbed, prunedLive>>,
         dir' \in [Paths -> Inodes \cup {None}],
         Undisturbed => Distinct(data') /\ OnceListed(tailer)',
         \A i \in Inodes : /\ Grew(data[i], data'[i], cells)
                           /\ \/ Goes(data[i], data'[i])
                              \/ data'[i] = <<>> /\ i \notin DOMAIN tailer.files,
         \A i \in Linked' : i \in Linked \/ data'[i] = <<>>
  PROVE  OnceInv'
<1> DEFINE d == data  d2 == data'
<1>1. Undisturbed' <=> Undisturbed
  BY DEF Undisturbed
<1>2. ASSUME Undisturbed PROVE OnceClean'
  <2>1. OnceClean /\ Distinct(d2) /\ OnceListed(tailer)'
    BY <1>2 DEF OnceInv
  <2>2. /\ d \in [Inodes -> Seq(Nat)] /\ d2 \in [Inodes -> Seq(Nat)] /\ cells \in Nat
        /\ \A c \in delivered : c <= cells
        /\ \A i \in Inodes : Grew(d[i], d2[i], cells)
    BY <2>1 DEF SkipInv, DataInv, OnceClean
  <2>3. ASSUME NEW i \in DOMAIN tailer.files PROVE OnceFile(tailer.files[i], d2[i], delivered)
    <3>1. /\ i \in Inodes /\ tailer.files[i] \in File /\ tailer.files[i].pend <= Len(tailer.files[i].seen)
          /\ OnceFile(tailer.files[i], d[i], delivered)
      BY <1>2, FilesYield
    <3>2. Goes(d[i], d2[i]) /\ Grew(d[i], d2[i], cells) /\ d[i] \in Seq(Nat) /\ d2[i] \in Seq(Nat)
      BY <2>2, <3>1
    <3> QED
      BY <2>2, <3>1, <3>2, GrewKeeps
  <2>4. ASSUME NEW r, ResumeInv(r, data, delivered, cells), OnceResume(r, data, delivered)
        PROVE  OnceResume(r, data', delivered)
    <3>1. ASSUME NEW i \in DOMAIN r
          PROVE  /\ OnceEntry(r[i], d2[i], delivered)
                 /\ \A j \in Inodes \ {i} : \A k \in 1..Len(d2[j]) : d2[j][k] \notin ToSet(r[i].head)
      <4>1. i \in Inodes /\ Stamped(r[i].before, cells) /\ Stamped(r[i].head, cells)
        BY <2>4 DEF ResumeInv, PositionInv
      <4>2. OnceEntry(r[i], d[i], delivered)
        BY <2>4 DEF OnceResume
      <4>3. OnceEntry(r[i], d2[i], delivered)
        <5>1. CASE Goes(d[i], d2[i])
          BY <2>2, <4>1, <4>2, <5>1, GrewKeeps
        <5>2. CASE d2[i] = <<>>
          BY <5>2 DEF OnceEntry
        <5> QED
          BY <4>1, <5>1, <5>2
      <4>4. ASSUME NEW j \in Inodes \ {i}
            PROVE  \A k \in 1..Len(d2[j]) : d2[j][k] \notin ToSet(r[i].head)
        <5>1. \A k \in 1..Len(d[j]) : d[j][k] \notin ToSet(r[i].head)
          BY <2>4 DEF OnceResume
        <5>2. /\ d[j] \in Seq(Nat) /\ d2[j] \in Seq(Nat) /\ Grew(d[j], d2[j], cells)
              /\ Stamped(r[i].head, cells)
          BY <2>2, <4>1
        <5> DEFINE a == d[j]  b == d2[j]  h == r[i].head
        <5>3. Lacks(a, ToSet(h))
          BY <5>1 DEF Lacks
        <5>4. a \in Seq(Nat) /\ b \in Seq(Nat) /\ Grew(a, b, cells) /\ Stamped(h, cells)
          BY <5>2
        <5> HIDE DEF a, b, h
        <5>5. Lacks(b, ToSet(h))
          BY <2>2, <5>3, <5>4, GrewLacks
        <5> QED
          BY <5>5 DEF b, h, Lacks
      <4> QED
        BY <4>3, <4>4
    <3> QED
      BY <3>1 DEF OnceResume
  <2>5. OnceTail(tailer', data', delivered')
    <3>1. OnceTail(tailer, data, delivered) /\ ResumeInv(tailer.resume, data, delivered, cells)
      BY <2>1 DEF OnceClean, SkipInv, TailInv
    <3>2. OnceResume(tailer.resume, data', delivered)
      BY <2>4, <3>1 DEF OnceTail
    <3> QED
      BY <2>3, <3>1, <3>2 DEF OnceTail
  <2>6. ASSUME NEW i \in Inodes, Untold(i, data, delivered) PROVE Untold(i, data', delivered)
    BY <2>2, <2>6, GrewKeeps DEF Untold
  <2>7. ASSUME NEW i \in Linked', data'[i] = <<>> PROVE Untold(i, data', delivered)
    BY <2>7 DEF Untold
  <2>8. \A i \in Linked' : i \in Inodes
    BY DEF Linked
  <2>9. \A i \in Linked' : i \notin DOMAIN tailer.files /\ i \notin DOMAIN tailer.resume /\ phase # "down"
          => Untold(i, data', delivered)
    BY <2>1, <2>6, <2>7, <2>8 DEF OnceClean
  <2>10. phase = "down" => /\ OnceResume(disk, data', delivered)
                           /\ \A i \in Linked' : i \notin DOMAIN disk => Untold(i, data', delivered)
    BY <2>1, <2>4, <2>6, <2>7, <2>8 DEF OnceClean, SkipInv
  <2>11. \A c \in delivered' : c \in Nat /\ c <= cells'
    <3>1. ASSUME NEW c \in delivered PROVE c \in Nat /\ c <= cells'
      <4>1. c \in Nat /\ c <= cells
        BY <2>1 DEF OnceClean
      <4> QED
        BY <2>2, <4>1
    <3> QED
      BY <3>1
  <2> QED
    BY <2>1, <2>5, <2>9, <2>10, <2>11 DEF OnceClean
<1> QED
  BY <1>1, <1>2 DEF OnceInv

\* The writer's next cell is in no other file, at no other place.
LEMMA DistinctWrite ==
  ASSUME NEW d \in [Inodes -> Seq(Nat)], NEW d2 \in [Inodes -> Seq(Nat)], NEW N \in Nat,
         NEW w \in Inodes, Distinct(d), \A i \in Inodes : Stamped(d[i], N),
         d2[w] = Append(d[w], N + 1), \A i \in Inodes \ {w} : d2[i] = d[i]
  PROVE  Distinct(d2)
<1>1. ASSUME NEW i \in Inodes, NEW k \in 1..Len(d2[i])
      PROVE  \/ k \in 1..Len(d[i]) /\ d2[i][k] = d[i][k] /\ d2[i][k] # N + 1
             \/ i = w /\ k = Len(d[w]) + 1 /\ d2[i][k] = N + 1
  <2>0. /\ d[i] \in Seq(Nat) /\ d[w] \in Seq(Nat) /\ Len(d[i]) \in Nat
        /\ \A m \in 1..Len(d[i]) : d[i][m] \in Nat /\ d[i][m] <= N
    BY DEF Stamped
  <2>1. Grew(d[i], d2[i], N)
    <3>1. CASE i = w
      BY <2>0, <3>1, GrewFacts
    <3>2. CASE i # w
      BY <2>0, <3>2, GrewFacts
    <3> QED
      BY <3>1, <3>2
  <2>2. CASE k \in 1..Len(d[i]) /\ d2[i][k] = d[i][k]
    BY <2>0, <2>2
  <2>3. CASE k = Len(d[i]) + 1 /\ d2[i][k] = N + 1
    <3>1. i = w
      BY <2>0, <2>3
    <3> QED
      BY <2>3, <3>1
  <2> QED
    BY <2>1, <2>2, <2>3 DEF Grew
<1>2. ASSUME NEW i \in Inodes, NEW j \in Inodes, NEW k \in 1..Len(d2[i]), NEW l \in 1..Len(d2[j]),
             d2[i][k] = d2[j][l]
      PROVE  i = j /\ k = l
  <2>1. CASE d2[i][k] = N + 1
    BY <1>1, <1>2, <2>1
  <2>2. CASE d2[i][k] # N + 1
    <3>1. k \in 1..Len(d[i]) /\ d2[i][k] = d[i][k]
      BY <1>1, <2>2
    <3>2. l \in 1..Len(d[j]) /\ d2[j][l] = d[j][l]
      BY <1>1, <1>2, <2>2
    <3>3. d[i][k] = d[j][l]
      BY <1>2, <3>1, <3>2
    <3> QED
      BY <3>1, <3>2, <3>3 DEF Distinct
  <2> QED
    BY <2>1, <2>2
<1> QED
  BY <1>2 DEF Distinct

\* A write.
LEMMA OnceWrite ==
  ASSUME SkipInv, OnceInv, Write
  PROVE  OnceInv'
<1>1. /\ cells' = cells + 1 /\ data' = [data EXCEPT ![writer] = Append(@, cells + 1)]
      /\ UNCHANGED <<dir, writer, copy, phase, names, tailer, disk, delivered, twice, disturbed, prunedLive>>
  BY DEF Write, Tailed
<1>2. /\ data \in [Inodes -> Seq(Nat)] /\ cells \in Nat /\ writer \in Inodes
      /\ dir \in [Paths -> Inodes \cup {None}] /\ \A i \in Inodes : Stamped(data[i], cells)
  BY DEF SkipInv, DataInv, DirInv
<1>3. /\ data'[writer] = Append(data[writer], cells + 1)
      /\ \A i \in Inodes \ {writer} : data'[i] = data[i]
      /\ data' \in [Inodes -> Seq(Nat)] /\ cells' \in Nat /\ cells <= cells'
  BY <1>1, <1>2
<1>4. ASSUME NEW i \in Inodes PROVE Grew(data[i], data'[i], cells) /\ Goes(data[i], data'[i])
  <2>1. data[i] \in Seq(Nat)
    BY <1>2
  <2>2. CASE i = writer
    BY <1>2, <1>3, <2>1, <2>2, GrewFacts
  <2>3. CASE i # writer
    BY <1>2, <1>3, <2>1, <2>3, GrewFacts
  <2> QED
    BY <2>2, <2>3
<1>5. Undisturbed => Distinct(data')
  BY <1>2, <1>3, DistinctWrite DEF OnceInv, OnceClean
<1>6. Undisturbed => OnceListed(tailer)'
  BY <1>1 DEF OnceInv, OnceClean, OnceListed, Linked
<1>7. \A i \in Linked' : i \in Linked
  BY <1>1 DEF Linked
<1> QED
  BY <1>1, <1>2, <1>3, <1>4, <1>5, <1>6, <1>7, OnceWorld

\* A rename or a removal: names are taken away, and the log's becomes its rotation's.
LEMMA OnceRename ==
  ASSUME SkipInv, OnceInv, Rename \/ Unlink
  PROVE  OnceInv'
<1>1. /\ \/ dir["log"] # None /\ dir' = [dir EXCEPT !["log1"] = dir["log"], !["log"] = None]
         \/ dir' = [dir EXCEPT !["log1"] = None]
      /\ UNCHANGED <<data, cells, copy, phase, names, tailer, disk, delivered, twice, disturbed, prunedLive>>
  BY DEF Rename, Unlink, Tailed
<1>2. /\ data \in [Inodes -> Seq(Nat)] /\ cells \in Nat
      /\ dir \in [Paths -> Inodes \cup {None}] /\ (dir["log"] = dir["log1"] => dir["log"] = None)
  BY DEF SkipInv, DataInv, DirInv
<1>3. \A i \in Inodes : Grew(data[i], data'[i], cells) /\ Goes(data[i], data'[i])
  BY <1>1, <1>2, GrewFacts
<1>4. /\ dir' \in [Paths -> Inodes \cup {None}]
      /\ \/ dir'["log1"] = dir["log"] /\ dir'["log"] = None
         \/ dir'["log1"] = None /\ dir'["log"] = dir["log"]
  BY <1>1, <1>2 DEF Paths
<1>a. /\ Linked = {dir["log"], dir["log1"]} \ {None} /\ Linked' = {dir'["log"], dir'["log1"]} \ {None}
  BY DEF Linked, Paths
<1>5. Linked' \subseteq Linked /\ \A i \in Linked' : i = dir["log1"] => FALSE
  BY <1>2, <1>4, <1>a
<1>6. ASSUME Undisturbed PROVE OnceListed(tailer)'
  <2>1. OnceListed(tailer) /\ DOMAIN tailer.files \subseteq Inodes
    BY <1>6, FilesYield DEF OnceInv, OnceClean
  <2>2. ASSUME NEW i \in DOMAIN tailer.files, tailer.files[i].state # "active"
        PROVE  i \notin Linked'
    BY <1>5, <2>1, <2>2 DEF OnceListed
  <2>3. names # None /\ "log" \notin names => dir'["log"] \notin DOMAIN tailer.files
    BY <1>4, <2>1, TailAssumption DEF OnceListed
  <2> QED
    BY <1>1, <2>2, <2>3 DEF OnceListed
<1>7. Undisturbed => Distinct(data')
  BY <1>1 DEF OnceInv, OnceClean
<1> QED
  BY <1>1, <1>2, <1>3, <1>4, <1>5, <1>6, <1>7, OnceWorld

\* A new log, on an inode nobody has open.
LEMMA OnceReopen ==
  ASSUME SkipInv, OnceInv, NEW i \in Inodes, Reopen(i)
  PROVE  OnceInv'
<1>1. /\ dir["log"] = None /\ Fresh(i)
      /\ dir' = [dir EXCEPT !["log"] = i] /\ data' = [data EXCEPT ![i] = <<>>]
      /\ UNCHANGED <<cells, copy, phase, names, tailer, disk, delivered, twice, disturbed, prunedLive>>
  BY DEF Reopen, Tailed
<1>2. /\ data \in [Inodes -> Seq(Nat)] /\ cells \in Nat
      /\ dir \in [Paths -> Inodes \cup {None}]
  BY DEF SkipInv, DataInv, DirInv
<1>3. /\ dir' \in [Paths -> Inodes \cup {None}] /\ dir'["log"] = i /\ dir'["log1"] = dir["log1"]
      /\ i \notin DOMAIN tailer.files /\ i \notin Linked /\ i # None
  BY <1>1, <1>2, TailAssumption DEF Paths, Fresh
<1>4. /\ data' \in [Inodes -> Seq(Nat)] /\ data'[i] = <<>> /\ \A j \in Inodes \ {i} : data'[j] = data[j]
  BY <1>1, <1>2
<1>5. ASSUME NEW j \in Inodes
      PROVE  /\ Grew(data[j], data'[j], cells)
             /\ \/ Goes(data[j], data'[j])
                \/ data'[j] = <<>> /\ j \notin DOMAIN tailer.files
  <2>0. data[j] \in Seq(Nat)
    BY <1>2
  <2>1. CASE j = i
    BY <1>2, <1>3, <1>4, <2>0, <2>1, GrewFacts
  <2>2. CASE j # i
    BY <1>2, <1>4, <2>0, <2>2, GrewFacts
  <2> QED
    BY <2>1, <2>2
<1>6. Undisturbed => Distinct(data')
  <2>1. ASSUME NEW j \in Inodes, NEW k \in 1..Len(data'[j])
        PROVE  k \in 1..Len(data[j]) /\ data'[j][k] = data[j][k]
    <3>1. j # i
      BY <1>4
    <3> QED
      BY <1>4, <3>1
  <2>2. ASSUME Distinct(data) PROVE Distinct(data')
    <3>1. ASSUME NEW j \in Inodes, NEW m \in Inodes, NEW k \in 1..Len(data'[j]), NEW l \in 1..Len(data'[m]),
                 data'[j][k] = data'[m][l]
          PROVE  j = m /\ k = l
      BY <2>1, <2>2, <3>1 DEF Distinct
    <3> QED
      BY <3>1 DEF Distinct
  <2> QED
    BY <2>2 DEF OnceInv, OnceClean
<1>a. /\ Linked = {dir["log"], dir["log1"]} \ {None} /\ Linked' = {dir'["log"], dir'["log1"]} \ {None}
  BY DEF Linked, Paths
<1>7. Linked' = Linked \cup {i}
  BY <1>1, <1>3, <1>a
<1>8. ASSUME Undisturbed PROVE OnceListed(tailer)'
  <2>1. OnceListed(tailer)
    BY <1>8 DEF OnceInv, OnceClean
  <2>2. \A j \in DOMAIN tailer.files : j \in Linked' <=> j \in Linked
    BY <1>3, <1>7
  <2> QED
    BY <1>1, <1>3, <2>1, <2>2 DEF OnceListed
<1>9. \A j \in Linked' : j \in Linked \/ data'[j] = <<>>
  BY <1>4, <1>7
<1>10. cells' \in Nat /\ cells <= cells'
  BY <1>1, <1>2
<1> QED
  BY <1>1, <1>3, <1>4, <1>5, <1>6, <1>8, <1>9, <1>10, OnceWorld

\* A copy is a disturbance.
LEMMA OnceCopy ==
  ASSUME SkipInv, OnceInv, (\E i \in Inodes : CopyStart(i)) \/ CopyMore \/ Truncate
  PROVE  OnceInv'
<1>1. /\ UNCHANGED <<phase, names, tailer, twice>> /\ disturbed'
  <2>1. CASE \E i \in Inodes : CopyStart(i)
    BY <2>1 DEF CopyStart, Tailed
  <2>2. CASE CopyMore \/ Truncate
    <3>1. copy \in {"filling", "filled"} /\ UNCHANGED <<phase, names, tailer, twice, disturbed>>
      BY <2>2 DEF CopyMore, Truncate, Tailed
    <3>2. disturbed
      BY <3>1, TailAssumption DEF OnceInv
    <3> QED
      BY <3>1, <3>2
  <2> QED
    BY <2>1, <2>2
<1> QED
  BY <1>1 DEF OnceInv, Undisturbed

-----------------------------------------------------------------------------
(* Nothing is delivered twice: a scan.                                     *)

\* An inode's entry is accepted when it is of the file, and rejected when nothing of the
\* file was delivered.
LEMMA AcceptsOnce ==
  ASSUME NEW d \in [Inodes -> Seq(Nat)], NEW i \in Inodes, NEW e, NEW G, NEW N, NEW D,
         PositionInv(e.before, e.head, d, G, N), OnceEntry(e, d[i], D)
  PROVE  /\ Accepts(d[i], e) => /\ Begins(Upto(d[i], Len(e.before)), d[i])
                                /\ Len(Upto(d[i], Len(e.before))) = Len(e.before)
                                /\ \A k \in 1..Len(d[i]) : d[i][k] \in D => k <= Len(e.before)
         /\ ~Accepts(d[i], e) => Untold(i, d, D)
<1>1. e.before \in Seq(Nat) /\ e.head \in Seq(Nat) /\ d[i] \in Seq(Nat)
  BY DEF PositionInv, Stamped
<1>2. ASSUME Accepts(d[i], e)
      PROVE  /\ Begins(Upto(d[i], Len(e.before)), d[i])
             /\ Len(Upto(d[i], Len(e.before))) = Len(e.before)
             /\ \A k \in 1..Len(d[i]) : d[i][k] \in D => k <= Len(e.before)
  <2>1. Upto(d[i], Len(e.before)) = e.before /\ Begins(e.before, d[i])
    BY <1>2, SamePosition DEF Accepts
  <2>2. \A k \in 1..Len(d[i]) : d[i][k] \in D => k <= Len(e.before)
    BY DEF OnceEntry
  <2> QED
    BY <2>1, <2>2
<1>3. ASSUME ~Accepts(d[i], e) PROVE Untold(i, d, D)
  <2>1. CASE Begins(e.before, d[i]) /\ Begins(e.head, d[i])
    <3> DEFINE u == Upto(d[i], Len(e.before))
    <3>1. Len(e.before) <= Len(d[i]) /\ IsPrefix(e.head, d[i])
      BY <1>1, <2>1, PrefixFacts DEF Begins
    <3>2. Len(e.before) \in 0..Len(d[i])
      BY <1>1, <3>1
    <3>3. u \in Seq(Nat) /\ Len(u) = Len(e.before) /\ \A k \in 1..Len(e.before) : u[k] = d[i][k]
      BY <1>1, <3>2, UptoFacts
    <3> HIDE DEF u
    <3>4. \A k \in 1..Len(e.before) : u[k] = e.before[k]
      BY <2>1, <3>3 DEF Begins
    <3>5. u = e.before
      BY <1>1, <3>3, <3>4, SeqEqual
    <3>6. Accepts(d[i], e)
      BY <3>1, <3>5 DEF Accepts, u
    <3> QED
      BY <1>3, <3>6
  <2>2. CASE \A k \in 1..Len(d[i]) : d[i][k] \notin D \cup ToSet(e.before) \cup ToSet(e.head)
    BY <2>2 DEF Untold
  <2> QED
    BY <2>1, <2>2 DEF OnceEntry
<1> QED
  BY <1>2, <1>3

\* A file nothing of which was delivered is opened at its start.
LEMMA StartOnce ==
  ASSUME NEW i, NEW d, NEW D, Untold(i, d, D), NEW f, f.seen = <<>>, f.pend = 0, f.acc = {},
         d[i] \in Seq(Nat)
  PROVE  OnceFile(f, d[i], D)
BY DEF OnceFile, Untold, Begins

\* A scan's premises.
ScanOK(t, found, D, G, ov, N) ==
  /\ data \in [Inodes -> Seq(Nat)] /\ Distinct(data)
  /\ TailInv(t, data, D, G, ov, N) /\ D \subseteq G /\ FoundOK(found)
  /\ OnceTail(t, data, D)
  /\ \A i \in Found(found) : i \notin DOMAIN t.files /\ i \notin DOMAIN t.resume => Untold(i, data, D)

\* The fields of a file opened at its entry.
LEMMA OpenedAtFields ==
  ASSUME NEW t, NEW i, NEW path
  PROVE  LET f == OpenedAt(t, i, path)
             s == IF Accepts(data[i], t.resume[i]) THEN Upto(data[i], Len(t.resume[i].before)) ELSE <<>>
         IN f.seen = s /\ f.pend = 0 /\ f.acc = {} /\ f.state = "active"
<1> DEFINE s == IF Accepts(data[i], t.resume[i]) THEN Upto(data[i], Len(t.resume[i].before)) ELSE <<>>
<1>1. OpenedAt(t, i, path) = Tracked(path, s, FALSE)
  BY DEF OpenedAt
<1> HIDE DEF s
<1>2. LET f == OpenedAt(t, i, path) IN f.seen = s /\ f.pend = 0 /\ f.acc = {} /\ f.state = "active"
  BY <1>1 DEF Tracked
<1> QED
  BY <1>2 DEF s

\* open_tracked on an inode with an entry.
LEMMA ResumedOnce ==
  ASSUME NEW t, NEW found, NEW D, NEW G, NEW ov, NEW N, ScanOK(t, found, D, G, ov, N),
         NEW i \in Resumed(t, found), NEW path
  PROVE  OnceFile(OpenedAt(t, i, path), data[i], D) /\ OpenedAt(t, i, path).state = "active"
<1> DEFINE e == t.resume[i]  d == data[i]
           s == IF Accepts(d, e) THEN Upto(d, Len(e.before)) ELSE <<>>
           f == OpenedAt(t, i, path)
<1>1. i \in DOMAIN t.resume
  BY DEF Resumed
<1>2. /\ i \in Inodes /\ PositionInv(e.before, e.head, data, D, N) /\ OnceEntry(e, data[i], D)
      /\ data \in [Inodes -> Seq(Nat)]
  BY <1>1 DEF ScanOK, TailInv, ResumeInv, OnceTail, OnceResume
<1>3. f.seen = s /\ f.pend = 0 /\ f.acc = {} /\ f.state = "active"
  BY OpenedAtFields
<1>4. CASE Accepts(d, e)
  <2>1. /\ Begins(s, d) /\ Len(s) = Len(e.before)
        /\ \A k \in 1..Len(d) : d[k] \in D => k <= Len(s)
    BY <1>2, <1>4, AcceptsOnce
  <2>2. e.before \in Seq(Nat) /\ Len(s) \in Nat
    BY <1>2, <2>1 DEF PositionInv, Stamped
  <2> HIDE DEF s, f, d
  <2>3. OnceFile(f, d, D)
    BY <1>3, <2>1, <2>2 DEF OnceFile
  <2> QED
    BY <1>3, <2>3 DEF f, d
<1>5. CASE ~Accepts(d, e)
  <2>1. Untold(i, data, D) /\ s = <<>>
    BY <1>2, <1>5, AcceptsOnce
  <2> HIDE DEF s, f, d
  <2>2. data[i] \in Seq(Nat)
    BY <1>2
  <2>3. OnceFile(f, data[i], D)
    BY <1>3, <2>1, <2>2, StartOnce
  <2> QED
    BY <1>3, <2>3 DEF f
<1> QED
  BY <1>4, <1>5

\* What the first half of a scan leaves.
FirstOnce(one, t, found, listed, D) ==
  /\ Record(one) /\ one.truncations = {}
  /\ DOMAIN one.files = (DOMAIN t.files \ Untracked(t, found)) \cup Resumed(t, found)
  /\ DOMAIN one.resume = DOMAIN t.resume \ Resumed(t, found)
  /\ \A i \in DOMAIN one.resume : one.resume[i] = t.resume[i]
  /\ \A i \in DOMAIN one.files :
       /\ OnceFile(one.files[i], data[i], D)
       /\ i \in Found(found) => one.files[i].state = "active"
       /\ i \notin Found(found) => /\ i \in DOMAIN t.files
                                   /\ \/ one.files[i].state = t.files[i].state
                                      \/ /\ one.files[i].state = "draining"
                                         /\ Retires(i, found, listed) /\ t.files[i].state = "active"

\* No file shrank, so the first half only opens, rebinds and retires.
LEMMA FirstPassOnce ==
  ASSUME NEW t, NEW found, NEW listed, NEW D, NEW G, NEW ov, NEW N, ScanOK(t, found, D, G, ov, N),
         listed \/ Found(found) = {}
  PROVE  FirstOnce(FirstPass(t, found, listed), t, found, listed, D)
<1> DEFINE o == Opened(t, found, listed)
           S == DOMAIN t.files \cup Resumed(t, found)
           r == Rewound(o, S)
<1>1. Record(t) /\ t.truncations = {} /\ DOMAIN t.files \cap DOMAIN t.resume = {}
      /\ data \in [Inodes -> Seq(Nat)]
  BY DEF ScanOK, TailInv, OnceTail
<1>2. /\ Record(o) /\ o.truncations = t.truncations
      /\ DOMAIN o.files = (DOMAIN t.files \ Untracked(t, found)) \cup Resumed(t, found)
      /\ DOMAIN o.resume = DOMAIN t.resume \ Resumed(t, found)
      /\ \A i \in DOMAIN o.resume : o.resume[i] = t.resume[i]
      /\ \A i \in DOMAIN o.files :
           /\ i \in Resumed(t, found) => o.files[i] = OpenedAt(t, i, PathOf(found, i))
           /\ i \notin Resumed(t, found) /\ i \in Found(found) =>
                o.files[i] = Rebound(t.files[i], PathOf(found, i))
           /\ i \notin Resumed(t, found) /\ i \notin Found(found) =>
                o.files[i] = IF Retires(i, found, listed) THEN Retired(t.files[i]) ELSE t.files[i]
  BY <1>1, OpenedFields
<1>3. Resumed(t, found) \subseteq Found(found)
  BY DEF Resumed
<1> HIDE DEF o
<1>4. ASSUME NEW i \in DOMAIN o.files
      PROVE  /\ i \in Inodes /\ OnceFile(o.files[i], data[i], D) /\ o.files[i].seen \in Seq(Nat)
             /\ i \in Found(found) => o.files[i].state = "active"
             /\ i \notin Found(found) => /\ i \in DOMAIN t.files
                                         /\ \/ o.files[i].state = t.files[i].state
                                            \/ /\ o.files[i].state = "draining"
                                               /\ Retires(i, found, listed) /\ t.files[i].state = "active"
  <2>1. CASE i \in Resumed(t, found)
    <3>1. OnceFile(o.files[i], data[i], D) /\ o.files[i].state = "active"
      BY <1>2, <2>1, ResumedOnce
    <3>2. i \in DOMAIN t.resume /\ i \in Inodes
      BY <2>1 DEF Resumed, ScanOK, TailInv, ResumeInv
    <3>3. o.files[i].seen \in Seq(Nat)
      <4> DEFINE e == t.resume[i]
      <4>1. o.files[i].seen = IF Accepts(data[i], e) THEN Upto(data[i], Len(e.before)) ELSE <<>>
        <5>1. o.files[i] = OpenedAt(t, i, PathOf(found, i))
          BY <1>2, <2>1
        <5> QED
          BY <5>1, OpenedAtFields
      <4>2. data[i] \in Seq(Nat) /\ e.before \in Seq(Nat)
        BY <3>2 DEF ScanOK, TailInv, ResumeInv, PositionInv, Stamped
      <4>3. CASE Accepts(data[i], e)
        <5>1. Len(e.before) \in 0..Len(data[i])
          BY <4>2, <4>3 DEF Accepts
        <5> QED
          BY <4>1, <4>2, <4>3, <5>1, UptoFacts
      <4>4. CASE ~Accepts(data[i], e)
        BY <4>1, <4>4
      <4> QED
        BY <4>3, <4>4
    <3> QED
      BY <1>3, <2>1, <3>1, <3>2, <3>3
  <2>2. CASE i \notin Resumed(t, found)
    <3> DEFINE f == t.files[i]
    <3>1. i \in DOMAIN t.files
      BY <1>2, <2>2
    <3>2. f \in File /\ OnceFile(f, data[i], D) /\ i \in Inodes
      BY <3>1 DEF ScanOK, TailInv, FilesInv, FileInv, OnceTail
    <3> HIDE DEF f
    <3>3. ASSUME NEW g, g.seen = f.seen, g.pend = f.pend, g.acc = f.acc
          PROVE  OnceFile(g, data[i], D) /\ g.seen \in Seq(Nat)
      BY <3>2, <3>3 DEF OnceFile, File
    <3>4. CASE i \in Found(found)
      <4>1. o.files[i] = Rebound(f, PathOf(found, i))
        BY <1>2, <2>2, <3>4 DEF f
      <4>2. /\ o.files[i].seen = f.seen /\ o.files[i].pend = f.pend /\ o.files[i].acc = f.acc
            /\ o.files[i].state = "active"
        BY <3>2, <4>1 DEF Rebound, File
      <4> QED
        BY <3>2, <3>3, <3>4, <4>2
    <3>5. CASE i \notin Found(found)
      <4>1. o.files[i] = IF Retires(i, found, listed) THEN Retired(f) ELSE f
        BY <1>2, <2>2, <3>5 DEF f
      <4>2. CASE Retires(i, found, listed) /\ f.state = "active"
        <5>1. /\ o.files[i].seen = f.seen /\ o.files[i].pend = f.pend /\ o.files[i].acc = f.acc
              /\ o.files[i].state = "draining"
          BY <3>2, <4>1, <4>2 DEF Retired, File
        <5> QED
          BY <3>1, <3>2, <3>3, <3>5, <4>2, <5>1 DEF f
      <4>3. CASE ~(Retires(i, found, listed) /\ f.state = "active")
        <5>1. o.files[i] = f
          BY <4>1, <4>3 DEF Retired
        <5> QED
          BY <3>1, <3>2, <3>3, <3>5, <5>1 DEF f
      <4> QED
        BY <4>2, <4>3
    <3> QED
      BY <3>4, <3>5
  <2> QED
    BY <2>1, <2>2
<1>5. Shrunk(o, S) = {}
  <2>1. SUFFICES ASSUME NEW i \in DOMAIN o.files PROVE ~(Len(data[i]) < Len(o.files[i].seen))
    BY DEF Shrunk
  <2>2. /\ Len(o.files[i].seen) <= Len(data[i]) /\ o.files[i].seen \in Seq(Nat) /\ data[i] \in Seq(Nat)
    BY <1>1, <1>4 DEF OnceFile, Begins
  <2> QED
    BY <2>2
<1>6. /\ Record(r) /\ r.resume = o.resume /\ DOMAIN r.files = DOMAIN o.files
      /\ \A i \in DOMAIN o.files :
           r.files[i] = IF i \in Shrunk(o, S) THEN Rewind(o.files[i]) ELSE o.files[i]
      /\ r.truncations = {x \in o.truncations : x.id \notin Shrunk(o, S)}
                           \cup {x \in {Truncation(i, o.files[i]) : i \in Shrunk(o, S)} :
                                   Len(x.head) >= ClaimMinHead}
  BY <1>2, RewoundFields
<1> HIDE DEF S, r
<1>7. /\ \A i \in DOMAIN o.files : r.files[i] = o.files[i]
      /\ r.truncations = {}
  BY <1>1, <1>2, <1>5, <1>6
<1>8. FirstPass(t, found, listed) = r
  BY FirstPassIsOpened DEF o, r, S
<1> QED
  BY <1>2, <1>4, <1>6, <1>7, <1>8 DEF FirstOnce

\* An inode nothing names matches no candidate: each one's head is of another file.
LEMMA NoMatch ==
  ASSUME NEW t, NEW found, NEW listed, NEW D, NEW G, NEW ov, NEW N, ScanOK(t, found, D, G, ov, N),
         NEW one, FirstOnce(one, t, found, listed, D), TailInv(one, data, D, G, ov, N),
         NEW i \in Unmatched(t, found)
  PROVE  i \in Inodes /\ Matches(i, Candidates(one, t, found, listed)) = {}
<1>1. /\ data \in [Inodes -> Seq(Nat)] /\ Distinct(data) /\ D \subseteq G /\ TailInv(t, data, D, G, ov, N)
      /\ DOMAIN t.files \cap DOMAIN t.resume = {} /\ OnceResume(t.resume, data, D)
      /\ FoundOK(found) /\ one.truncations = {}
  BY DEF ScanOK, OnceTail, FirstOnce
<1>2. i \in Found(found) /\ i \in Inodes /\ i \notin DOMAIN t.resume
  <2>1. i \in Found(found)
    BY DEF Unmatched, Untracked
  <2> QED
    BY <1>1, <2>1, FoundFacts DEF Unmatched, Untracked
<1>3. i \notin DOMAIN one.files
  BY DEF FirstOnce, Unmatched, Untracked, Resumed
<1> SUFFICES ASSUME NEW c \in Candidates(one, t, found, listed), Verdict(data[i], c) = "match"
             PROVE  FALSE
  BY <1>2 DEF Matches
<1>4. CandidateInv(c, data, G, N)
  BY <1>1, CandidatesKeep
<1>5. Begins(c.head, data[i]) /\ c.head \in Seq(Nat) /\ data[i] \in Seq(Nat)
  BY <1>1, <1>2, <1>4, MatchFacts DEF CandidateInv, PositionInv, Stamped
<1>6. Len(c.head) >= ClaimMinHead
  BY DEF Candidates
<1>7. 1 \in 1..Len(c.head) /\ 1 \in 1..Len(data[i])
  <2>1. ClaimMinHead \in Nat /\ 0 < ClaimMinHead
    BY TailAssumption
  <2>2. Len(c.head) \in Nat /\ Len(data[i]) \in Nat /\ Len(c.head) <= Len(data[i])
    BY <1>5 DEF Begins
  <2> QED
    BY <1>6, <2>1, <2>2
<1>8. data[i][1] = c.head[1] /\ data[i][1] \in ToSet(c.head)
  <2>1. data[i][1] = c.head[1]
    BY <1>5, <1>7 DEF Begins
  <2>2. ToSet(c.head) = {c.head[m] : m \in 1..Len(c.head)}
    BY <1>5, ToSetByIndex
  <2> QED
    BY <1>7, <2>1, <2>2
<1>9. ASSUME NEW from, NEW id, NEW e, NEW min PROVE Candidate(from, id, e, min).head = e.head
  BY DEF Candidate
<1>10. ASSUME NEW j \in DOMAIN one.files,
             c = Candidate("live", j, Entry(one.files[j]), Len(Boundary(one.files[j])))
      PROVE  FALSE
  <2> DEFINE s == one.files[j].seen
  <2>1. /\ j \in Inodes /\ FileInv(one.files[j], j, data, G, ov, N) /\ OnceFile(one.files[j], data[j], D)
    BY DEF FirstOnce, TailInv, FilesInv
  <2>2. c.head = HeadOf(s) /\ s \in Seq(Nat) /\ Begins(s, data[j])
    <3>1. s \in Seq(Nat) /\ Begins(s, data[j])
      BY <2>1 DEF FileInv, Stamped, OnceFile
    <3>2. Entry(one.files[j]).head = HeadOf(s)
      BY DEF Entry
    <3>3. c.head = Entry(one.files[j]).head
      BY <1>10, <1>9
    <3> QED
      BY <3>1, <3>2, <3>3
  <2> HIDE DEF s
  <2>3. /\ Len(HeadOf(s)) <= Len(s) /\ HeadOf(s)[1] = s[1] /\ 1 \in 1..Len(s)
    BY <1>7, <2>2, HeadFacts
  <2>4. 1 \in 1..Len(data[j]) /\ data[j][1] = s[1]
    <3>1. data[j] \in Seq(Nat) /\ Len(s) <= Len(data[j]) /\ Len(s) \in Nat
      BY <1>1, <2>1, <2>2 DEF Begins
    <3> QED
      BY <2>2, <2>3, <3>1 DEF Begins
  <2>5. data[i][1] = data[j][1] /\ j # i
    BY <1>3, <1>8, <2>2, <2>3, <2>4
  <2> QED
    BY <1>1, <1>2, <1>7, <2>1, <2>4, <2>5 DEF Distinct
<1>11. ASSUME NEW j \in DOMAIN t.resume, c.head = t.resume[j].head PROVE FALSE
  <2>1. j # i
    BY <1>2
  <2>2. data[i][1] \notin ToSet(t.resume[j].head)
    BY <1>1, <1>2, <1>7, <2>1 DEF OnceResume
  <2> QED
    BY <1>8, <1>11, <2>2
<1>12. \/ \E x \in one.truncations : c = Candidate("truncated", x.id, x, x.read)
       \/ \E j \in DOMAIN one.files :
            c = Candidate("live", j, Entry(one.files[j]), Len(Boundary(one.files[j])))
       \/ \E j \in DOMAIN one.resume : c = Candidate("orphan", j, one.resume[j], Len(one.resume[j].before))
       \/ \E j \in Rejected(t, found) :
            c = Candidate("rejected", j, t.resume[j], Len(t.resume[j].before))
  BY Zenon DEF Candidates, ReadCandidates
<1>13. CASE \E j \in DOMAIN one.resume : c = Candidate("orphan", j, one.resume[j], Len(one.resume[j].before))
  <2>1. PICK j \in DOMAIN one.resume : c = Candidate("orphan", j, one.resume[j], Len(one.resume[j].before))
    BY <1>13
  <2>2. j \in DOMAIN t.resume /\ one.resume[j] = t.resume[j]
    BY DEF FirstOnce
  <2> QED
    BY <1>11, <1>9, <2>1, <2>2
<1>14. CASE \E j \in Rejected(t, found) : c = Candidate("rejected", j, t.resume[j], Len(t.resume[j].before))
  <2>1. PICK j \in Rejected(t, found) : c = Candidate("rejected", j, t.resume[j], Len(t.resume[j].before))
    BY <1>14
  <2>2. j \in DOMAIN t.resume
    BY DEF Rejected, Resumed
  <2> QED
    BY <1>11, <1>9, <2>1, <2>2
<1> QED
  BY <1>1, <1>10, <1>12, <1>13, <1>14

\* Nothing of a file that no number names was delivered.
LEMMA UnmatchedUntold ==
  ASSUME NEW t, NEW found, NEW D, NEW G, NEW ov, NEW N, ScanOK(t, found, D, G, ov, N),
         NEW i \in Unmatched(t, found)
  PROVE  Untold(i, data, D)
<1>1. CASE i \in Untracked(t, found)
  <2> DEFINE f == t.files[i]
  <2>1. i \in DOMAIN t.files /\ f.claimable
    BY <1>1 DEF Untracked
  <2>2. f \in File /\ f.seen = <<>> /\ OnceFile(f, data[i], D) /\ f.pend \in Nat
    BY <2>1 DEF ScanOK, TailInv, FilesInv, FileInv, OnceTail, File
  <2> HIDE DEF f
  <2>3. ASSUME NEW k \in 1..Len(data[i]), data[i][k] \in D PROVE FALSE
    <3>1. k <= Len(f.seen) - f.pend /\ k \in Nat /\ 1 <= k
      BY <2>2, <2>3 DEF OnceFile
    <3>2. Len(f.seen) = 0
      BY <2>2
    <3> QED
      BY <2>2, <3>1, <3>2
  <2> QED
    BY <2>3 DEF Untold
<1>2. CASE i \in Found(found) /\ i \notin DOMAIN t.files /\ i \notin DOMAIN t.resume
  BY <1>2 DEF ScanOK
<1> QED
  BY <1>1, <1>2 DEF Unmatched

\* What a scan leaves.
ScanOnce(r, t, found, listed, D) ==
  /\ OnceTail(r, data, D)
  /\ \A i \in DOMAIN r.files :
       /\ i \in Found(found) => r.files[i].state = "active"
       /\ i \notin Found(found) =>
            /\ i \in DOMAIN t.files
            /\ \/ r.files[i].state = t.files[i].state
               \/ /\ r.files[i].state = "draining"
                  /\ Retires(i, found, listed) /\ t.files[i].state = "active"
               \/ r.files[i].state = "rescanned" /\ listed /\ t.files[i].state = "draining"
  /\ \A i \in Inodes : i \notin DOMAIN r.files /\ i \notin DOMAIN r.resume =>
       \/ Untold(i, data, D)
       \/ i \notin DOMAIN t.files /\ i \notin DOMAIN t.resume
       \/ i \in DOMAIN t.resume /\ listed /\ i \notin Found(found)

\* A scan opens what it finds after what was delivered of it, and claims nothing.
LEMMA ScannedOnce ==
  ASSUME NEW t, NEW found, NEW listed, NEW first, NEW D, NEW G, NEW ov, NEW N,
         ScanOK(t, found, D, G, ov, N), listed \/ Found(found) = {}
  PROVE  ScanOnce(Scanned(t, found, listed, first), t, found, listed, D)
<1> DEFINE one == FirstPass(t, found, listed)
           cands == Candidates(one, t, found, listed)
           new == Unmatched(t, found)
           two == SecondPass(one, cands, new, found, first)
           three == Pruned(two, found, listed)
           r == Rescanned(three, t, listed)
<1>1. FirstOnce(one, t, found, listed, D)
  BY FirstPassOnce
<1>2. TailInv(one, data, D, G, ov, N)
  BY FirstPassKeeps DEF ScanOK
<1> HIDE DEF one
<1>3. \A i \in new : i \in Inodes /\ Matches(i, cands) = {}
  BY <1>1, <1>2, NoMatch
<1>4. \A i \in new : Untold(i, data, D)
  BY UnmatchedUntold
<1>5. /\ new \subseteq Found(found) /\ Untracked(t, found) \subseteq new
      /\ new \cap DOMAIN one.files = {} /\ new \cap DOMAIN t.resume = {}
  BY <1>1 DEF Unmatched, Untracked, Resumed, FirstOnce, ScanOK, OnceTail
<1> HIDE DEF cands, new
<1>6. Claimed(two, one, cands, new, found)
  BY <1>1, SecondFields DEF FirstOnce
<1> HIDE DEF two
<1>7. /\ Record(two) /\ two.truncations = {}
      /\ DOMAIN two.files \subseteq DOMAIN one.files \cup new /\ DOMAIN one.files \subseteq DOMAIN two.files
      /\ \A i \in DOMAIN two.files \ new : two.files[i] = one.files[i]
      /\ DOMAIN two.resume = DOMAIN one.resume /\ \A i \in DOMAIN two.resume : two.resume[i] = one.resume[i]
  BY <1>1, <1>3, <1>6 DEF Claimed, FirstOnce
<1>8. ASSUME NEW i \in DOMAIN two.files, i \in new
      PROVE  OnceFile(two.files[i], data[i], D) /\ two.files[i].state = "active"
  <2> DEFINE f == two.files[i]
  <2>1. f = Tracked(PathOf(found, i), <<>>, data[i] = <<>>)
    BY <1>3, <1>6, <1>8 DEF Claimed
  <2>2. f.seen = <<>> /\ f.pend = 0 /\ f.acc = {} /\ f.state = "active"
    BY <2>1, TrackedFields
  <2>3. data[i] \in Seq(Nat) /\ Untold(i, data, D)
    BY <1>3, <1>4, <1>8 DEF ScanOK
  <2> HIDE DEF f
  <2>4. OnceFile(f, data[i], D)
    BY <2>2, <2>3, StartOnce
  <2> QED
    BY <2>2, <2>4 DEF f
<1>9. /\ Record(three) /\ three.files = two.files /\ three.truncations \subseteq two.truncations
      /\ DOMAIN three.resume = DOMAIN two.resume \cap (IF listed THEN Found(found) ELSE DOMAIN two.resume)
      /\ \A i \in DOMAIN three.resume : three.resume[i] = two.resume[i]
  BY <1>7, PrunedFields
<1> HIDE DEF three
<1>10. /\ Record(r) /\ r.resume = three.resume /\ r.truncations = three.truncations
       /\ DOMAIN r.files = DOMAIN three.files
       /\ \A i \in DOMAIN three.files :
            \/ r.files[i] = three.files[i]
            \/ /\ r.files[i] = [three.files[i] EXCEPT !.state = "rescanned"]
               /\ listed /\ three.files[i].state = "draining"
               /\ i \in DOMAIN t.files /\ t.files[i].state = "draining"
  BY <1>9, RescannedFields
<1> HIDE DEF r
<1>11. ASSUME NEW i \in DOMAIN two.files
       PROVE  /\ OnceFile(two.files[i], data[i], D)
              /\ i \in Found(found) => two.files[i].state = "active"
              /\ i \notin Found(found) =>
                   /\ i \in DOMAIN t.files
                   /\ \/ two.files[i].state = t.files[i].state
                      \/ /\ two.files[i].state = "draining"
                         /\ Retires(i, found, listed) /\ t.files[i].state = "active"
  <2>1. CASE i \in new
    BY <1>5, <1>8, <2>1
  <2>2. CASE i \notin new
    <3>1. i \in DOMAIN one.files /\ two.files[i] = one.files[i]
      BY <1>7, <2>2
    <3> QED
      BY <1>1, <3>1 DEF FirstOnce
  <2> QED
    BY <2>1, <2>2
<1>12. ASSUME NEW i \in DOMAIN r.files
       PROVE  /\ OnceFile(r.files[i], data[i], D)
              /\ i \in Found(found) => r.files[i].state = "active"
              /\ i \notin Found(found) =>
                   /\ i \in DOMAIN t.files
                   /\ \/ r.files[i].state = t.files[i].state
                      \/ /\ r.files[i].state = "draining"
                         /\ Retires(i, found, listed) /\ t.files[i].state = "active"
                      \/ r.files[i].state = "rescanned" /\ listed /\ t.files[i].state = "draining"
  <2>1. i \in DOMAIN two.files
    BY <1>9, <1>10
  <2>2. CASE r.files[i] = two.files[i]
    BY <1>11, <2>1, <2>2
  <2>3. CASE /\ r.files[i] = [two.files[i] EXCEPT !.state = "rescanned"]
             /\ listed /\ two.files[i].state = "draining"
             /\ i \in DOMAIN t.files /\ t.files[i].state = "draining"
    <3> DEFINE f == two.files[i]  g == r.files[i]
    <3>1. f \in File
      <4>1. i \in new => f \in File
        <5>1. i \in new => f.state = "active"
          BY <1>8, <2>1
        <5> QED
          BY <2>3, <5>1
      <4>2. i \notin new => f = one.files[i] /\ i \in DOMAIN one.files
        BY <1>7, <2>1
      <4> QED
        BY <1>2, <4>1, <4>2 DEF TailInv, FilesInv, FileInv
    <3>2. g = [f EXCEPT !.state = "rescanned"]
      BY <2>3
    <3>3. OnceFile(f, data[i], D) /\ i \notin Found(found)
      BY <1>11, <2>1, <2>3
    <3> HIDE DEF f, g
    <3>4. g.seen = f.seen /\ g.pend = f.pend /\ g.acc = f.acc /\ g.state = "rescanned"
      BY <3>1, <3>2 DEF File
    <3>5. OnceFile(g, data[i], D)
      BY <3>3, <3>4 DEF OnceFile
    <3> QED
      BY <2>3, <3>3, <3>4, <3>5 DEF g
  <2> QED
    BY <1>9, <1>10, <2>1, <2>2, <2>3
<1>13. /\ DOMAIN r.resume \subseteq DOMAIN t.resume \ Resumed(t, found)
       /\ \A i \in DOMAIN r.resume : r.resume[i] = t.resume[i]
       /\ r.truncations = {}
  BY <1>1, <1>7, <1>9, <1>10 DEF FirstOnce
<1>14. DOMAIN r.files \cap DOMAIN r.resume = {}
  <2>1. DOMAIN r.files \subseteq DOMAIN t.files \cup Resumed(t, found) \cup new
    BY <1>1, <1>7, <1>9, <1>10 DEF FirstOnce
  <2>2. DOMAIN t.files \cap DOMAIN t.resume = {}
    BY DEF ScanOK, OnceTail
  <2> QED
    BY <1>5, <1>13, <2>1, <2>2
<1>15. OnceTail(r, data, D)
  <2>1. OnceResume(t.resume, data, D)
    BY DEF ScanOK, OnceTail
  <2>2. OnceResume(r.resume, data, D)
    BY <1>13, <2>1 DEF OnceResume
  <2> QED
    BY <1>12, <1>13, <1>14, <2>2 DEF OnceTail
<1>16. ASSUME NEW i \in Inodes, i \notin DOMAIN r.files, i \notin DOMAIN r.resume
       PROVE  \/ Untold(i, data, D)
              \/ i \notin DOMAIN t.files /\ i \notin DOMAIN t.resume
              \/ i \in DOMAIN t.resume /\ listed /\ i \notin Found(found)
  <2>1. i \notin DOMAIN one.files
    BY <1>7, <1>9, <1>10, <1>16
  <2>2. CASE i \in DOMAIN t.files
    <3>1. i \in Untracked(t, found)
      BY <1>1, <2>1, <2>2 DEF FirstOnce
    <3> QED
      BY <1>4, <1>5, <3>1
  <2>3. CASE i \in DOMAIN t.resume
    <3>1. i \in DOMAIN two.resume
      BY <1>1, <1>7, <2>1, <2>3 DEF FirstOnce
    <3> QED
      BY <1>9, <1>10, <1>16, <2>3, <3>1
  <2> QED
    BY <2>2, <2>3
<1>17. ScanOnce(r, t, found, listed, D)
  BY <1>12, <1>15, <1>16 DEF ScanOnce
<1>18. Scanned(t, found, listed, first) = r
  BY DEF Scanned, r, three, two, new, cands, one
<1> QED
  BY <1>17, <1>18

\* A scan misses only what was renamed under its listing, or keeps it if the listing failed.
Misses(found, listed) ==
  \A i \in DOMAIN tailer.files : i \in Linked /\ i \notin Found(found) =>
    /\ Retires(i, found, listed) => i = dir["log1"]
    /\ listed => tailer.files[i].state = "active"

\* The entries a scan drops were of files that are gone, or of which nothing was delivered.
DropsUntold(found) ==
  \A i \in DOMAIN tailer.resume : i \in Linked /\ i \notin Found(found) =>
    ~Accepts(data[i], tailer.resume[i])

\* A scan over a listing that misses no more than that delivers nothing and forgets nothing.
LEMMA OnceScan ==
  ASSUME SkipInv, OnceInv, UNCHANGED <<env, delivered, twice, disturbed>>, phase # "down",
         phase' = "run", names' = None,
         NEW found, NEW listed, NEW first, FoundOK(found), listed \/ Found(found) = {},
         Found(found) \subseteq Linked,
         tailer' = Scanned(tailer, found, listed, first),
         Undisturbed' => Undisturbed /\ Misses(found, listed) /\ (listed => DropsUntold(found))
  PROVE  OnceInv'
<1>1. /\ data \in [Inodes -> Seq(Nat)]
      /\ TailInv(tailer, data, delivered, Good, overwritten, cells)
      /\ delivered \subseteq Good
  BY DEF SkipInv, DataInv, Good
<1>2. /\ dir' = dir /\ data' = data /\ cells' = cells /\ copy' = copy /\ Linked' = Linked
  BY DEF env, Linked
<1>3. ASSUME Undisturbed' PROVE OnceClean'
  <2> DEFINE r == Scanned(tailer, found, listed, first)
  <2>1. OnceClean /\ Misses(found, listed) /\ (listed => DropsUntold(found))
    BY <1>3 DEF OnceInv
  <2>2. ScanOK(tailer, found, delivered, Good, overwritten, cells)
    BY <1>1, <2>1 DEF ScanOK, OnceClean
  <2>3. ScanOnce(r, tailer, found, listed, delivered)
    BY <2>2, ScannedOnce
  <2>4. tailer' = r
    OBVIOUS
  <2> HIDE DEF r
  <2>5. OnceTail(r, data, delivered)
    BY <2>3 DEF ScanOnce
  <2>6. ASSUME NEW i \in DOMAIN r.files, r.files[i].state # "active", i \in Linked
        PROVE  i = dir["log1"] /\ r.files[i].state # "rescanned"
    <3>1. /\ i \notin Found(found) /\ i \in DOMAIN tailer.files
          /\ \/ r.files[i].state = tailer.files[i].state
             \/ /\ r.files[i].state = "draining"
                /\ Retires(i, found, listed) /\ tailer.files[i].state = "active"
             \/ r.files[i].state = "rescanned" /\ listed /\ tailer.files[i].state = "draining"
      BY <2>3, <2>6 DEF ScanOnce
    <3>2. /\ Retires(i, found, listed) => i = dir["log1"]
          /\ listed => tailer.files[i].state = "active"
      BY <2>1, <2>6, <3>1 DEF Misses
    <3>3. tailer.files[i].state # "active" => i = dir["log1"] /\ tailer.files[i].state # "rescanned"
      BY <2>1, <2>6, <3>1 DEF OnceClean, OnceListed
    <3> QED
      BY <2>6, <3>1, <3>2, <3>3
  <2>7. OnceListed(tailer)'
    BY <1>2, <2>4, <2>6 DEF OnceListed
  <2>8. ASSUME NEW i \in Linked, i \notin DOMAIN r.files, i \notin DOMAIN r.resume
        PROVE  Untold(i, data, delivered)
    <3>1. i \in Inodes
      BY DEF Linked, SkipInv, DirInv, Paths
    <3>2. \/ Untold(i, data, delivered)
          \/ i \notin DOMAIN tailer.files /\ i \notin DOMAIN tailer.resume
          \/ i \in DOMAIN tailer.resume /\ listed /\ i \notin Found(found)
      BY <2>3, <2>8, <3>1 DEF ScanOnce
    <3>3. CASE i \notin DOMAIN tailer.files /\ i \notin DOMAIN tailer.resume
      BY <2>1, <3>3 DEF OnceClean
    <3>4. CASE i \in DOMAIN tailer.resume /\ listed /\ i \notin Found(found)
      <4> DEFINE e == tailer.resume[i]
      <4>1. ~Accepts(data[i], e)
        BY <2>1, <3>4 DEF DropsUntold
      <4>2. PositionInv(e.before, e.head, data, delivered, cells) /\ OnceEntry(e, data[i], delivered)
        BY <1>1, <2>1, <3>4 DEF TailInv, ResumeInv, OnceClean, OnceTail, OnceResume
      <4> HIDE DEF e
      <4> QED
        BY <1>1, <3>1, <4>1, <4>2, AcceptsOnce
    <3> QED
      BY <3>2, <3>3, <3>4
  <2>9. Distinct(data) /\ \A c \in delivered : c \in Nat /\ c <= cells
    BY <2>1 DEF OnceClean
  <2> QED
    BY <1>2, <2>4, <2>5, <2>7, <2>8, <2>9 DEF OnceClean
<1> QED
  BY <1>2, <1>3 DEF OnceInv

\* A scan, whose listing worked or failed (scan, keep_unlisted).
LEMMA OnceScans ==
  ASSUME SkipInv, OnceInv, Scan \/ ScanFails
  PROVE  OnceInv'
<1>1. dir \in [Paths -> Inodes \cup {None}]
  BY DEF SkipInv, DirInv
<1>2. CASE Scan
  <2>1. /\ names # None /\ tailer' = Scanned(tailer, Looked, TRUE, phase = "bind")
        /\ names' = None /\ phase' = "run" /\ UNCHANGED <<env, delivered, twice, disturbed>>
    BY <1>2 DEF Scan, Looked
  <2>2. names \in SUBSET Paths /\ phase # "down"
    BY <2>1 DEF SkipInv, OnceInv
  <2>3. FoundOK(Looked) /\ Found(Looked) = {dir[p] : p \in names} \ {None}
    BY <2>2, LookedFacts DEF SkipInv
  <2>4. Found(Looked) \subseteq Linked
    BY <2>2, <2>3 DEF Linked
  <2>5. None \notin Linked
    BY DEF Linked
  <2>6. Undisturbed' => /\ Undisturbed
                        /\ ~\E i \in DOMAIN tailer.resume :
                             /\ i \in Linked /\ i \notin {dir[p] : p \in names}
                             /\ Accepts(data[i], tailer.resume[i])
    BY <1>2 DEF Scan, Undisturbed
  <2>7. Undisturbed' => DropsUntold(Looked)
    BY <2>3, <2>5, <2>6 DEF DropsUntold
  <2>8. ASSUME Undisturbed, NEW i \in DOMAIN tailer.files, i \in Linked, i \notin Found(Looked)
        PROVE  i = dir["log1"] /\ tailer.files[i].state = "active"
    <3>1. OnceListed(tailer)
      BY <2>8 DEF OnceInv, OnceClean
    <3>2. i = dir["log"] \/ i = dir["log1"]
      BY <2>8 DEF Linked, Paths
    <3>3. i = dir["log"] => "log" \notin names
      BY <2>3, <2>5, <2>8
    <3>4. i # dir["log"]
      BY <2>1, <2>8, <3>1, <3>3 DEF OnceListed
    <3>5. "log1" \notin names
      BY <2>3, <2>5, <2>8, <3>2, <3>4
    <3> QED
      BY <2>1, <2>8, <3>1, <3>2, <3>4, <3>5 DEF OnceListed
  <2>9. Undisturbed' => Misses(Looked, TRUE)
    BY <2>6, <2>8 DEF Misses
  <2> QED
    BY <2>1, <2>2, <2>3, <2>4, <2>6, <2>7, <2>9, OnceScan
<1>3. CASE ScanFails
  <2>1. /\ tailer' = Scanned(tailer, <<>>, FALSE, phase = "bind") /\ phase # "down"
        /\ names' = None /\ phase' = "run" /\ UNCHANGED <<env, delivered, twice, disturbed, prunedLive>>
    BY <1>3 DEF ScanFails, Idle, ghosts
  <2>2. Misses(<<>>, FALSE)
    BY DEF Misses, Retires
  <2>3. Undisturbed' => Undisturbed
    BY <2>1 DEF Undisturbed
  <2>4. FoundOK(<<>>) /\ Found(<<>>) = {}
    BY NothingFound
  <2> QED
    BY <2>1, <2>2, <2>3, <2>4, OnceScan
<1> QED
  BY <1>2, <1>3

-----------------------------------------------------------------------------
(* Nothing is delivered twice: the theorems.                               *)

\* Before the first write nothing is delivered.
LEMMA OnceInit ==
  ASSUME Init
  PROVE  OnceInv
<1>1. /\ data = [j \in Inodes |-> <<>>] /\ copy = None /\ phase = "down" /\ names = None
      /\ tailer = Closed /\ disk = <<>> /\ delivered = {} /\ ~twice
  BY DEF Init
<1>2. DOMAIN Closed.files = {} /\ Closed.truncations = {} /\ DOMAIN Closed.resume = {}
  BY DEF Closed
<1>3. Distinct(data)
  BY <1>1 DEF Distinct
<1>4. OnceTail(tailer, data, delivered) /\ OnceListed(tailer)
  BY <1>1, <1>2 DEF OnceTail, OnceListed, OnceResume
<1>5. OnceResume(disk, data, delivered) /\ \A i : Untold(i, data, delivered)
  BY <1>1 DEF OnceResume, Untold
<1>6. OnceClean
  BY <1>1, <1>3, <1>4, <1>5 DEF OnceClean
<1> QED
  BY <1>1, <1>6 DEF OnceInv

\* A step of nobody.
LEMMA OnceStutter ==
  ASSUME OnceInv, UNCHANGED vars
  PROVE  OnceInv'
<1>1. /\ dir' = dir /\ data' = data /\ cells' = cells /\ copy' = copy /\ phase' = phase
      /\ names' = names /\ tailer' = tailer /\ disk' = disk /\ delivered' = delivered
      /\ (twice' <=> twice) /\ (disturbed' <=> disturbed) /\ (prunedLive' <=> prunedLive)
  BY DEF vars, env, ghosts
<1>2. OnceClean => OnceClean'
  BY <1>1 DEF OnceClean, OnceListed, Linked
<1> QED
  BY <1>1, <1>2 DEF OnceInv, Undisturbed

\* Every step of the driver, of the writer and of the rotator.
LEMMA OnceNext ==
  ASSUME SkipInv, OnceInv, [Next]_vars
  PROVE  OnceInv'
<1>1. CASE UNCHANGED vars
  BY <1>1, OnceStutter
<1>2. CASE ReadDir \/ Scan \/ ScanFails \/ FlushAll \/ Checkpoint \/ Shutdown \/ Crash \/ Bind
  BY <1>2, OnceReadDir, OnceScans, OnceFlush, OnceShutdown, OnceCrash, OnceBind
<1>3. CASE \E i \in Inodes : DataWake(i) \/ Read(i) \/ Reap(i) \/ Reopen(i) \/ CopyStart(i)
  BY <1>3, OnceDataWake, OnceRead, OnceReap, OnceReopen, OnceCopy
<1>4. CASE Write \/ Rename \/ Unlink \/ CopyMore \/ Truncate
  BY <1>4, OnceWrite, OnceRename, OnceCopy
<1> QED
  BY <1>1, <1>2, <1>3, <1>4 DEF Next

\* TailInductive, the conjunction of both invariants, holds of every reachable state.
THEOREM TailIsInductive == Spec => []TailInductive
<1>1. Init => TailInductive
  BY SkipInit, OnceInit DEF TailInductive
<1>2. TailInductive /\ [Next]_vars => TailInductive'
  BY SkipNext, OnceNext DEF TailInductive
<1> QED
  BY <1>1, <1>2, PTL DEF Spec

\* DeliveredOnce, for any files, sizes, chunk and schedule: without a crash, a failed
\* forced checkpoint, a copy of the log or a scan that raced a rename, rotations, recycled
\* inodes, failed listings and clean restarts deliver no cell twice.
THEOREM NothingTwice == Spec => []DeliveredOnce
<1>1. TailInductive => DeliveredOnce
  BY DEF TailInductive, OnceInv, DeliveredOnce
<1> QED
  BY <1>1, TailIsInductive, PTL
=============================================================================
