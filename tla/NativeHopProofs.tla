-------------------------- MODULE NativeHopProofs --------------------------
(***************************************************************************)
(* Proofs about NativeHop, for any store, window, table and number of       *)
(* connections, and any number of failures.  What travels between the two    *)
(* ends is only ever about frames that are settled: an Ack, a mark in the    *)
(* table, a mark of a HelloAck, an acknowledged entry of the window.  So the *)
(* sets below depend on the set S of the settled frames, and grow with it.   *)
(***************************************************************************)
EXTENDS NativeHop, SequenceFacts

\* A mark of the table, and the frames it says were handled.
Mark == [id : Ids \cup Strangers, mark : Nat]
CoveredBy(e) == {f \in Frames : Queue[f].id = e.id /\ Queue[f].seq <= e.mark}
SoundMarks(S) == {e \in Mark : CoveredBy(e) \subseteq S}

\* What a task may have written: an answer for a settled frame, sound marks.
GoodMsgs(S) ==
  {GoingAway, Reject} \cup [type : {"ack", "rejected"}, pair : {Queue[f] : f \in S}]
  \cup [type : {"hello_ack"}, marks : SUBSET SoundMarks(S)]

States == {"free", "hello", "loop", "forward", "taken", "over"}

Socket(S) ==
  [st : States, open : BOOLEAN, up : Seq(Frames \cup {Torn}), down : Seq(GoodMsgs(S)),
   pend : {None} \cup [f : S, n : Nat], cur : Frames \cup {Torn}, asked : SUBSET Ids,
   took : SUBSET Frames]

\* An entry of the window: acknowledged only when it is settled.
WindowEntry(S) == {e \in [f : Frames, acked : BOOLEAN] : e.acked => e.f \in S}

Connection(S) ==
  [c : Conns, inFlight : Seq(WindowEntry(S)), broken : BOOLEAN, marks : SUBSET SoundMarks(S)]

TypeOK ==
  /\ head \in 1..(Len(Queue) + 1) /\ resend \subseteq Ids /\ hello \in {0} \cup Conns
  /\ conn # None => conn \in Connection(settled)
  /\ socks \in [Conns -> Socket(settled)]
  /\ table \in Seq(SoundMarks(settled))
  /\ settled \subseteq Frames /\ excused \subseteq Frames
  /\ copies \in [Frames -> 0..2] /\ faults \in Nat

\* The window is a run of the store from its head.
WindowInv ==
  conn # None => \A i \in 1..Len(conn.inFlight) : conn.inFlight[i].f = head + i - 1

\* Frame g is settled, or a task has still to handle it before place j of what
\* socket k holds.
Ahead(k, g, j, S) == g \in S \/ g = k.cur \/ \E i \in 1..(j - 1) : k.up[i] = g

\* A connection that still reads has every frame of the window settled or ahead.
Written(k, w, S) ==
  k.st # "over" => \A i \in 1..Len(w) : Ahead(k, w[i].f, Len(k.up) + 1, S)

WrittenInv == conn # None => Written(socks[conn.c], conn.inFlight, settled)

\* No frame is on a socket before one that is not settled and not ahead of it.
InOrder(k, S) ==
  /\ \A j \in 1..Len(k.up), g \in Frames : g < k.up[j] => Ahead(k, g, j, S)
  /\ \A g \in Frames : g < k.cur => g \in S
  /\ k.st \in {"forward", "taken"} <=> k.cur # Torn
  /\ k.st = "taken" => k.cur \in S

WireInv == \A c \in Conns : InOrder(socks[c], settled)

\* One entry per identity.
Unique(u) == \A i, j \in 1..Len(u) : u[i].id = u[j].id => i = j
TableInv == Unique(table)

SafeInv ==
  TypeOK /\ TableInv /\ WindowInv /\ WrittenInv /\ WireInv /\ NothingLost /\ FirstCopiesInOrder

\* A frame with a copy is remembered by its mark or by the task about to raise it,
\* or its second copy is excused; so is one that two tasks hold.
CopyInv ==
  /\ \A f \in Frames :
       copies[f] > 0 =>
         /\ f \in settled
         /\ \/ f \in excused
            \/ IsResend(table, Queue[f])
            \/ \E d \in Conns : socks[d].st = "taken" /\ socks[d].cur = f
  /\ \A c, d \in Conns :
       c # d /\ socks[c].cur # Torn /\ socks[c].cur = socks[d].cur => socks[c].cur \in excused
  /\ \A c \in Conns :
       socks[c].st = "forward" /\ copies[socks[c].cur] > 0 => socks[c].cur \in excused

CopiesInv == CopyInv /\ DuplicatesExplained

-----------------------------------------------------------------------------
(* The constants. *)

\* Frames are numbers from 1, and their pairs tell them apart in order.
LEMMA FrameFacts ==
  /\ Len(Queue) \in Nat /\ Frames \subseteq Nat \ {0} /\ 0 \notin Frames
  /\ \A f \in Frames : Queue[f].seq \in Nat /\ Queue[f].id \in Ids
  /\ \A f, g \in Frames : f < g /\ Queue[f].id = Queue[g].id => Queue[f].seq < Queue[g].seq
  /\ Refused \subseteq Frames /\ TooLarge \subseteq Frames
<1>1. Len(Queue) \in Nat /\ \A f \in Frames : Queue[f].seq \in Nat
  <2> DEFINE R == [id : {Queue[f].id : f \in Frames}, seq : Nat]
  <2>1. Queue \in Seq(R)
    BY HopAssumption
  <2>2. \A r \in R : r.seq \in Nat
    OBVIOUS
  <2> HIDE DEF R
  <2>3. \A f \in 1..Len(Queue) : Queue[f] \in R
    BY <2>1
  <2> QED
    BY <2>1, <2>2, <2>3 DEF Frames
<1>2. Frames \subseteq Nat \ {0} /\ 0 \notin Frames
  BY <1>1 DEF Frames
<1> QED
  BY <1>1, <1>2, HopAssumption DEF Ids

\* No two frames have one pair, and a frame of an identity with a lower sequence is
\* an earlier one.
LEMMA PairFacts ==
  ASSUME NEW f \in Frames, NEW g \in Frames, Queue[f].id = Queue[g].id, Queue[f].seq <= Queue[g].seq
  PROVE  f <= g
<1>1. f \in Nat /\ g \in Nat /\ Queue[f].seq \in Nat /\ Queue[g].seq \in Nat
  BY FrameFacts
<1>2. g < f => Queue[g].seq < Queue[f].seq
  BY FrameFacts
<1> QED
  BY <1>1, <1>2

\* Earlier frames of settled ones are settled.
LEMMA DownClosed ==
  ASSUME FirstCopiesInOrder, NEW f \in settled, settled \subseteq Frames, NEW g \in Frames, g <= f
  PROVE  g \in settled
BY FrameFacts DEF FirstCopiesInOrder

\* The mark of a settled frame is sound, once every frame before it is settled.
LEMMA MarkIsSound ==
  ASSUME NEW S, NEW f \in Frames, \A g \in Frames : g <= f => g \in S,
         NEW m \in Nat, m <= Queue[f].seq
  PROVE  [id |-> Queue[f].id, mark |-> m] \in SoundMarks(S)
<1> DEFINE e == [id |-> Queue[f].id, mark |-> m]
<1>1. e \in Mark
  BY FrameFacts DEF Mark
<1>2. ASSUME NEW g \in CoveredBy(e) PROVE g \in S
  <2>1. g \in Frames /\ Queue[g].id = Queue[f].id /\ Queue[g].seq <= Queue[f].seq
    BY FrameFacts DEF CoveredBy
  <2> QED
    BY <2>1, PairFacts
<1> QED
  BY <1>1, <1>2 DEF SoundMarks

-----------------------------------------------------------------------------
(* The sets grow with the settled frames. *)

\* A sequence over a set is one over a larger set.
LEMMA SeqGrows ==
  ASSUME NEW S, NEW T, S \subseteq T
  PROVE  Seq(S) \subseteq Seq(T)
OBVIOUS

\* What is sound stays sound.
LEMMA GrowMarks ==
  ASSUME NEW S, NEW T, S \subseteq T
  PROVE  SoundMarks(S) \subseteq SoundMarks(T)
BY DEF SoundMarks

\* What was written stays good.
LEMMA GrowMsgs ==
  ASSUME NEW S, NEW T, S \subseteq T
  PROVE  GoodMsgs(S) \subseteq GoodMsgs(T)
<1>1. SUBSET SoundMarks(S) \subseteq SUBSET SoundMarks(T)
  BY GrowMarks
<1>2. {Queue[f] : f \in S} \subseteq {Queue[f] : f \in T}
  OBVIOUS
<1>3. [type : {"ack", "rejected"}, pair : {Queue[f] : f \in S}]
        \subseteq [type : {"ack", "rejected"}, pair : {Queue[f] : f \in T}]
  BY <1>2
<1>4. [type : {"hello_ack"}, marks : SUBSET SoundMarks(S)]
        \subseteq [type : {"hello_ack"}, marks : SUBSET SoundMarks(T)]
  BY <1>1
<1> QED
  BY <1>3, <1>4 DEF GoodMsgs

\* So do the sockets.
LEMMA GrowSocket ==
  ASSUME NEW S, NEW T, S \subseteq T, NEW k \in Socket(S)
  PROVE  k \in Socket(T)
<1>1. Seq(GoodMsgs(S)) \subseteq Seq(GoodMsgs(T))
  BY GrowMsgs, SeqGrows
<1>2. {None} \cup [f : S, n : Nat] \subseteq {None} \cup [f : T, n : Nat]
  OBVIOUS
<1> QED
  BY <1>1, <1>2 DEF Socket

\* And the connection.
LEMMA GrowConnection ==
  ASSUME NEW S, NEW T, S \subseteq T, NEW k \in Connection(S)
  PROVE  k \in Connection(T)
<1>1. WindowEntry(S) \subseteq WindowEntry(T)
  BY DEF WindowEntry
<1>2. Seq(WindowEntry(S)) \subseteq Seq(WindowEntry(T)) /\ SoundMarks(S) \subseteq SoundMarks(T)
  BY <1>1, SeqGrows, GrowMarks
<1> QED
  BY <1>2 DEF Connection

-----------------------------------------------------------------------------
(* What the pieces of an action do to a socket. *)

\* Two sockets that agree on what the task has to handle.
SameShape(k, l) == k.st = l.st /\ k.up = l.up /\ k.cur = l.cur

\* A task writes a message.
LEMMA WriteFacts ==
  ASSUME NEW S, NEW k \in Socket(S), NEW m \in GoodMsgs(S)
  PROVE  /\ Write(k, <<m>>) \in Socket(S) /\ SameShape(k, Write(k, <<m>>))
         /\ Write(k, <<m>>).pend = k.pend
<1>1. CASE ~k.open
  BY <1>1 DEF Write, SameShape
<1>2. CASE k.open
  <2>1. k.down \in Seq(GoodMsgs(S)) /\ <<m>> \in Seq(GoodMsgs(S))
    BY DEF Socket
  <2>2. k.down \o <<m>> \in Seq(GoodMsgs(S))
    BY <2>1, ConcatProperties
  <2>3. Write(k, <<m>>) = [k EXCEPT !.down = k.down \o <<m>>]
    BY <1>2 DEF Write
  <2> DEFINE d == k.down \o <<m>>
  <2> HIDE DEF d
  <2>4. [k EXCEPT !.down = d] \in Socket(S) /\ SameShape(k, [k EXCEPT !.down = d])
        /\ [k EXCEPT !.down = d].pend = k.pend
    BY <2>2 DEF Socket, SameShape, d
  <2> QED
    BY <2>3, <2>4 DEF d
<1> QED
  BY <1>1, <1>2

\* flush_ack answers a settled frame.
LEMMA FlushFacts ==
  ASSUME NEW S, NEW k \in Socket(S)
  PROVE  Flush(k) \in Socket(S) /\ SameShape(k, Flush(k)) /\ Flush(k).pend = None
<1>1. CASE k.pend = None
  BY <1>1 DEF Flush, SameShape
<1>2. CASE k.pend # None
  <2>1. k.pend.f \in S
    BY <1>2 DEF Socket
  <2>2. Ack(k.pend.f) \in GoodMsgs(S)
    BY <2>1 DEF Ack, GoodMsgs
  <2> DEFINE l == Write(k, <<Ack(k.pend.f)>>)
  <2>3. l \in Socket(S) /\ SameShape(k, l)
    BY <2>2, WriteFacts
  <2>4. Flush(k) = [l EXCEPT !.pend = None]
    BY <1>2 DEF Flush
  <2> HIDE DEF l
  <2> QED
    BY <2>3, <2>4 DEF Socket, SameShape
<1> QED
  BY <1>1, <1>2

\* A connection that is over holds nothing any more.
LEMMA OverFacts ==
  ASSUME NEW S, NEW k \in Socket(S)
  PROVE  /\ Over(k) \in Socket(S) /\ Over(k).st = "over" /\ Over(k).up = <<>> /\ Over(k).cur = Torn
         /\ InOrder(Over(k), S)
<1>0. <<>> \in Seq(Frames \cup {Torn}) /\ "over" \in States
  BY EmptySeq DEF States
<1>1. /\ Over(k) \in Socket(S) /\ Over(k).st = "over" /\ Over(k).up = <<>> /\ Over(k).cur = Torn
  BY <1>0 DEF Over, Socket
<1> QED
  BY <1>1, FrameFacts DEF InOrder, Torn

\* GOING_AWAY ends a connection.
LEMMA GoAwayFacts ==
  ASSUME NEW S, NEW k \in Socket(S)
  PROVE  GoAway(k) \in Socket(S) /\ GoAway(k).st = "over" /\ GoAway(k).cur = Torn /\ InOrder(GoAway(k), S)
<1>1. GoingAway \in GoodMsgs(S)
  BY DEF GoodMsgs
<1>2. Write(Flush(k), <<GoingAway>>) \in Socket(S)
  BY <1>1, FlushFacts, WriteFacts
<1> QED
  BY <1>2, OverFacts DEF GoAway

\* A settled frame joins the run that is answered next.
LEMMA OweFacts ==
  ASSUME NEW S, NEW k \in Socket(S), NEW f \in S
  PROVE  /\ Owe(k, f) \in Socket(S) /\ Owe(k, f).st = "loop" /\ Owe(k, f).cur = Torn
         /\ Owe(k, f).up = k.up
<1> DEFINE n == IF k.pend = None THEN 1 ELSE k.pend.n + 1
           owed == [k EXCEPT !.pend = [f |-> f, n |-> n], !.st = "loop", !.cur = Torn]
<1>1. n \in Nat
  BY DEF Socket
<1>2. [f |-> f, n |-> n] \in {None} \cup [f : S, n : Nat]
  BY <1>1
<1> HIDE DEF n
<1>3. owed \in Socket(S) /\ owed.st = "loop" /\ owed.cur = Torn /\ owed.up = k.up
  BY <1>2 DEF Socket, States
<1>4. Owe(k, f) = IF n >= CoalesceMax THEN Flush(owed) ELSE owed
  BY DEF Owe, n
<1> HIDE DEF owed
<1>5. Flush(owed) \in Socket(S) /\ SameShape(owed, Flush(owed))
  BY <1>3, FlushFacts
<1> QED
  BY <1>3, <1>4, <1>5 DEF SameShape

\* The socket a sink drops keeps what it was sent.
LEMMA ClosedFacts ==
  ASSUME NEW S, NEW k \in Socket(S)
  PROVE  LET l == [k EXCEPT !.open = FALSE, !.down = <<>>]
         IN  l \in Socket(S) /\ SameShape(k, l)
<1>1. <<>> \in Seq(GoodMsgs(S))
  BY EmptySeq
<1> QED
  BY <1>1 DEF Socket, SameShape

\* Order on the wire depends on the shape, and stays as more frames are settled.
LEMMA InOrderGrows ==
  ASSUME NEW S, NEW T, S \subseteq T, NEW k, NEW l, SameShape(k, l), InOrder(k, S)
  PROVE  InOrder(l, T)
BY DEF InOrder, SameShape, Ahead

\* So does the window on the wire.
LEMMA WrittenGrows ==
  ASSUME NEW S, NEW T, S \subseteq T, NEW k, NEW l, SameShape(k, l), NEW w, Written(k, w, S)
  PROVE  Written(l, w, T)
BY DEF Written, SameShape, Ahead

-----------------------------------------------------------------------------
(* What the sender table remembers. *)

\* A sequence without its element i.
LEMMA RemoveAtFacts ==
  ASSUME NEW M, NEW u \in Seq(M), NEW i \in 1..Len(u)
  PROVE  /\ RemoveAt(u, i) \in Seq(M) /\ Len(RemoveAt(u, i)) = Len(u) - 1
         /\ \A j \in 1..(i - 1) : RemoveAt(u, i)[j] = u[j]
         /\ \A j \in i..(Len(u) - 1) : RemoveAt(u, i)[j] = u[j + 1]
<1> DEFINE p == SubSeq(u, 1, i - 1)
           q == SubSeq(u, i + 1, Len(u))
<1>1. Len(u) \in Nat /\ i \in Nat /\ i >= 1 /\ i <= Len(u)
  OBVIOUS
<1>2. p \in Seq(M) /\ Len(p) = i - 1 /\ \A j \in 1..(i - 1) : p[j] = u[j]
  BY <1>1, SubSeqProperties
<1>3. q \in Seq(M) /\ Len(q) = Len(u) - i /\ \A j \in 1..(Len(u) - i) : q[j] = u[j + i]
  BY <1>1, RestFacts
<1> HIDE DEF p, q
<1>4. /\ p \o q \in Seq(M) /\ Len(p \o q) = Len(p) + Len(q)
      /\ \A j \in 1..(Len(p) + Len(q)) : (p \o q)[j] = IF j <= Len(p) THEN p[j] ELSE q[j - Len(p)]
  BY <1>2, <1>3, ConcatProperties
<1>5. RemoveAt(u, i) = p \o q
  BY DEF RemoveAt, p, q
<1> DEFINE r == p \o q
<1> HIDE DEF r
<1>6. /\ r \in Seq(M) /\ Len(r) = Len(u) - 1
      /\ \A j \in 1..(Len(u) - 1) : r[j] = IF j <= i - 1 THEN p[j] ELSE q[j - (i - 1)]
  BY <1>1, <1>2, <1>3, <1>4 DEF r
<1>7. \A j \in 1..(i - 1) : r[j] = u[j]
  BY <1>1, <1>2, <1>6
<1>8. ASSUME NEW j \in i..(Len(u) - 1) PROVE r[j] = u[j + 1]
  <2>1. j \in 1..(Len(u) - 1) /\ ~(j <= i - 1) /\ j - (i - 1) \in 1..(Len(u) - i) /\ (j - (i - 1)) + i = j + 1
    BY <1>1
  <2> QED
    BY <1>3, <1>6, <2>1
<1> QED
  BY <1>5, <1>6, <1>7, <1>8 DEF r

\* The table remembers pair p as handled.
Remembers(u, p) == \E i \in 1..Len(u) : u[i].id = p.id /\ p.seq <= u[i].mark

\* Entry finds the entry of an identity, and is_resend asks its mark.
LEMMA EntryFacts ==
  ASSUME NEW M, NEW u \in Seq(M), NEW id, Holds(u, id), Unique(u)
  PROVE  /\ Entry(u, id) \in M /\ Entry(u, id).id = id
         /\ \A i \in 1..Len(u) : u[i].id = id => u[i] = Entry(u, id)
         /\ \E i \in 1..Len(u) : u[i] = Entry(u, id)
<1>1. DOMAIN u = 1..Len(u) /\ Range(u) = {u[i] : i \in 1..Len(u)}
  BY DEF Range
<1>2. PICK i \in 1..Len(u) : u[i].id = id
  BY <1>1 DEF Holds
<1>3. Entry(u, id) \in Range(u) /\ Entry(u, id).id = id
  BY <1>1, <1>2 DEF Entry
<1>4. PICK j \in 1..Len(u) : u[j] = Entry(u, id)
  BY <1>1, <1>3
<1>5. \A k \in 1..Len(u) : u[k].id = id => k = j
  BY <1>3, <1>4 DEF Unique
<1>6. u[j] \in M
  BY <1>4
<1> QED
  BY <1>3, <1>4, <1>5, <1>6

\* is_resend is what the table remembers.
LEMMA ResendFacts ==
  ASSUME NEW M, NEW u \in Seq(M), Unique(u), NEW p
  PROVE  IsResend(u, p) <=> Remembers(u, p)
<1>1. Holds(u, p.id) <=> \E i \in 1..Len(u) : u[i].id = p.id
  BY DEF Holds
<1>2. CASE Holds(u, p.id)
  BY <1>2, EntryFacts DEF IsResend, Remembers
<1>3. CASE ~Holds(u, p.id)
  BY <1>1, <1>3 DEF IsResend, Remembers
<1> QED
  BY <1>2, <1>3

\* The table without an identity.
LEMMA WithoutFacts ==
  ASSUME NEW M, NEW u \in Seq(M), NEW id, Unique(u)
  PROVE  /\ Without(u, id) \in Seq(M) /\ Unique(Without(u, id))
         /\ \A i \in 1..Len(Without(u, id)) :
              /\ Without(u, id)[i].id # id
              /\ \E j \in 1..Len(u) : u[j] = Without(u, id)[i]
         /\ \A j \in 1..Len(u) : u[j].id # id =>
              \E i \in 1..Len(Without(u, id)) : Without(u, id)[i] = u[j]
<1>0. DOMAIN u = 1..Len(u) /\ Len(u) \in Nat
  OBVIOUS
<1>1. CASE ~Holds(u, id)
  BY <1>0, <1>1 DEF Without, Holds
<1>2. CASE Holds(u, id)
  <2> DEFINE i == CHOOSE x \in DOMAIN u : u[x].id = id
             r == RemoveAt(u, i)
  <2>1. i \in 1..Len(u) /\ u[i].id = id
    BY <1>0, <1>2 DEF Holds
  <2>2. Without(u, id) = r
    BY <1>2 DEF Without
  <2> HIDE DEF i
  <2>3. /\ r \in Seq(M) /\ Len(r) = Len(u) - 1
        /\ \A j \in 1..(i - 1) : r[j] = u[j]
        /\ \A j \in i..(Len(u) - 1) : r[j] = u[j + 1]
    BY <2>1, RemoveAtFacts
  <2> HIDE DEF r
  <2> DEFINE from(j) == IF j < i THEN j ELSE j + 1
  <2>4. ASSUME NEW j \in 1..Len(r)
        PROVE  r[j] = u[from(j)] /\ from(j) \in 1..Len(u) /\ from(j) # i
    BY <1>0, <2>1, <2>3
  <2>5. \A j, k \in 1..Len(r) : from(j) = from(k) => j = k
    BY <1>0, <2>1, <2>3
  <2> HIDE DEF from
  <2>6. \A j \in 1..Len(r) : r[j].id # id /\ \E k \in 1..Len(u) : u[k] = r[j]
    BY <2>1, <2>4 DEF Unique
  <2>7. Unique(r)
    BY <2>4, <2>5 DEF Unique
  <2>8. ASSUME NEW j \in 1..Len(u), u[j].id # id PROVE \E k \in 1..Len(r) : r[k] = u[j]
    <3>1. j # i
      BY <2>1, <2>8
    <3>2. CASE j < i
      <4>1. j \in 1..(i - 1) /\ j \in 1..Len(r)
        BY <1>0, <2>1, <2>3, <3>2
      <4> QED
        BY <2>3, <4>1
    <3>3. CASE j > i
      <4>1. j - 1 \in i..(Len(u) - 1) /\ j - 1 \in 1..Len(r) /\ (j - 1) + 1 = j
        BY <1>0, <2>1, <2>3, <3>3
      <4> QED
        BY <2>3, <4>1
    <3> QED
      BY <2>1, <3>1, <3>2, <3>3
  <2> QED
    BY <2>2, <2>3, <2>6, <2>7, <2>8
<1> QED
  BY <1>1, <1>2

\* Table v is u with entry x in place of the one of x's identity.
Touched(u, x, v) ==
  /\ \A i \in 1..Len(v) : v[i] = x \/ (v[i].id # x.id /\ \E j \in 1..Len(u) : u[j] = v[i])
  /\ \A j \in 1..Len(u) : u[j].id # x.id => \E i \in 1..Len(v) : v[i] = u[j]
  /\ \E i \in 1..Len(v) : v[i] = x

\* An identity that is touched goes to the end, with the mark it is given.
LEMMA TouchFacts ==
  ASSUME NEW M, NEW u \in Seq(M), NEW id, NEW mark, NEW x \in M, x = [id |-> id, mark |-> mark], Unique(u)
  PROVE  Touch(u, id, mark) \in Seq(M) /\ Unique(Touch(u, id, mark)) /\ Touched(u, x, Touch(u, id, mark))
<1> DEFINE r == Without(u, id)
           v == Append(r, x)
<1>1. x.id = id
  OBVIOUS
<1>2. /\ r \in Seq(M) /\ Unique(r)
      /\ \A i \in 1..Len(r) : r[i].id # id /\ \E j \in 1..Len(u) : u[j] = r[i]
      /\ \A j \in 1..Len(u) : u[j].id # id => \E i \in 1..Len(r) : r[i] = u[j]
  BY WithoutFacts
<1>3. Touch(u, id, mark) = v
  BY DEF Touch, r
<1> HIDE DEF r
<1>4. /\ v \in Seq(M) /\ Len(v) = Len(r) + 1 /\ v[Len(r) + 1] = x
      /\ \A i \in 1..Len(r) : v[i] = r[i]
  BY <1>2, AppendFacts
<1>5. Len(r) \in Nat /\ 1..Len(v) = 1..Len(r) \cup {Len(r) + 1}
  BY <1>2, <1>4
<1> HIDE DEF v
<1>6. Unique(v)
  <2>1. v[Len(r) + 1].id = id /\ \A i \in 1..Len(r) : v[i].id = r[i].id /\ v[i].id # id
    BY <1>1, <1>2, <1>4
  <2>2. \A i, j \in 1..Len(r) : v[i].id = v[j].id => i = j
    BY <1>2, <2>1 DEF Unique
  <2> QED
    BY <1>5, <2>1, <2>2 DEF Unique
<1>7. \A i \in 1..Len(v) : v[i] = x \/ (v[i].id # id /\ \E j \in 1..Len(u) : u[j] = v[i])
  BY <1>2, <1>4, <1>5, ZenonT(60)
<1>8. \A j \in 1..Len(u) : u[j].id # id => \E i \in 1..Len(v) : v[i] = u[j]
  BY <1>2, <1>4, <1>5, SMTT(30)
<1>9. \E i \in 1..Len(v) : v[i] = x
  BY <1>4, <1>5
<1> QED
  BY <1>1, <1>3, <1>4, <1>6, <1>7, <1>8, <1>9 DEF Touched

\* The later of two marks.
LEMMA MaxOfTwo ==
  ASSUME NEW a \in Nat, NEW b \in Nat
  PROVE  Max({a, b}) \in {a, b} /\ a <= Max({a, b}) /\ b <= Max({a, b})
<1>1. \E x \in {a, b} : \A y \in {a, b} : x >= y
  BY a >= b \/ b >= a
<1> DEFINE m == CHOOSE x \in {a, b} : \A y \in {a, b} : x >= y
<1>2. m \in {a, b} /\ \A y \in {a, b} : m >= y
  BY <1>1
<1>3. Max({a, b}) = m
  BY DEF Max
<1> HIDE DEF m
<1> QED
  BY <1>2, <1>3

\* An entry is its identity and its mark.
LEMMA MarkFacts ==
  ASSUME NEW e \in Mark
  PROVE  e = [id |-> e.id, mark |-> e.mark] /\ e.mark \in Nat
BY DEF Mark

\* A frame that is seen again changes the order of eviction and no mark.
LEMMA SeenFacts ==
  ASSUME NEW M \in SUBSET Mark, NEW u \in Seq(M), Unique(u), NEW p
  PROVE  /\ Seen(u, p) \in Seq(M) /\ Unique(Seen(u, p))
         /\ \A q : Remembers(u, q) => Remembers(Seen(u, p), q)
<1>1. CASE ~Holds(u, p.id)
  BY <1>1 DEF Seen
<1>2. CASE Holds(u, p.id)
  <2> DEFINE e == Entry(u, p.id)
             v == Touch(u, p.id, e.mark)
  <2>1. /\ e \in M /\ e.id = p.id
        /\ \A i \in 1..Len(u) : u[i].id = p.id => u[i] = e
    BY <1>2, EntryFacts
  <2>2. Seen(u, p) = v
    BY <1>2 DEF Seen
  <2> HIDE DEF e
  <2>3. [id |-> p.id, mark |-> e.mark] = e
    BY <2>1, MarkFacts
  <2>4. v \in Seq(M) /\ Unique(v) /\ Touched(u, e, v)
    BY <2>1, <2>3, TouchFacts
  <2> HIDE DEF v
  <2>5. \A j \in 1..Len(u) : \E i \in 1..Len(v) : v[i] = u[j]
    BY <2>1, <2>4 DEF Touched
  <2>6. \A q : Remembers(u, q) => Remembers(v, q)
    BY <2>5 DEF Remembers
  <2> QED
    BY <2>2, <2>4, <2>6
<1> QED
  BY <1>1, <1>2

\* The table has room for an identity.
LEMMA CapacityFacts == Capacity >= 1 /\ Capacity \in Nat
<1>1. MaxConnections + MaxConnections \div 4 \in Nat
  BY HopAssumption
<1> QED
  BY <1>1, MaxOfTwo DEF Capacity

\* A mark that is raised is remembered, and no other is lost unless its identity is.
LEMMA RaiseFacts ==
  ASSUME NEW M \in SUBSET Mark, NEW u \in Seq(M), Unique(u), NEW p, p.seq \in Nat,
         [id |-> p.id, mark |-> p.seq] \in M
  PROVE  /\ Raise(u, p) \in Seq(M) /\ Unique(Raise(u, p))
         /\ Remembers(Raise(u, p), p)
         /\ \A q : q.seq \in Nat /\ Remembers(u, q) /\ Holds(Raise(u, p), q.id) => Remembers(Raise(u, p), q)
<1>1. CASE Holds(u, p.id)
  <2> DEFINE e == Entry(u, p.id)
             m == Max({e.mark, p.seq})
             v == Touch(u, p.id, m)
  <2>1. /\ e \in M /\ e.id = p.id
        /\ \A i \in 1..Len(u) : u[i].id = p.id => u[i] = e
    BY <1>1, EntryFacts
  <2>2. Raise(u, p) = v
    BY <1>1 DEF Raise
  <2> HIDE DEF e
  <2>3. [id |-> p.id, mark |-> e.mark] = e /\ e.mark \in Nat
    BY <2>1, MarkFacts
  <2>4. m \in {e.mark, p.seq} /\ e.mark <= m /\ p.seq <= m /\ m \in Nat
    BY <2>3, MaxOfTwo
  <2> HIDE DEF m
  <2> DEFINE x == [id |-> p.id, mark |-> m]
  <2>5. x \in M /\ x.id = p.id /\ x.mark = m
    BY <2>1, <2>3, <2>4
  <2>6. v \in Seq(M) /\ Unique(v) /\ Touched(u, x, v)
    BY <2>5, TouchFacts
  <2> HIDE DEF v, x
  <2>7. PICK k \in 1..Len(v) : v[k].id = p.id /\ v[k].mark = m
    BY <2>5, <2>6 DEF Touched
  <2>8. Remembers(v, p)
    BY <2>4, <2>7 DEF Remembers
  <2>9. ASSUME NEW q, q.seq \in Nat, Remembers(u, q) PROVE Remembers(v, q)
    <3>1. PICK j \in 1..Len(u) : u[j].id = q.id /\ q.seq <= u[j].mark
      BY <2>9 DEF Remembers
    <3>2. CASE u[j].id = p.id
      <4>1. u[j] = e
        BY <2>1, <3>2
      <4>2. q.seq <= e.mark
        BY <3>1, <4>1
      <4>3. q.seq <= m
        BY <2>3, <2>4, <2>9, <4>2
      <4>4. v[k].id = q.id
        BY <2>7, <3>1, <3>2
      <4> QED
        BY <2>7, <4>3, <4>4 DEF Remembers
    <3>3. CASE u[j].id # p.id
      BY <2>5, <2>6, <3>1, <3>3 DEF Remembers, Touched
    <3> QED
      BY <3>2, <3>3
  <2> QED
    BY <2>2, <2>6, <2>8, <2>9
<1>2. CASE ~Holds(u, p.id)
  <2> DEFINE w == IF Len(u) >= Capacity THEN Tail(u) ELSE u
             v == Touch(w, p.id, p.seq)
  <2>1. Raise(u, p) = v
    BY <1>2 DEF Raise
  <2>2. /\ w \in Seq(M) /\ Unique(w)
        /\ \A j \in 1..Len(u) : \/ \E i \in 1..Len(w) : w[i] = u[j]
                                \/ \A i \in 1..Len(w) : w[i].id # u[j].id
    <3>1. CASE ~(Len(u) >= Capacity)
      <4>1. w = u
        BY <3>1
      <4> QED
        BY <4>1
    <3>2. CASE Len(u) >= Capacity
      <4>1. w = Tail(u)
        BY <3>2
      <4>0. u # <<>>
        BY <3>2, CapacityFacts
      <4>2. /\ w \in Seq(M) /\ Len(w) = Len(u) - 1 /\ Len(u) \in Nat /\ Len(u) >= 1
            /\ \A i \in 1..(Len(u) - 1) : w[i] = u[i + 1]
        BY <4>0, <4>1, TailFacts
      <4> HIDE DEF w
      <4>3. \A i \in 1..Len(w) : w[i] = u[i + 1] /\ i + 1 \in 1..Len(u) /\ i + 1 # 1
        BY <4>2
      <4>4. Unique(w)
        BY <4>2, <4>3 DEF Unique
      <4>5. ASSUME NEW j \in 1..Len(u), j # 1 PROVE \E i \in 1..Len(w) : w[i] = u[j]
        <5>1. j - 1 \in 1..Len(w) /\ (j - 1) + 1 = j
          BY <4>2, <4>5
        <5> QED
          BY <4>3, <5>1
      <4>6. \A i \in 1..Len(w) : w[i].id # u[1].id
        BY <4>2, <4>3 DEF Unique
      <4> QED
        BY <4>2, <4>4, <4>5, <4>6
    <3> QED
      BY <3>1, <3>2
  <2> HIDE DEF w
  <2> DEFINE x == [id |-> p.id, mark |-> p.seq]
  <2>0. x \in M /\ x.id = p.id /\ x.mark = p.seq
    OBVIOUS
  <2>3. v \in Seq(M) /\ Unique(v) /\ Touched(w, x, v)
    BY <2>0, <2>2, TouchFacts
  <2> HIDE DEF v, x
  <2>4. Remembers(v, p)
    <3>1. PICK k \in 1..Len(v) : v[k].id = p.id /\ v[k].mark = p.seq
      BY <2>0, <2>3 DEF Touched
    <3> QED
      BY <3>1 DEF Remembers
  <2>5. \A j \in 1..Len(u) : u[j].id # p.id
    BY <1>2 DEF Holds
  <2>6. ASSUME NEW q, Remembers(u, q), Holds(v, q.id) PROVE Remembers(v, q)
    <3>1. PICK j \in 1..Len(u) : u[j].id = q.id /\ q.seq <= u[j].mark
      BY <2>6 DEF Remembers
    <3>2. PICK i \in 1..Len(v) : v[i].id = q.id
      BY <2>3, <2>6 DEF Holds
    <3>3. q.id # p.id
      BY <2>5, <3>1
    <3>4. \E y \in 1..Len(w) : w[y].id = q.id
      BY <2>0, <2>3, <3>2, <3>3 DEF Touched
    <3>5. PICK y \in 1..Len(w) : w[y] = u[j]
      BY <2>2, <3>1, <3>4
    <3>6. \E z \in 1..Len(v) : v[z] = u[j]
      BY <2>0, <2>3, <3>1, <3>3, <3>5, SMTT(30) DEF Touched
    <3> QED
      BY <3>1, <3>6 DEF Remembers
  <2> QED
    BY <2>1, <2>3, <2>4, <2>6
<1> QED
  BY <1>1, <1>2

-----------------------------------------------------------------------------
(* The steps of logit_in: a task changes its own socket. *)

\* What the task of c has done to its socket, which is k now.
TaskStep(c, k) ==
  /\ UNCHANGED <<head, conn, resend, hello>>
  /\ socks' = [socks EXCEPT ![c] = k] /\ k \in Socket(settled') /\ InOrder(k, settled')
  /\ settled \subseteq settled' /\ settled' \subseteq Frames
  /\ k.st # "over" =>
       /\ socks[c].st # "over"
       /\ \A g \in Frames : Ahead(socks[c], g, Len(socks[c].up) + 1, settled)
                              => Ahead(k, g, Len(k.up) + 1, settled')

\* Such a step has only to be right about the table and the counters.
LEMMA TaskStepKeeps ==
  ASSUME SafeInv, NEW c \in Conns, NEW k, TaskStep(c, k),
         table' \in Seq(SoundMarks(settled')), Unique(table'), FirstCopiesInOrder',
         excused' \subseteq Frames, copies' \in [Frames -> 0..2], faults' \in Nat
  PROVE  SafeInv'
<1>1. /\ head \in 1..(Len(Queue) + 1) /\ resend \subseteq Ids /\ hello \in {0} \cup Conns
      /\ conn # None => conn \in Connection(settled)
      /\ socks \in [Conns -> Socket(settled)] /\ UNCHANGED <<head, conn, resend, hello>>
      /\ settled \subseteq settled' /\ settled' \subseteq Frames
      /\ socks' = [socks EXCEPT ![c] = k] /\ k \in Socket(settled') /\ InOrder(k, settled')
  BY DEF SafeInv, TypeOK, TaskStep
<1>2. conn' # None => conn' \in Connection(settled')
  BY <1>1, GrowConnection
<1>3. \A d \in Conns : socks[d] \in Socket(settled')
  BY <1>1, GrowSocket
<1>4. socks' \in [Conns -> Socket(settled')]
  BY <1>1, <1>3
<1>5. TypeOK'
  BY <1>1, <1>2, <1>4 DEF TypeOK
<1>6. TableInv' /\ WindowInv'
  BY <1>1 DEF SafeInv, TableInv, WindowInv
<1>7. WireInv'
  <2>1. ASSUME NEW d \in Conns PROVE InOrder(socks'[d], settled')
    <3>1. CASE d = c
      BY <1>1, <3>1
    <3>2. CASE d # c
      <4>1. socks'[d] = socks[d] /\ InOrder(socks[d], settled) /\ SameShape(socks[d], socks[d])
        BY <1>1, <3>2 DEF SafeInv, WireInv, SameShape
      <4> QED
        BY <1>1, <4>1, InOrderGrows
    <3> QED
      BY <3>1, <3>2
  <2> QED
    BY <2>1 DEF WireInv
<1>8. WrittenInv'
  <2>1. SUFFICES ASSUME conn # None PROVE Written(socks'[conn.c], conn.inFlight, settled')
    BY <1>1 DEF WrittenInv
  <2>2. conn.c \in Conns /\ Written(socks[conn.c], conn.inFlight, settled) /\ conn.inFlight \in Seq(WindowEntry(settled))
    BY <1>1, <2>1 DEF SafeInv, WrittenInv, Connection
  <2>3. \A i \in 1..Len(conn.inFlight) : conn.inFlight[i].f \in Frames
    BY <2>2 DEF WindowEntry
  <2>4. CASE conn.c = c
    <3>1. socks'[conn.c] = k
      BY <1>1, <2>4
    <3>2. ASSUME k.st # "over", NEW i \in 1..Len(conn.inFlight)
          PROVE  Ahead(k, conn.inFlight[i].f, Len(k.up) + 1, settled')
      <4>1. Ahead(socks[c], conn.inFlight[i].f, Len(socks[c].up) + 1, settled)
        BY <2>2, <2>4, <3>2 DEF Written, TaskStep
      <4> QED
        BY <2>3, <3>2, <4>1 DEF TaskStep
    <3> QED
      BY <3>1, <3>2 DEF Written
  <2>5. CASE conn.c # c
    <3>1. socks'[conn.c] = socks[conn.c]
      BY <1>1, <2>2, <2>5
    <3> QED
      BY <1>1, <2>2, <3>1, WrittenGrows DEF SameShape
  <2> QED
    BY <2>4, <2>5
<1>9. NothingLost'
  BY <1>1 DEF SafeInv, NothingLost
<1> QED
  BY <1>5, <1>6, <1>7, <1>8, <1>9 DEF SafeInv

\* A step that changes neither what the task has to handle nor what is settled.
LEMMA TaskStays ==
  ASSUME SafeInv, NEW c \in Conns, NEW k \in Socket(settled), UNCHANGED <<head, conn, resend, hello, settled>>,
         socks' = [socks EXCEPT ![c] = k], k.up = socks[c].up, k.cur = socks[c].cur,
         socks[c].st \in {"hello", "loop"}, k.st \in {"hello", "loop"}
  PROVE  TaskStep(c, k)
BY DEF TaskStep, SafeInv, TypeOK, WireInv, InOrder, Ahead

\* A step that ends the connection.
LEMMA TaskEnds ==
  ASSUME SafeInv, NEW c \in Conns, NEW k \in Socket(settled), UNCHANGED <<head, conn, resend, hello, settled>>,
         socks' = [socks EXCEPT ![c] = k], k.st = "over", InOrder(k, settled)
  PROVE  TaskStep(c, k)
BY DEF TaskStep, SafeInv, TypeOK

\* The rest of the state, when a task writes.
LEMMA QuietKeeps ==
  ASSUME SafeInv, NEW c \in Conns, NEW k, TaskStep(c, k), UNCHANGED <<table, copies, settled, excused>>,
         faults' = faults \/ Fault
  PROVE  SafeInv'
<1>1. /\ table' \in Seq(SoundMarks(settled')) /\ Unique(table') /\ FirstCopiesInOrder'
      /\ excused' \subseteq Frames /\ copies' \in [Frames -> 0..2] /\ faults \in Nat
  BY DEF SafeInv, TypeOK, TableInv, FirstCopiesInOrder
<1>2. faults' \in Nat
  BY <1>1 DEF Fault
<1> QED
  BY <1>1, <1>2, TaskStepKeeps

\* A socket of the listener.
LEMMA SocketFacts ==
  ASSUME SafeInv, NEW c \in Conns
  PROVE  /\ socks[c] \in Socket(settled) /\ InOrder(socks[c], settled)
         /\ socks[c].up \in Seq(Frames \cup {Torn}) /\ socks[c].down \in Seq(GoodMsgs(settled))
BY DEF SafeInv, TypeOK, WireInv, Socket

\* Marks that a HelloAck names are entries of the table.
LEMMA HelloAckIsGood ==
  ASSUME SafeInv, NEW ids
  PROVE  HelloAck(Marks(table, ids)) \in GoodMsgs(settled)
<1>1. table \in Seq(SoundMarks(settled))
  BY DEF SafeInv, TypeOK
<1>2. Range(table) \subseteq SoundMarks(settled)
  BY <1>1 DEF Range
<1>3. Marks(table, ids) \in SUBSET SoundMarks(settled)
  BY <1>2 DEF Marks
<1> HIDE DEF Marks
<1> QED
  BY <1>3 DEF HelloAck, GoodMsgs

\* AnswerHello keeps the invariant.
LEMMA AnswerHelloKeeps ==
  ASSUME SafeInv, NEW c \in Conns, AnswerHello(c)
  PROVE  SafeInv'
<1> DEFINE s == socks[c]
           no == Write(s, <<Reject>>)
           yes == Write(s, <<HelloAck(Marks(table, s.asked))>>)
           k == IF Cardinality(Served) >= MaxConnections THEN Over(no) ELSE [yes EXCEPT !.st = "loop"]
<1>0. /\ s.st = "hello" /\ socks' = [socks EXCEPT ![c] = k]
      /\ UNCHANGED <<head, conn, resend, hello, table, copies, settled, excused, faults>>
  BY DEF AnswerHello, senderVars, ghosts
<1>1. s \in Socket(settled) /\ InOrder(s, settled)
  BY SocketFacts
<1>2. Reject \in GoodMsgs(settled) /\ HelloAck(Marks(table, s.asked)) \in GoodMsgs(settled)
  BY HelloAckIsGood DEF GoodMsgs
<1>3. no \in Socket(settled) /\ yes \in Socket(settled) /\ SameShape(s, yes)
  BY <1>1, <1>2, WriteFacts
<1> HIDE DEF no, yes
<1>4. CASE k = Over(no)
  <2>1. TaskStep(c, k)
    BY <1>0, <1>3, <1>4, OverFacts, TaskEnds
  <2> QED
    BY <1>0, <2>1, QuietKeeps
<1>5. CASE k = [yes EXCEPT !.st = "loop"]
  <2>1. k \in Socket(settled) /\ k.st = "loop" /\ k.up = s.up /\ k.cur = s.cur
    BY <1>3, <1>5 DEF Socket, States, SameShape
  <2>2. TaskStep(c, k)
    BY <1>0, <2>1, TaskStays
  <2> QED
    BY <1>0, <2>2, QuietKeeps
<1> QED
  BY <1>4, <1>5

\* WriteOwedAck keeps the invariant.
LEMMA WriteOwedAckKeeps ==
  ASSUME SafeInv, NEW c \in Conns, WriteOwedAck(c)
  PROVE  SafeInv'
<1> DEFINE s == socks[c]
           k == Flush(s)
<1>0. /\ s.st = "loop" /\ socks' = [socks EXCEPT ![c] = k]
      /\ UNCHANGED <<head, conn, resend, hello, table, copies, settled, excused, faults>>
  BY DEF WriteOwedAck, senderVars, ghosts
<1>1. k \in Socket(settled) /\ SameShape(s, k)
  BY SocketFacts, FlushFacts
<1> HIDE DEF k
<1>2. TaskStep(c, k)
  BY <1>0, <1>1, TaskStays DEF SameShape
<1> QED
  BY <1>0, <1>2, QuietKeeps

\* A task that ends its connection keeps the invariant: EndByListener, EndByPeer,
\* Reset.
LEMMA EndsKeeps ==
  ASSUME SafeInv, NEW c \in Conns, EndByListener(c) \/ EndByPeer(c) \/ Reset(c)
  PROVE  SafeInv'
<1> DEFINE s == socks[c]
<1>1. s \in Socket(settled) /\ s.down \in Seq(GoodMsgs(settled))
  BY SocketFacts
<1>2. PICK k \in Socket(settled) : socks' = [socks EXCEPT ![c] = k] /\ k.st = "over" /\ InOrder(k, settled)
  <2>1. CASE EndByListener(c)
    BY <1>1, <2>1, GoAwayFacts DEF EndByListener
  <2>2. CASE EndByPeer(c)
    <3>1. Flush(s) \in Socket(settled)
      BY <1>1, FlushFacts
    <3> QED
      BY <2>2, <3>1, OverFacts DEF EndByPeer
  <2>3. CASE Reset(c)
    <3>1. PICK n \in 0..Len(s.down) : socks' = [socks EXCEPT ![c] = Over([s EXCEPT !.down = SubSeq(s.down, 1, n)])]
      BY <2>3 DEF Reset
    <3>2. SubSeq(s.down, 1, n) \in Seq(GoodMsgs(settled))
      <4>1. n \in Nat /\ n <= Len(s.down) /\ Len(s.down) \in Nat
        BY <1>1, <3>1
      <4> QED
        BY <1>1, <4>1, SubSeqProperties
    <3>3. [s EXCEPT !.down = SubSeq(s.down, 1, n)] \in Socket(settled)
      BY <1>1, <3>2 DEF Socket
    <3> QED
      BY <3>1, <3>3, OverFacts
  <2> QED
    BY <2>1, <2>2, <2>3
<1>3. /\ UNCHANGED <<head, conn, resend, hello, table, copies, settled, excused>>
      /\ faults' = faults \/ Fault
  BY DEF EndByListener, EndByPeer, Reset, senderVars, ghosts
<1>4. TaskStep(c, k)
  BY <1>2, <1>3, TaskEnds
<1> QED
  BY <1>3, <1>4, QuietKeeps

\* A frame is settled after all before it.
LEMMA SettleNext ==
  ASSUME FirstCopiesInOrder, NEW f \in Frames, \A g \in Frames : g < f => g \in settled,
         settled' = settled \cup {f}
  PROVE  FirstCopiesInOrder' /\ \A g \in Frames : g <= f => g \in settled'
<1>1. ASSUME NEW g \in Frames, NEW h \in Frames, g < h, h \in settled' PROVE g \in settled'
  BY <1>1 DEF FirstCopiesInOrder
<1>2. ASSUME NEW g \in Frames, g <= f PROVE g \in settled'
  <2>1. g < f \/ g = f
    BY <1>2, FrameFacts
  <2> QED
    BY <2>1
<1> QED
  BY <1>1, <1>2 DEF FirstCopiesInOrder

\* The task reads its next frame f: what is left is in order when f is settled or
\* at hand.
LEMMA ConsumedFacts ==
  ASSUME NEW S, NEW T, S \subseteq T, NEW s \in Socket(S), InOrder(s, S), s.cur = Torn, s.up # <<>>,
         NEW f, f = Head(s.up), f # Torn,
         NEW k, k.up = Tail(s.up), k.st # "taken",
         \/ k.cur = Torn /\ k.st # "forward" /\ f \in T
         \/ k.cur = f /\ k.st = "forward"
  PROVE  /\ InOrder(k, T) /\ f \in Frames /\ \A g \in Frames : g < f => g \in S
         /\ \A g \in Frames : Ahead(s, g, Len(s.up) + 1, S) => Ahead(k, g, Len(k.up) + 1, T)
<1>0. 0 \notin Frames /\ Frames \subseteq Nat /\ Torn = 0
  BY FrameFacts DEF Torn
<1>1. /\ s.up \in Seq(Frames \cup {Torn}) /\ Len(s.up) \in Nat /\ Len(s.up) >= 1
      /\ f = s.up[1] /\ f \in Frames /\ Len(k.up) = Len(s.up) - 1
      /\ \A i \in 1..(Len(s.up) - 1) : k.up[i] = s.up[i + 1]
  <2>1. s.up \in Seq(Frames \cup {Torn})
    BY DEF Socket
  <2>2. /\ Head(s.up) \in Frames \cup {Torn} /\ Head(s.up) = s.up[1]
        /\ Len(Tail(s.up)) = Len(s.up) - 1
        /\ \A i \in 1..(Len(s.up) - 1) : Tail(s.up)[i] = s.up[i + 1]
    BY <2>1, TailFacts
  <2> QED
    BY <2>1, <2>2
<1>2. ASSUME NEW g \in Frames, g < f PROVE g \in S
  <2>1. Ahead(s, g, 1, S)
    BY <1>1, <1>2 DEF InOrder
  <2> QED
    BY <1>0, <2>1 DEF Ahead
<1>3. ASSUME NEW g \in Frames, NEW j \in 1..Len(s.up), Ahead(s, g, j + 1, S)
      PROVE  Ahead(k, g, j, T)
  <2>1. CASE g \in S \/ g = s.cur
    BY <1>0, <2>1 DEF Ahead
  <2>2. ASSUME NEW i \in 1..((j + 1) - 1), s.up[i] = g PROVE Ahead(k, g, j, T)
    <3>1. CASE i = 1
      BY <1>1, <2>2, <3>1 DEF Ahead
    <3>2. CASE i # 1
      <4>1. i - 1 \in 1..(j - 1) /\ i - 1 \in 1..(Len(s.up) - 1) /\ (i - 1) + 1 = i
        BY <1>1, <1>3, <2>2, <3>2
      <4>2. k.up[i - 1] = g
        BY <1>1, <2>2, <4>1
      <4> QED
        BY <4>1, <4>2 DEF Ahead
    <3> QED
      BY <3>1, <3>2
  <2> QED
    BY <1>3, <2>1, <2>2 DEF Ahead
<1>4. ASSUME NEW g \in Frames, Ahead(s, g, Len(s.up) + 1, S) PROVE Ahead(k, g, Len(k.up) + 1, T)
  <2>1. Len(s.up) \in 1..Len(s.up) /\ Len(k.up) + 1 = Len(s.up)
    BY <1>1
  <2> QED
    BY <1>3, <1>4, <2>1
<1>5. ASSUME NEW j \in 1..Len(k.up), NEW g \in Frames, g < k.up[j] PROVE Ahead(k, g, j, T)
  <2>1. j + 1 \in 1..Len(s.up) /\ j \in 1..Len(s.up) /\ k.up[j] = s.up[j + 1]
    BY <1>1, <1>5
  <2>2. Ahead(s, g, j + 1, S)
    BY <1>5, <2>1 DEF InOrder
  <2> QED
    BY <1>3, <2>1, <2>2
<1>6. \A g \in Frames : g < k.cur => g \in T
  BY <1>0, <1>1, <1>2
<1>7. k.st \in {"forward", "taken"} <=> k.cur # Torn
  OBVIOUS
<1> QED
  BY <1>1, <1>2, <1>4, <1>5, <1>6, <1>7 DEF InOrder

\* What the table remembers is settled.
LEMMA RememberedIsSettled ==
  ASSUME SafeInv, NEW f \in Frames, IsResend(table, Queue[f])
  PROVE  f \in settled
<1>1. table \in Seq(SoundMarks(settled)) /\ Unique(table)
  BY DEF SafeInv, TypeOK, TableInv
<1>2. Remembers(table, Queue[f])
  BY <1>1, ResendFacts
<1>3. PICK i \in 1..Len(table) : table[i].id = Queue[f].id /\ Queue[f].seq <= table[i].mark
  BY <1>2 DEF Remembers
<1>4. table[i] \in SoundMarks(settled)
  BY <1>1, <1>3
<1> QED
  BY <1>3, <1>4 DEF SoundMarks, CoveredBy

\* A raised mark is sound.
LEMMA RaiseKeepsTable ==
  ASSUME SafeInv, NEW f \in Frames, settled \subseteq settled', \A g \in Frames : g <= f => g \in settled',
         table' = Raise(table, Queue[f])
  PROVE  table' \in Seq(SoundMarks(settled')) /\ Unique(table')
<1> DEFINE M == SoundMarks(settled')
           p == Queue[f]
<1>1. M \in SUBSET Mark /\ table \in Seq(M) /\ Unique(table) /\ p.seq \in Nat
  <2>1. Seq(SoundMarks(settled)) \subseteq Seq(M)
    BY GrowMarks, SeqGrows
  <2> QED
    BY <2>1, FrameFacts DEF SafeInv, TypeOK, TableInv, SoundMarks
<1>2. [id |-> p.id, mark |-> p.seq] \in M
  BY <1>1, MarkIsSound
<1> HIDE DEF M, p
<1>3. Raise(table, p) \in Seq(M) /\ Unique(Raise(table, p))
  BY <1>1, <1>2, RaiseFacts
<1> QED
  BY <1>3 DEF M, p

\* So is a mark that is seen again.
LEMMA SeenKeepsTable ==
  ASSUME SafeInv, NEW p, table' = Seen(table, p), settled' = settled
  PROVE  table' \in Seq(SoundMarks(settled')) /\ Unique(table')
<1>1. SoundMarks(settled) \in SUBSET Mark /\ table \in Seq(SoundMarks(settled)) /\ Unique(table)
  BY DEF SafeInv, TypeOK, TableInv, SoundMarks
<1> QED
  BY <1>1, SeenFacts

\* TakeFrame keeps the invariant: a refused frame and a resend are settled, and any
\* other is at hand.
LEMMA TakeFrameKeeps ==
  ASSUME SafeInv, NEW c \in Conns, TakeFrame(c)
  PROVE  SafeInv'
<1> DEFINE s == socks[c]
           f == Head(s.up)
           k == [s EXCEPT !.up = Tail(s.up)]
           run == IF OtherIdentity(k, f) THEN Flush(k) ELSE k
<1>0. /\ s.st = "loop" /\ s.up # <<>> /\ f # Torn
      /\ UNCHANGED <<head, conn, resend, hello, copies, faults>>
  BY DEF TakeFrame, senderVars
<1>1. s \in Socket(settled) /\ InOrder(s, settled) /\ s.up \in Seq(Frames \cup {Torn})
  BY SocketFacts
<1>2. s.cur = Torn /\ Tail(s.up) \in Seq(Frames \cup {Torn}) /\ f \in Frames
  <2>1. f \in Frames \cup {Torn} /\ Tail(s.up) \in Seq(Frames \cup {Torn})
    BY <1>0, <1>1, TailFacts
  <2> QED
    BY <1>0, <1>1, <2>1 DEF InOrder
<1>3. k \in Socket(settled) /\ k.up = Tail(s.up) /\ k.st = "loop" /\ k.cur = Torn
  BY <1>0, <1>1, <1>2 DEF Socket
<1>4. CASE f \in Refused
  <2> DEFINE l == Write(Flush(k), <<RejectedAck(f)>>)
  <2>0. /\ table' = Raise(table, Queue[f]) /\ socks' = [socks EXCEPT ![c] = l]
        /\ settled' = settled \cup {f} /\ excused' = excused \cup Forgotten(table, table')
    BY <1>4 DEF TakeFrame
  <2>1. k \in Socket(settled') /\ RejectedAck(f) \in GoodMsgs(settled') /\ settled \subseteq settled'
    BY <1>3, <2>0, GrowSocket DEF RejectedAck, GoodMsgs
  <2> HIDE DEF k
  <2>2. Flush(k) \in Socket(settled') /\ SameShape(k, Flush(k))
    BY <2>1, FlushFacts
  <2>3. l \in Socket(settled') /\ SameShape(Flush(k), l)
    BY <2>1, <2>2, WriteFacts
  <2> HIDE DEF l
  <2>4. l.up = Tail(s.up) /\ l.st = "loop" /\ l.cur = Torn
    BY <1>3, <2>2, <2>3 DEF SameShape
  <2> HIDE DEF s, f
  <2>5. /\ InOrder(l, settled') /\ \A g \in Frames : g < f => g \in settled
        /\ \A g \in Frames : Ahead(s, g, Len(s.up) + 1, settled) => Ahead(l, g, Len(l.up) + 1, settled')
    <3>1. f = Head(s.up) /\ f \in settled'
      BY <2>0 DEF f
    <3> QED
      BY <1>0, <1>1, <1>2, <2>1, <2>4, <3>1, ConsumedFacts
  <2>6. TaskStep(c, l)
    BY <1>0, <1>2, <2>0, <2>1, <2>3, <2>5 DEF TaskStep, SafeInv, TypeOK, s
  <2>7. FirstCopiesInOrder' /\ \A g \in Frames : g <= f => g \in settled'
    BY <1>2, <2>0, <2>5, SettleNext DEF SafeInv
  <2>8. table' \in Seq(SoundMarks(settled')) /\ Unique(table')
    BY <1>2, <2>0, <2>1, <2>7, RaiseKeepsTable
  <2>9. excused' \subseteq Frames /\ copies' \in [Frames -> 0..2] /\ faults' \in Nat
    BY <1>0, <2>0 DEF SafeInv, TypeOK, Forgotten
  <2> QED
    BY <2>6, <2>7, <2>8, <2>9, TaskStepKeeps
<1>5. CASE f \notin Refused
  <2> DEFINE l == IF IsResend(table, Queue[f]) THEN Owe(run, f) ELSE [run EXCEPT !.st = "forward", !.cur = f]
  <2>0. /\ table' = Seen(table, Queue[f]) /\ socks' = [socks EXCEPT ![c] = l]
        /\ excused' \subseteq excused \cup {f} /\ settled' = settled
    BY <1>5 DEF TakeFrame
  <2> HIDE DEF k
  <2>1. run \in Socket(settled) /\ run.up = Tail(s.up) /\ run.st = "loop" /\ run.cur = Torn
    BY <1>3, FlushFacts DEF SameShape
  <2> HIDE DEF run
  <2>2. /\ l \in Socket(settled) /\ l.up = Tail(s.up) /\ l.st # "taken" /\ l.st # "over"
        /\ \/ l.cur = Torn /\ l.st # "forward" /\ f \in settled
           \/ l.cur = f /\ l.st = "forward"
    <3>1. CASE IsResend(table, Queue[f])
      <4>1. f \in settled
        BY <1>2, <3>1, RememberedIsSettled
      <4> QED
        BY <2>1, <3>1, <4>1, OweFacts
    <3>2. CASE ~IsResend(table, Queue[f])
      <4>1. l = [run EXCEPT !.st = "forward", !.cur = f]
        BY <3>2
      <4> HIDE DEF l, f
      <4> QED
        BY <1>2, <2>1, <4>1 DEF Socket, States
    <3> QED
      BY <3>1, <3>2
  <2> HIDE DEF l, s, f
  <2>3. /\ InOrder(l, settled')
        /\ \A g \in Frames : Ahead(s, g, Len(s.up) + 1, settled) => Ahead(l, g, Len(l.up) + 1, settled')
    <3>1. f = Head(s.up)
      BY DEF f
    <3> QED
      BY <1>0, <1>1, <1>2, <2>0, <2>2, <3>1, ConsumedFacts
  <2>4. TaskStep(c, l)
    BY <1>0, <1>2, <2>0, <2>2, <2>3 DEF TaskStep, SafeInv, TypeOK, s
  <2>5. table' \in Seq(SoundMarks(settled')) /\ Unique(table') /\ FirstCopiesInOrder'
    BY <2>0, SeenKeepsTable DEF SafeInv, FirstCopiesInOrder
  <2>6. excused' \subseteq Frames /\ copies' \in [Frames -> 0..2] /\ faults' \in Nat
    BY <1>0, <1>2, <2>0 DEF SafeInv, TypeOK
  <2> QED
    BY <2>4, <2>5, <2>6, TaskStepKeeps
<1> QED
  BY <1>4, <1>5

\* The lesser of two numbers.
LEMMA MinOfTwo ==
  ASSUME NEW a \in Nat, NEW b \in Nat
  PROVE  Min({a, b}) \in {a, b} /\ Min({a, b}) <= a /\ Min({a, b}) <= b
<1>1. \E x \in {a, b} : \A y \in {a, b} : x <= y
  BY a >= b \/ b >= a
<1> DEFINE m == CHOOSE x \in {a, b} : \A y \in {a, b} : x <= y
<1>2. m \in {a, b} /\ \A y \in {a, b} : m <= y
  BY <1>1
<1>3. Min({a, b}) = m
  BY DEF Min
<1> HIDE DEF m
<1> QED
  BY <1>2, <1>3

\* One more copy of frame f.
LEMMA CopyFacts ==
  ASSUME copies \in [Frames -> 0..2], NEW f \in Frames, copies' = [copies EXCEPT ![f] = Min({2, copies[f] + 1})]
  PROVE  /\ copies' \in [Frames -> 0..2] /\ copies'[f] > 0 /\ (copies'[f] = 2 => copies[f] > 0)
         /\ \A g \in Frames : g # f => copies'[g] = copies[g]
<1> DEFINE m == Min({2, copies[f] + 1})
<1>1. copies[f] \in 0..2
  OBVIOUS
<1>2. m \in {2, copies[f] + 1} /\ m <= 2 /\ m <= copies[f] + 1
  BY <1>1, MinOfTwo
<1> HIDE DEF m
<1>3. m \in 0..2 /\ m > 0 /\ (m = 2 => copies[f] > 0)
  BY <1>1, <1>2
<1>4. copies' = [copies EXCEPT ![f] = m]
  BY DEF m
<1> QED
  BY <1>3, <1>4

\* Forward keeps the invariant: the frame at hand is settled after all before it.
LEMMA ForwardKeeps ==
  ASSUME SafeInv, NEW c \in Conns, Forward(c)
  PROVE  SafeInv'
<1> DEFINE s == socks[c]
           f == s.cur
<1>0. s.st = "forward" /\ UNCHANGED <<head, conn, resend, hello, table, excused>>
  BY DEF Forward, senderVars
<1>1. s \in Socket(settled) /\ InOrder(s, settled) /\ f \in Frames
  <2>1. s \in Socket(settled) /\ InOrder(s, settled)
    BY SocketFacts
  <2> QED
    BY <1>0, <2>1 DEF Socket, InOrder
<1>2. CASE /\ socks' = [socks EXCEPT ![c].st = "taken", ![c].took = @ \cup {f}]
           /\ copies' = [copies EXCEPT ![f] = Min({2, @ + 1})]
           /\ settled' = settled \cup {f} /\ UNCHANGED faults
  <2> DEFINE k == [s EXCEPT !.st = "taken", !.took = s.took \cup {f}]
  <2>0. copies \in [Frames -> 0..2] /\ socks \in [Conns -> Socket(settled)] /\ settled \subseteq Frames
    BY DEF SafeInv, TypeOK
  <2>1. socks' = [socks EXCEPT ![c] = k]
    BY <1>2, <2>0
  <2>2. settled \subseteq settled' /\ settled' \subseteq Frames /\ f \in settled'
    BY <1>1, <1>2, <2>0
  <2>3. s \in Socket(settled')
    BY <1>1, <2>2, GrowSocket
  <2>4. k \in Socket(settled') /\ k.st = "taken" /\ k.up = s.up /\ k.cur = s.cur
    BY <1>1, <2>3 DEF Socket, States
  <2> HIDE DEF k
  <2>5. s.cur # Torn /\ \A g \in Frames : g < f => g \in settled
    BY <1>0, <1>1 DEF InOrder
  <2>6. InOrder(k, settled')
    BY <1>1, <2>2, <2>4, <2>5 DEF InOrder, Ahead
  <2>7. \A g \in Frames : Ahead(s, g, Len(s.up) + 1, settled) => Ahead(k, g, Len(k.up) + 1, settled')
    BY <2>2, <2>4 DEF Ahead
  <2>8. TaskStep(c, k)
    BY <1>0, <2>1, <2>2, <2>4, <2>6, <2>7 DEF TaskStep
  <2>9. FirstCopiesInOrder'
    BY <1>1, <1>2, <2>5, SettleNext DEF SafeInv
  <2>10. table' \in Seq(SoundMarks(settled')) /\ Unique(table')
    <3>1. Seq(SoundMarks(settled)) \subseteq Seq(SoundMarks(settled'))
      BY <2>2, GrowMarks, SeqGrows
    <3> QED
      BY <1>0, <3>1 DEF SafeInv, TypeOK, TableInv
  <2>11. copies' \in [Frames -> 0..2]
    <3>1. copies' = [copies EXCEPT ![f] = Min({2, copies[f] + 1})]
      BY <1>1, <1>2, <2>0
    <3> QED
      BY <1>1, <2>0, <3>1, CopyFacts
  <2>12. excused' \subseteq Frames /\ faults' \in Nat
    BY <1>0, <1>2 DEF SafeInv, TypeOK
  <2> QED
    BY <2>8, <2>9, <2>10, <2>11, <2>12, TaskStepKeeps
<1>3. CASE Fault /\ socks' = [socks EXCEPT ![c] = GoAway(@)] /\ UNCHANGED <<copies, settled>>
  <2>1. TaskStep(c, GoAway(s))
    BY <1>0, <1>1, <1>3, GoAwayFacts, TaskEnds
  <2> QED
    BY <1>0, <1>3, <2>1, QuietKeeps
<1> QED
  BY <1>2, <1>3 DEF Forward

\* RaiseTaken keeps the invariant: the frame it marks is settled.
LEMMA RaiseTakenKeeps ==
  ASSUME SafeInv, NEW c \in Conns, RaiseTaken(c)
  PROVE  SafeInv'
<1> DEFINE s == socks[c]
           f == s.cur
           k == Owe(s, f)
<1>0. /\ s.st = "taken" /\ table' = Raise(table, Queue[f]) /\ socks' = [socks EXCEPT ![c] = k]
      /\ excused' = excused \cup Forgotten(table, table')
      /\ UNCHANGED <<head, conn, resend, hello, copies, settled, faults>>
  BY DEF RaiseTaken, senderVars
<1>1. s \in Socket(settled) /\ InOrder(s, settled) /\ f \in settled /\ f \in Frames
  <2>1. s \in Socket(settled) /\ InOrder(s, settled)
    BY SocketFacts
  <2> QED
    BY <1>0, <2>1 DEF SafeInv, TypeOK, InOrder
<1>2. k \in Socket(settled) /\ k.st = "loop" /\ k.cur = Torn /\ k.up = s.up
  BY <1>1, OweFacts
<1> HIDE DEF k
<1>3. \A g, j : Ahead(s, g, j, settled) => Ahead(k, g, j, settled)
  BY <1>1, <1>2 DEF Ahead
<1>4. InOrder(k, settled)
  <2>0. k.cur = 0 /\ \A g \in Frames : g \in Nat
    BY <1>2, FrameFacts DEF Torn
  <2>1. \A g \in Frames : ~(g < k.cur)
    BY <2>0
  <2> QED
    BY <1>1, <1>2, <1>3, <2>1 DEF InOrder
<1>5. TaskStep(c, k)
  BY <1>0, <1>2, <1>3, <1>4 DEF TaskStep, SafeInv, TypeOK
<1>6. \A g \in Frames : g <= f => g \in settled'
  BY <1>0, <1>1, DownClosed DEF SafeInv, TypeOK
<1>7. table' \in Seq(SoundMarks(settled')) /\ Unique(table')
  BY <1>0, <1>1, <1>6, RaiseKeepsTable
<1>8. FirstCopiesInOrder' /\ excused' \subseteq Frames /\ copies' \in [Frames -> 0..2] /\ faults' \in Nat
  BY <1>0 DEF SafeInv, TypeOK, FirstCopiesInOrder, Forgotten
<1> QED
  BY <1>5, <1>7, <1>8, TaskStepKeeps

\* RestartListener keeps the invariant: no task is left, and no mark.
LEMMA RestartListenerKeeps ==
  ASSUME SafeInv, RestartListener
  PROVE  SafeInv'
<1>0. /\ table' = <<>> /\ socks' = [c \in Conns |-> IF socks[c].st = "free" THEN socks[c] ELSE Over(socks[c])]
      /\ excused' = excused \cup settled /\ Fault
      /\ UNCHANGED <<head, conn, resend, hello, copies, settled>>
  BY DEF RestartListener, senderVars
<1>1. ASSUME NEW c \in Conns
      PROVE  /\ socks'[c] \in Socket(settled) /\ InOrder(socks'[c], settled)
             /\ SameShape(socks[c], socks'[c]) \/ socks'[c].st = "over"
  <2>1. socks[c] \in Socket(settled) /\ InOrder(socks[c], settled)
    BY SocketFacts
  <2>2. CASE socks[c].st = "free"
    BY <1>0, <2>1, <2>2 DEF SameShape
  <2>3. CASE socks[c].st # "free"
    BY <1>0, <2>1, <2>3, OverFacts
  <2> QED
    BY <2>2, <2>3
<1>2. socks' \in [Conns -> Socket(settled)]
  <2>1. socks' = [c \in Conns |-> socks'[c]]
    BY <1>0
  <2> QED
    BY <1>1, <2>1
<1>3. table' \in Seq(SoundMarks(settled)) /\ Unique(table')
  BY <1>0, EmptySeq DEF Unique
<1>4. faults' \in Nat
  BY <1>0 DEF SafeInv, TypeOK, Fault
<1>5. TypeOK'
  BY <1>0, <1>2, <1>3, <1>4 DEF SafeInv, TypeOK
<1>6. WrittenInv'
  <2>1. SUFFICES ASSUME conn # None PROVE Written(socks'[conn.c], conn.inFlight, settled)
    BY <1>0 DEF WrittenInv
  <2>2. conn.c \in Conns /\ Written(socks[conn.c], conn.inFlight, settled)
    BY <2>1 DEF SafeInv, TypeOK, WrittenInv, Connection
  <2>3. CASE SameShape(socks[conn.c], socks'[conn.c])
    BY <2>2, <2>3, WrittenGrows
  <2>4. CASE socks'[conn.c].st = "over"
    BY <2>4 DEF Written
  <2> QED
    BY <1>1, <2>2, <2>3, <2>4
<1>7. WireInv'
  BY <1>0, <1>1 DEF WireInv
<1>8. TableInv' /\ WindowInv' /\ NothingLost' /\ FirstCopiesInOrder'
  BY <1>0, <1>3 DEF SafeInv, TableInv, WindowInv, NothingLost, FirstCopiesInOrder
<1> QED
  BY <1>5, <1>6, <1>7, <1>8 DEF SafeInv

\* OtherSink keeps the invariant: the mark of a stranger covers no frame.
LEMMA OtherSinkKeeps ==
  ASSUME SafeInv, NEW id \in Strangers, OtherSink(id)
  PROVE  SafeInv'
<1> DEFINE p == [id |-> id, seq |-> 1]
           M == SoundMarks(settled)
<1>0. /\ table' = Raise(table, p) /\ excused' = excused \cup Forgotten(table, table') /\ Fault
      /\ UNCHANGED <<head, conn, resend, hello, socks, copies, settled>>
  BY DEF OtherSink, senderVars
<1>1. [id |-> p.id, mark |-> p.seq] \in M
  <2> DEFINE e == [id |-> p.id, mark |-> p.seq]
  <2>1. e \in Mark /\ e.id = id
    BY DEF Mark
  <2>2. \A f \in Frames : Queue[f].id # id
    BY HopAssumption
  <2>3. CoveredBy(e) = {}
    BY <2>1, <2>2 DEF CoveredBy
  <2> QED
    BY <2>1, <2>3 DEF SoundMarks
<1>2. M \in SUBSET Mark /\ table \in Seq(M) /\ Unique(table) /\ p.seq \in Nat
  BY DEF SafeInv, TypeOK, TableInv, SoundMarks
<1> HIDE DEF M, p
<1>3. table' \in Seq(M) /\ Unique(table')
  BY <1>0, <1>1, <1>2, RaiseFacts
<1>4. faults' \in Nat /\ excused' \subseteq Frames
  BY <1>0 DEF SafeInv, TypeOK, Fault, Forgotten
<1>5. TypeOK'
  BY <1>0, <1>3, <1>4 DEF SafeInv, TypeOK, M
<1>6. TableInv' /\ WindowInv' /\ WrittenInv' /\ WireInv' /\ NothingLost' /\ FirstCopiesInOrder'
  BY <1>0, <1>3 DEF SafeInv, TableInv, WindowInv, WrittenInv, WireInv, NothingLost, FirstCopiesInOrder
<1> QED
  BY <1>5, <1>6 DEF SafeInv

-----------------------------------------------------------------------------
(* The steps of logit_out: the tasks, the table and the counters stay. *)

\* Where the listener's end of every socket is left as it was.
SenderStep ==
  /\ UNCHANGED <<table, copies, excused>> /\ (faults' = faults \/ Fault)
  /\ settled \subseteq settled' /\ settled' \subseteq Frames
  /\ head' \in 1..(Len(Queue) + 1) /\ resend' \subseteq Ids /\ hello' \in {0} \cup Conns
  /\ socks' \in [Conns -> Socket(settled')] /\ WireInv'

\* Such a step has only to be right about the window.
LEMMA SenderStepKeeps ==
  ASSUME SafeInv, SenderStep, NothingLost', FirstCopiesInOrder',
         conn' # None =>
           /\ conn' \in Connection(settled')
           /\ \A i \in 1..Len(conn'.inFlight) : conn'.inFlight[i].f = head' + i - 1
           /\ Written(socks'[conn'.c], conn'.inFlight, settled')
  PROVE  SafeInv'
<1>1. faults' \in Nat /\ copies' \in [Frames -> 0..2] /\ excused' \subseteq Frames
  BY DEF SafeInv, TypeOK, SenderStep, Fault
<1>2. table' \in Seq(SoundMarks(settled')) /\ Unique(table')
  <2>1. Seq(SoundMarks(settled)) \subseteq Seq(SoundMarks(settled'))
    BY GrowMarks, SeqGrows DEF SenderStep
  <2> QED
    BY <2>1 DEF SafeInv, TypeOK, TableInv, SenderStep
<1>3. TypeOK'
  BY <1>1, <1>2 DEF TypeOK, SenderStep
<1>4. WindowInv' /\ WrittenInv' /\ TableInv' /\ WireInv'
  BY <1>2 DEF WindowInv, WrittenInv, TableInv, SenderStep
<1> QED
  BY <1>3, <1>4 DEF SafeInv

\* The sockets after one of them changed at the sink's end, or for a new connection.
LEMMA SocketsAfter ==
  ASSUME SafeInv, NEW c \in Conns, NEW k \in Socket(settled), socks' = [socks EXCEPT ![c] = k], settled' = settled,
         SameShape(socks[c], k) \/ InOrder(k, settled)
  PROVE  socks' \in [Conns -> Socket(settled')] /\ WireInv'
<1>1. socks \in [Conns -> Socket(settled)]
  BY DEF SafeInv, TypeOK
<1>2. socks' \in [Conns -> Socket(settled')]
  BY <1>1
<1>3. InOrder(k, settled)
  BY SocketFacts, InOrderGrows
<1>4. \A d \in Conns : InOrder(socks'[d], settled')
  BY <1>1, <1>3, SocketFacts
<1> QED
  BY <1>2, <1>4 DEF WireInv

\* Connect keeps the invariant.
LEMMA ConnectKeeps ==
  ASSUME SafeInv, Connect
  PROVE  SafeInv'
<1> DEFINE k == [Fresh EXCEPT !.st = "hello", !.open = TRUE, !.asked = resend]
<1>0. PICK c \in Conns : hello' = c /\ socks' = [socks EXCEPT ![c] = k]
  BY DEF Connect
<1>1. conn = None /\ UNCHANGED <<head, conn, resend, table, copies, settled, excused, faults>>
  BY DEF Connect, ghosts
<1>2. resend \subseteq Ids
  BY DEF SafeInv, TypeOK
<1>3. <<>> \in Seq(Frames \cup {Torn}) /\ <<>> \in Seq(GoodMsgs(settled)) /\ {"free", "hello"} \subseteq States
  BY EmptySeq DEF States
<1>4. Fresh \in Socket(settled) /\ Fresh.up = <<>> /\ Fresh.cur = Torn
  BY <1>3 DEF Fresh, Socket
<1>5. k \in Socket(settled) /\ k.st = "hello" /\ k.up = <<>> /\ k.cur = Torn
  BY <1>2, <1>3, <1>4 DEF Socket
<1> HIDE DEF k
<1>6. InOrder(k, settled)
  BY <1>5, FrameFacts DEF InOrder, Torn
<1>7. SenderStep
  <2>1. socks' \in [Conns -> Socket(settled')] /\ WireInv'
    BY <1>0, <1>1, <1>5, <1>6, SocketsAfter
  <2> QED
    BY <1>0, <1>1, <2>1 DEF SenderStep, SafeInv, TypeOK
<1>8. NothingLost' /\ FirstCopiesInOrder'
  BY <1>1 DEF SafeInv, NothingLost, FirstCopiesInOrder
<1> QED
  BY <1>1, <1>7, <1>8, SenderStepKeeps

\* A socket the sink drops stays as the task sees it.
LEMMA DropFacts ==
  ASSUME SafeInv, NEW c \in Conns, socks' = Drop(c), settled' = settled
  PROVE  socks' \in [Conns -> Socket(settled')] /\ WireInv'
<1> DEFINE k == [socks[c] EXCEPT !.open = FALSE, !.down = <<>>]
<1>1. k \in Socket(settled) /\ SameShape(socks[c], k)
  BY SocketFacts, ClosedFacts
<1>2. socks \in [Conns -> Socket(settled)]
  BY DEF SafeInv, TypeOK
<1>3. socks' = [socks EXCEPT ![c] = k]
  BY <1>2 DEF Drop
<1> QED
  BY <1>1, <1>3, SocketsAfter

\* A step that drops the connection keeps the invariant.
LEMMA DropKeeps ==
  ASSUME SafeInv, NEW c \in Conns, socks' = Drop(c), conn' = None, resend' \subseteq Ids, hello' \in {0} \cup Conns,
         UNCHANGED <<head, table, copies, settled, excused>>, faults' = faults \/ Fault
  PROVE  SafeInv'
<1>1. SenderStep
  BY DropFacts DEF SenderStep, SafeInv, TypeOK
<1>2. NothingLost' /\ FirstCopiesInOrder'
  BY DEF SafeInv, NothingLost, FirstCopiesInOrder
<1> QED
  BY <1>1, <1>2, SenderStepKeeps

\* Dropping the connection of a failed handshake keeps the invariant.
LEMMA HelloDropKeeps ==
  ASSUME SafeInv, NEW c \in Conns, socks' = Drop(c), hello' \in {0} \cup Conns,
         UNCHANGED <<head, conn, resend, table, copies, settled, excused>>, faults' = faults \/ Fault
  PROVE  SafeInv'
<1>1. SenderStep
  BY DropFacts DEF SenderStep, SafeInv, TypeOK
<1>2. NothingLost' /\ FirstCopiesInOrder'
  BY DEF SafeInv, NothingLost, FirstCopiesInOrder
<1>3. ASSUME conn # None
      PROVE  conn \in Connection(settled) /\ Written(socks'[conn.c], conn.inFlight, settled)
  <2> DEFINE d == conn.c
  <2>1. conn \in Connection(settled) /\ d \in Conns /\ Written(socks[d], conn.inFlight, settled)
    BY <1>3 DEF SafeInv, TypeOK, WrittenInv, Connection
  <2>2. socks[d] \in Socket(settled) /\ socks \in [Conns -> Socket(settled)]
    BY <2>1 DEF SafeInv, TypeOK
  <2>3. SameShape(socks[d], socks'[d])
    <3>1. CASE d # c
      <4>1. socks'[d] = socks[d]
        BY <2>1, <2>2, <3>1 DEF Drop
      <4> QED
        BY <4>1 DEF SameShape
    <3>2. CASE d = c
      <4>1. socks'[d] = [socks[d] EXCEPT !.open = FALSE, !.down = <<>>]
        BY <2>1, <2>2, <3>2 DEF Drop
      <4> QED
        BY <2>2, <4>1, ClosedFacts
    <3> QED
      BY <3>1, <3>2
  <2> QED
    BY <2>1, <2>3, WrittenGrows
<1> QED
  BY <1>1, <1>2, <1>3, SenderStepKeeps DEF SafeInv, WindowInv

\* The answer the sink reads, and the socket that is left.
LEMMA ReadFacts ==
  ASSUME SafeInv, NEW c \in Conns, socks[c].down # <<>>
  PROVE  LET k == [socks[c] EXCEPT !.down = Tail(socks[c].down)]
         IN  Head(socks[c].down) \in GoodMsgs(settled) /\ k \in Socket(settled) /\ SameShape(socks[c], k)
<1> DEFINE d == Tail(socks[c].down)
<1>1. Head(socks[c].down) \in GoodMsgs(settled) /\ d \in Seq(GoodMsgs(settled)) /\ socks[c] \in Socket(settled)
  BY SocketFacts, TailFacts
<1> HIDE DEF d
<1>2. [socks[c] EXCEPT !.down = d] \in Socket(settled) /\ SameShape(socks[c], [socks[c] EXCEPT !.down = d])
  BY <1>1 DEF Socket, SameShape
<1> QED
  BY <1>1, <1>2 DEF d

\* ReadHelloAck keeps the invariant: the marks it keeps are sound.
LEMMA ReadHelloAckKeeps ==
  ASSUME SafeInv, ReadHelloAck
  PROVE  SafeInv'
<1> DEFINE msg == Head(socks[hello].down)
           k == [socks[hello] EXCEPT !.down = Tail(socks[hello].down)]
<1>0. /\ hello \in Conns /\ socks[hello].down # <<>> /\ hello' = 0
      /\ UNCHANGED <<head, table, copies, settled, excused, faults>>
  BY DEF ReadHelloAck, SafeInv, TypeOK, ghosts
<1>1. msg \in GoodMsgs(settled) /\ k \in Socket(settled) /\ SameShape(socks[hello], k)
  BY <1>0, ReadFacts
<1>2. CASE msg.type = "hello_ack"
  <2>1. /\ conn' = [c |-> hello, inFlight |-> <<>>, broken |-> FALSE, marks |-> msg.marks]
        /\ resend' = {} /\ socks' = [socks EXCEPT ![hello].down = Tail(@)]
    BY <1>2 DEF ReadHelloAck
  <2>2. msg.marks \in SUBSET SoundMarks(settled)
    <3>1. msg \notin {GoingAway, Reject} \cup [type : {"ack", "rejected"}, pair : {Queue[f] : f \in settled}]
      BY <1>2 DEF GoingAway, Reject
    <3> QED
      BY <1>1, <3>1 DEF GoodMsgs
  <2>3. socks' = [socks EXCEPT ![hello] = k]
    BY <1>0, <2>1 DEF SafeInv, TypeOK
  <2> HIDE DEF msg, k
  <2>4. /\ conn' \in Connection(settled) /\ conn'.inFlight = <<>>
    <3>1. <<>> \in Seq(WindowEntry(settled))
      BY EmptySeq
    <3> QED
      BY <1>0, <2>1, <2>2, <3>1 DEF Connection
  <2>5. SenderStep
    <3>1. socks' \in [Conns -> Socket(settled')] /\ WireInv'
      BY <1>0, <1>1, <2>3, SocketsAfter
    <3> QED
      BY <1>0, <2>1, <3>1 DEF SenderStep, SafeInv, TypeOK
  <2>6. NothingLost' /\ FirstCopiesInOrder'
    BY <1>0 DEF SafeInv, NothingLost, FirstCopiesInOrder
  <2>7. Written(socks'[conn'.c], conn'.inFlight, settled')
    BY <2>4 DEF Written
  <2> QED
    BY <1>0, <2>4, <2>5, <2>6, <2>7, SenderStepKeeps
<1>3. CASE msg.type # "hello_ack"
  <2>1. socks' = Drop(hello) /\ UNCHANGED <<conn, resend>>
    BY <1>3 DEF ReadHelloAck
  <2> QED
    BY <1>0, <2>1, HelloDropKeeps
<1> QED
  BY <1>2, <1>3

\* A Hello lists identities of the store.
LEMMA ResendIsKnown ==
  ASSUME NEW S, NEW k \in Connection(S)
  PROVE  k.c \in Conns /\ ResendSenders(k.inFlight) \subseteq Ids
<1>1. k.c \in Conns /\ k.inFlight \in Seq(WindowEntry(S))
  BY DEF Connection
<1>2. \A i \in DOMAIN k.inFlight : k.inFlight[i].f \in Frames
  BY <1>1 DEF WindowEntry
<1>3. \A i \in DOMAIN k.inFlight : Queue[k.inFlight[i].f].id \in Ids
  BY <1>2 DEF Ids
<1> QED
  BY <1>1, <1>3 DEF ResendSenders

\* HelloFails, Probe and AckFails keep the invariant: each drops the connection.
LEMMA FailuresKeep ==
  ASSUME SafeInv, HelloFails \/ Probe \/ AckFails
  PROVE  SafeInv'
<1>0. faults' = faults \/ Fault
  BY DEF HelloFails, Probe, AckFails
<1>1. CASE HelloFails
  <2>1. /\ hello \in Conns /\ socks' = Drop(hello) /\ hello' = 0
        /\ UNCHANGED <<head, conn, resend, table, copies, settled, excused>>
    BY <1>1 DEF HelloFails, SafeInv, TypeOK, ghosts
  <2> QED
    BY <1>0, <2>1, HelloDropKeeps
<1>2. CASE Probe
  <2>1. /\ conn # None /\ conn' = None /\ socks' = Drop(conn.c)
        /\ UNCHANGED <<head, resend, hello, table, copies, settled, excused>>
    BY <1>2 DEF Probe, Submits, ghosts
  <2>2. conn.c \in Conns /\ resend \subseteq Ids /\ hello \in {0} \cup Conns
    BY <2>1 DEF SafeInv, TypeOK, Connection
  <2> QED
    BY <1>0, <2>1, <2>2, DropKeeps
<1>3. CASE AckFails
  <2>1. conn # None /\ conn' = None /\ socks' = Drop(conn.c) /\ resend' = ResendSenders(conn.inFlight)
        /\ UNCHANGED <<head, hello, table, copies, settled, excused>>
    BY <1>3 DEF AckFails, DropAndResend, InFlight, ghosts
  <2>2. conn \in Connection(settled) /\ hello \in {0} \cup Conns
    BY <2>1 DEF SafeInv, TypeOK
  <2>3. conn.c \in Conns /\ ResendSenders(conn.inFlight) \subseteq Ids
    BY <2>2, ResendIsKnown
  <2> QED
    BY <1>0, <2>1, <2>2, <2>3, DropKeeps
<1> QED
  BY <1>1, <1>2, <1>3

\* What the connection holds.
LEMMA ConnFacts ==
  ASSUME SafeInv, conn # None
  PROVE  /\ conn \in Connection(settled) /\ conn.c \in Conns /\ conn.inFlight \in Seq(WindowEntry(settled))
         /\ Len(conn.inFlight) \in Nat /\ head \in Nat /\ head >= 1
         /\ \A i \in 1..Len(conn.inFlight) : conn.inFlight[i].f = head + i - 1
         /\ \A i \in 1..Len(conn.inFlight) :
              conn.inFlight[i] \in WindowEntry(settled) /\ conn.inFlight[i].f \in Frames
         /\ Written(socks[conn.c], conn.inFlight, settled)
<1>1. conn \in Connection(settled) /\ head \in 1..(Len(Queue) + 1)
  BY DEF SafeInv, TypeOK
<1>2. conn.c \in Conns /\ conn.inFlight \in Seq(WindowEntry(settled))
  BY <1>1 DEF Connection
<1>3. head \in Nat /\ head >= 1
  BY <1>1, FrameFacts
<1>4. \A i \in 1..Len(conn.inFlight) : conn.inFlight[i] \in WindowEntry(settled)
  BY <1>2
<1>5. \A e \in WindowEntry(settled) : e.f \in Frames
  BY DEF WindowEntry
<1> QED
  BY <1>1, <1>2, <1>3, <1>4, <1>5 DEF SafeInv, WindowInv, WrittenInv

\* The window with one more frame of the store.
LEMMA PushedFacts ==
  ASSUME SafeInv, NEW f \in Frames, Submits(f), NEW acked \in BOOLEAN, acked => f \in settled, Pushed(f, acked)
  PROVE  /\ conn' \in Connection(settled) /\ conn'.c = conn.c
         /\ Len(conn'.inFlight) = Len(conn.inFlight) + 1 /\ conn'.inFlight[Len(conn.inFlight) + 1].f = f
         /\ \A i \in 1..Len(conn.inFlight) : conn'.inFlight[i] = conn.inFlight[i]
         /\ \A i \in 1..Len(conn'.inFlight) : conn'.inFlight[i].f = head + i - 1
<1> DEFINE e == [f |-> f, acked |-> acked]
           w == Append(conn.inFlight, e)
<1>0. conn # None /\ f = head + Len(conn.inFlight) /\ conn' = [conn EXCEPT !.inFlight = w]
  BY DEF Submits, NextFrame, InFlight, Pushed
<1>1. /\ conn \in Connection(settled) /\ conn.inFlight \in Seq(WindowEntry(settled))
      /\ Len(conn.inFlight) \in Nat /\ head \in Nat
      /\ \A i \in 1..Len(conn.inFlight) : conn.inFlight[i].f = head + i - 1
  BY <1>0, ConnFacts
<1>2. e \in WindowEntry(settled) /\ e.f = f
  BY DEF WindowEntry
<1> HIDE DEF e
<1>3. /\ w \in Seq(WindowEntry(settled)) /\ Len(w) = Len(conn.inFlight) + 1
      /\ w[Len(conn.inFlight) + 1] = e /\ \A i \in 1..Len(conn.inFlight) : w[i] = conn.inFlight[i]
  BY <1>1, <1>2, AppendFacts
<1> HIDE DEF w
<1>4. conn' \in Connection(settled) /\ conn'.inFlight = w /\ conn'.c = conn.c
  BY <1>0, <1>1, <1>3 DEF Connection
<1>5. \A i \in 1..Len(w) : w[i].f = head + i - 1
  <2> DEFINE n == Len(conn.inFlight)
  <2>1. n \in Nat /\ Len(w) = n + 1 /\ w[n + 1].f = head + n /\ \A i \in 1..n : w[i].f = head + i - 1
    BY <1>0, <1>1, <1>2, <1>3
  <2> HIDE DEF n
  <2> QED
    BY <1>1, <2>1
<1> QED
  BY <1>2, <1>3, <1>4, <1>5

\* Resume keeps the invariant: a frame the marks cover is settled.
LEMMA ResumeKeeps ==
  ASSUME SafeInv, NEW f \in Frames, Resume(f)
  PROVE  SafeInv'
<1>0. /\ Submits(f) /\ Covers(f) /\ Pushed(f, TRUE) /\ conn # None
      /\ UNCHANGED <<head, resend, hello, socks, table, copies, settled, excused, faults>>
  BY DEF Resume, Submits, ghosts
<1>1. f \in settled
  <2>1. conn.marks \subseteq SoundMarks(settled)
    BY <1>0, ConnFacts DEF Connection
  <2> QED
    BY <1>0, <2>1 DEF Covers, SoundMarks, CoveredBy
<1>2. /\ conn' \in Connection(settled) /\ conn'.c = conn.c
      /\ Len(conn'.inFlight) = Len(conn.inFlight) + 1 /\ conn'.inFlight[Len(conn.inFlight) + 1].f = f
      /\ \A i \in 1..Len(conn.inFlight) : conn'.inFlight[i] = conn.inFlight[i]
      /\ \A i \in 1..Len(conn'.inFlight) : conn'.inFlight[i].f = head + i - 1
  BY <1>0, <1>1, PushedFacts
<1>3. Len(conn.inFlight) \in Nat /\ Written(socks[conn.c], conn.inFlight, settled)
  BY <1>0, ConnFacts
<1>4. Written(socks[conn.c], conn'.inFlight, settled)
  <2>1. 1..Len(conn'.inFlight) = 1..Len(conn.inFlight) \cup {Len(conn.inFlight) + 1}
    BY <1>2, <1>3
  <2> QED
    BY <1>1, <1>2, <1>3, <2>1 DEF Written, Ahead
<1>5. SenderStep
  BY <1>0 DEF SenderStep, SafeInv, TypeOK, WireInv
<1>6. NothingLost' /\ FirstCopiesInOrder'
  BY <1>0 DEF SafeInv, NothingLost, FirstCopiesInOrder
<1> QED
  BY <1>0, <1>2, <1>4, <1>5, <1>6, SenderStepKeeps

\* A socket with one more frame on it, or a frame cut off.
LEMMA SendFacts ==
  ASSUME NEW S, NEW k \in Socket(S), InOrder(k, S), NEW x \in Frames \cup {Torn},
         \A g \in Frames : g < x => Ahead(k, g, Len(k.up) + 1, S)
  PROVE  LET l == [k EXCEPT !.up = Append(k.up, x)]
         IN  /\ l \in Socket(S) /\ InOrder(l, S) /\ l.st = k.st
             /\ Ahead(l, x, Len(l.up) + 1, S)
             /\ \A g : Ahead(k, g, Len(k.up) + 1, S) => Ahead(l, g, Len(l.up) + 1, S)
<1> DEFINE u == Append(k.up, x)
           l == [k EXCEPT !.up = u]
           n == Len(k.up)
<1>1. k.up \in Seq(Frames \cup {Torn})
  BY DEF Socket
<1>2. u \in Seq(Frames \cup {Torn}) /\ Len(u) = n + 1 /\ u[n + 1] = x /\ \A i \in 1..n : u[i] = k.up[i]
  BY <1>1, AppendFacts
<1>3. n \in Nat
  BY <1>1
<1> HIDE DEF u, n
<1>4. l \in Socket(S) /\ l.st = k.st /\ l.up = u /\ l.cur = k.cur
  BY <1>2 DEF Socket
<1>5. ASSUME NEW g, NEW j \in 1..(n + 1), Ahead(k, g, j, S) PROVE Ahead(l, g, j, S)
  <2>1. CASE g \in S \/ g = k.cur
    BY <1>4, <2>1 DEF Ahead
  <2>2. ASSUME NEW i \in 1..(j - 1), k.up[i] = g PROVE Ahead(l, g, j, S)
    <3>1. i \in 1..n
      BY <1>3, <1>5, <2>2
    <3> QED
      BY <1>2, <1>4, <2>2, <3>1 DEF Ahead
  <2> QED
    BY <1>5, <2>1, <2>2 DEF Ahead
<1>6. ASSUME NEW g, Ahead(k, g, n + 1, S) PROVE Ahead(l, g, n + 2, S)
  <2>1. Ahead(l, g, n + 1, S)
    BY <1>3, <1>5, <1>6
  <2>2. \A i \in 1..((n + 1) - 1) : i \in 1..((n + 2) - 1)
    BY <1>3
  <2> QED
    BY <2>1, <2>2 DEF Ahead
<1>7. Ahead(l, x, n + 2, S) /\ Len(u) + 1 = n + 2
  <2>1. n + 1 \in 1..((n + 2) - 1) /\ Len(u) + 1 = n + 2
    BY <1>2, <1>3
  <2> QED
    BY <1>2, <1>4, <2>1 DEF Ahead
<1>8. ASSUME NEW j \in 1..Len(u), NEW g \in Frames, g < u[j] PROVE Ahead(l, g, j, S)
  <2>1. CASE j = n + 1
    <3>1. Ahead(k, g, n + 1, S)
      BY <1>2, <1>8, <2>1 DEF n
    <3> QED
      BY <1>3, <1>5, <2>1, <3>1
  <2>2. CASE j # n + 1
    <3>1. j \in 1..n /\ j \in 1..(n + 1) /\ u[j] = k.up[j]
      BY <1>2, <1>3, <1>8, <2>2
    <3>2. Ahead(k, g, j, S)
      BY <1>8, <3>1 DEF InOrder, n
    <3> QED
      BY <1>5, <3>1, <3>2
  <2> QED
    BY <2>1, <2>2
<1>9. InOrder(l, S)
  <2> HIDE DEF l
  <2> QED
    BY <1>4, <1>8 DEF InOrder
<1> HIDE DEF l
<1>10. Ahead(l, x, Len(l.up) + 1, S) /\ \A g : Ahead(k, g, n + 1, S) => Ahead(l, g, Len(l.up) + 1, S)
  BY <1>4, <1>6, <1>7
<1> QED
  BY <1>4, <1>9, <1>10 DEF l, u, n

\* Every frame before the one submit_frame writes is settled or ahead of it.
LEMMA BeforeSubmitted ==
  ASSUME SafeInv, NEW f \in Frames, Submits(f), socks[conn.c].st # "over", NEW g \in Frames, g < f
  PROVE  Ahead(socks[conn.c], g, Len(socks[conn.c].up) + 1, settled)
<1>1. /\ conn # None /\ f = head + Len(conn.inFlight)
  BY DEF Submits, NextFrame, InFlight
<1>2. /\ Len(conn.inFlight) \in Nat /\ head \in Nat /\ g \in Nat
      /\ \A j \in 1..Len(conn.inFlight) : conn.inFlight[j].f = head + j - 1
      /\ Written(socks[conn.c], conn.inFlight, settled)
  BY <1>1, ConnFacts, FrameFacts
<1>3. CASE g < head
  BY <1>3 DEF SafeInv, NothingLost, Ahead
<1>4. CASE g >= head
  <2> DEFINE j == g - head + 1
  <2>1. j \in 1..Len(conn.inFlight) /\ head + j - 1 = g
    BY <1>1, <1>2, <1>4
  <2> HIDE DEF j
  <2>2. conn.inFlight[j].f = g
    BY <1>2, <2>1
  <2> QED
    BY <1>2, <2>1, <2>2 DEF Written
<1> QED
  BY <1>2, <1>3, <1>4

\* WriteFrame keeps the invariant.
LEMMA WriteFrameKeeps ==
  ASSUME SafeInv, NEW f \in Frames, WriteFrame(f)
  PROVE  SafeInv'
<1> DEFINE c == conn.c
           w == conn.inFlight
           s == socks[c]
           sent == [s EXCEPT !.up = Append(s.up, f)]
           torn == [s EXCEPT !.up = Append(s.up, Torn)]
<1>0. Submits(f) /\ conn # None /\ UNCHANGED <<head, resend, hello, table, copies, settled, excused>>
  BY DEF WriteFrame, Submits, ghosts
<1>1. /\ conn \in Connection(settled) /\ c \in Conns /\ w \in Seq(WindowEntry(settled)) /\ Len(w) \in Nat
      /\ Written(s, w, settled) /\ \A i \in 1..Len(w) : w[i].f = head + i - 1
  BY <1>0, ConnFacts
<1>2. s \in Socket(settled) /\ InOrder(s, settled) /\ socks \in [Conns -> Socket(settled)]
  BY <1>1, SocketFacts DEF SafeInv, TypeOK
<1>3. NothingLost' /\ FirstCopiesInOrder'
  BY <1>0 DEF SafeInv, NothingLost, FirstCopiesInOrder
<1>4. CASE /\ Pushed(f, FALSE)
           /\ socks' = [socks EXCEPT ![c].up = IF s.st = "over" THEN @ ELSE Append(@, f)]
           /\ UNCHANGED faults
  <2> DEFINE k == IF s.st = "over" THEN s ELSE sent
  <2>1. socks' = [socks EXCEPT ![c] = k]
    <3>1. CASE s.st = "over"
      <4>1. [s EXCEPT !.up = s.up] = s
        BY <1>2 DEF Socket
      <4>2. socks' = [socks EXCEPT ![c] = [s EXCEPT !.up = s.up]]
        BY <1>1, <1>2, <1>4, <3>1
      <4> QED
        BY <3>1, <4>1, <4>2
    <3>2. CASE s.st # "over"
      BY <1>1, <1>2, <1>4, <3>2
    <3> QED
      BY <3>1, <3>2
  <2>2. /\ conn' \in Connection(settled) /\ conn'.c = c
        /\ Len(conn'.inFlight) = Len(w) + 1 /\ conn'.inFlight[Len(w) + 1].f = f
        /\ \A i \in 1..Len(w) : conn'.inFlight[i] = w[i]
        /\ \A i \in 1..Len(conn'.inFlight) : conn'.inFlight[i].f = head + i - 1
    BY <1>0, <1>4, PushedFacts
  <2>3. k \in Socket(settled) /\ InOrder(k, settled) /\ Written(k, conn'.inFlight, settled)
    <3>1. CASE s.st = "over"
      BY <1>2, <3>1 DEF Written
    <3>2. CASE s.st # "over"
      <4>1. \A g \in Frames : g < f => Ahead(s, g, Len(s.up) + 1, settled)
        BY <1>0, <3>2, BeforeSubmitted
      <4>2. k = sent
        BY <3>2
      <4> HIDE DEF s, k
      <4>3. /\ sent \in Socket(settled) /\ InOrder(sent, settled)
            /\ Ahead(sent, f, Len(sent.up) + 1, settled)
            /\ \A g : Ahead(s, g, Len(s.up) + 1, settled) => Ahead(sent, g, Len(sent.up) + 1, settled)
        BY <1>2, <4>1, SendFacts
      <4> HIDE DEF sent
      <4>4. \A i \in 1..Len(w) : Ahead(sent, w[i].f, Len(sent.up) + 1, settled)
        BY <1>1, <3>2, <4>3 DEF Written
      <4>5. 1..Len(conn'.inFlight) = 1..Len(w) \cup {Len(w) + 1}
        BY <1>1, <2>2
      <4>6. \A i \in 1..Len(conn'.inFlight) : Ahead(sent, conn'.inFlight[i].f, Len(sent.up) + 1, settled)
        BY <2>2, <4>3, <4>4, <4>5
      <4> QED
        BY <4>2, <4>3, <4>6 DEF Written
    <3> QED
      BY <3>1, <3>2
  <2> HIDE DEF k
  <2>4. SenderStep
    <3>1. socks' \in [Conns -> Socket(settled')] /\ WireInv'
      BY <1>0, <1>1, <2>1, <2>3, SocketsAfter
    <3> QED
      BY <1>0, <1>4, <3>1 DEF SenderStep, SafeInv, TypeOK
  <2>5. Written(socks'[conn'.c], conn'.inFlight, settled')
    BY <1>0, <1>1, <1>2, <2>1, <2>2, <2>3
  <2> QED
    BY <1>0, <1>3, <2>2, <2>4, <2>5, SenderStepKeeps
<1>5. CASE /\ Fault /\ s.st # "over"
           /\ LET cut == [socks EXCEPT ![c].up = Append(@, Torn)]
              IN  IF w = <<>>
                  THEN /\ conn' = None
                       /\ socks' = [cut EXCEPT ![c].open = FALSE, ![c].down = <<>>]
                  ELSE /\ conn' = [conn EXCEPT !.broken = TRUE]
                       /\ socks' = cut
  <2>1. /\ torn \in Socket(settled) /\ InOrder(torn, settled) /\ torn.st = s.st
        /\ \A g : Ahead(s, g, Len(s.up) + 1, settled) => Ahead(torn, g, Len(torn.up) + 1, settled)
    <3>1. Torn \in Frames \cup {Torn} /\ \A g \in Frames : ~(g < Torn)
      <4>1. Torn = 0 /\ \A g \in Frames : g \in Nat
        BY FrameFacts DEF Torn
      <4> QED
        BY <4>1
    <3> HIDE DEF s
    <3> QED
      BY <1>2, <3>1, SendFacts
  <2>2. [socks EXCEPT ![c].up = Append(@, Torn)] = [socks EXCEPT ![c] = torn]
    BY <1>1, <1>2
  <2>3. CASE w = <<>>
    <3> DEFINE k == [torn EXCEPT !.open = FALSE, !.down = <<>>]
    <3>1. conn' = None /\ socks' = [socks EXCEPT ![c] = k]
      BY <1>1, <1>2, <1>5, <2>2, <2>3
    <3> HIDE DEF torn
    <3>2. k \in Socket(settled) /\ SameShape(torn, k)
      BY <2>1, ClosedFacts
    <3>3. InOrder(k, settled)
      BY <2>1, <3>2, InOrderGrows
    <3> HIDE DEF k
    <3>4. SenderStep
      <4>1. socks' \in [Conns -> Socket(settled')] /\ WireInv'
        BY <1>0, <1>1, <3>1, <3>2, <3>3, SocketsAfter
      <4> QED
        BY <1>0, <1>5, <4>1 DEF SenderStep, SafeInv, TypeOK
    <3> QED
      BY <1>3, <3>1, <3>4, SenderStepKeeps
  <2>4. CASE w # <<>>
    <3>1. conn' = [conn EXCEPT !.broken = TRUE] /\ socks' = [socks EXCEPT ![c] = torn]
      BY <1>5, <2>2, <2>4
    <3> HIDE DEF torn
    <3>2. conn' \in Connection(settled) /\ conn'.inFlight = w /\ conn'.c = c
      BY <1>1, <3>1 DEF Connection
    <3>3. Written(torn, w, settled)
      BY <1>1, <2>1 DEF Written
    <3>4. SenderStep
      <4>1. socks' \in [Conns -> Socket(settled')] /\ WireInv'
        BY <1>0, <1>1, <2>1, <3>1, SocketsAfter
      <4> QED
        BY <1>0, <1>5, <4>1 DEF SenderStep, SafeInv, TypeOK
    <3>5. Written(socks'[conn'.c], conn'.inFlight, settled')
      BY <1>0, <1>1, <1>2, <3>1, <3>2, <3>3
    <3> QED
      BY <1>0, <1>1, <1>3, <3>2, <3>4, <3>5, SenderStepKeeps
  <2> QED
    BY <2>3, <2>4
<1> QED
  BY <1>4, <1>5 DEF WriteFrame

\* RejectLocally keeps the invariant: the frame it drops is the next to settle.
LEMMA RejectLocallyKeeps ==
  ASSUME SafeInv, RejectLocally
  PROVE  SafeInv'
<1>0. /\ head \in TooLarge /\ InFlight = <<>> /\ head' = head + 1 /\ settled' = settled \cup {head}
      /\ UNCHANGED <<conn, resend, hello, socks, table, copies, excused, faults>>
  BY DEF RejectLocally
<1>1. head \in Frames /\ head \in Nat /\ settled \subseteq settled' /\ settled' \subseteq Frames
  BY <1>0, FrameFacts DEF SafeInv, TypeOK
<1>2. FirstCopiesInOrder' /\ \A g \in Frames : g <= head => g \in settled'
  <2>1. \A g \in Frames : g < head => g \in settled
    BY DEF SafeInv, NothingLost
  <2> QED
    BY <1>0, <1>1, <2>1, SettleNext DEF SafeInv
<1>3. NothingLost'
  <2>1. \A g \in Frames : g < head + 1 => g <= head
    BY <1>1, FrameFacts
  <2> QED
    BY <1>0, <1>2, <2>1 DEF NothingLost
<1>4. SenderStep
  <2>1. \A d \in Conns : socks[d] \in Socket(settled') /\ InOrder(socks[d], settled')
    BY <1>1, SocketFacts, GrowSocket, InOrderGrows DEF SameShape
  <2>2. socks' \in [Conns -> Socket(settled')] /\ WireInv'
    BY <1>0, <2>1 DEF SafeInv, TypeOK, WireInv
  <2>3. head' \in 1..(Len(Queue) + 1)
    BY <1>0, <1>1, FrameFacts DEF Frames
  <2> QED
    BY <1>0, <1>1, <2>2, <2>3 DEF SenderStep, SafeInv, TypeOK
<1>5. ASSUME conn # None PROVE conn \in Connection(settled') /\ conn.inFlight = <<>>
  BY <1>0, <1>1, <1>5, ConnFacts, GrowConnection DEF InFlight
<1> QED
  BY <1>0, <1>2, <1>3, <1>4, <1>5, SenderStepKeeps DEF Written

\* RestartSender keeps the invariant: the replay starts at a committed frame.
LEMMA RestartSenderKeeps ==
  ASSUME SafeInv, RestartSender
  PROVE  SafeInv'
<1>0. /\ Fault /\ head' \in 1..head /\ conn' = None /\ hello' = 0 /\ resend' = {}
      /\ socks' = [c \in Conns |-> [socks[c] EXCEPT !.open = FALSE, !.down = <<>>]]
      /\ UNCHANGED <<table, copies, settled, excused>>
  BY DEF RestartSender, ghosts
<1>1. head \in 1..(Len(Queue) + 1) /\ Len(Queue) \in Nat
  BY FrameFacts DEF SafeInv, TypeOK
<1>a. head' \in 1..head
  BY <1>0
<1>2. \A c \in Conns : socks'[c] \in Socket(settled) /\ InOrder(socks'[c], settled)
  <2>1. ASSUME NEW c \in Conns PROVE socks'[c] \in Socket(settled) /\ InOrder(socks'[c], settled)
    <3>1. socks[c] \in Socket(settled) /\ InOrder(socks[c], settled)
      BY SocketFacts
    <3>2. socks'[c] = [socks[c] EXCEPT !.open = FALSE, !.down = <<>>]
      BY <1>0
    <3> QED
      BY <3>1, <3>2, ClosedFacts, InOrderGrows
  <2> QED
    BY <2>1
<1>3. SenderStep
  <2>1. socks' = [c \in Conns |-> socks'[c]]
    BY <1>0
  <2>2. socks' \in [Conns -> Socket(settled')] /\ WireInv'
    BY <1>0, <1>2, <2>1 DEF WireInv
  <2>3. head' \in 1..(Len(Queue) + 1)
    BY <1>1, <1>a
  <2> QED
    BY <1>0, <2>2, <2>3 DEF SenderStep, SafeInv, TypeOK
<1>4. NothingLost' /\ FirstCopiesInOrder'
  <2>0. \A g \in Frames : g \in Nat
    BY FrameFacts
  <2>1. \A g \in Frames : g < head' => g < head
    BY <1>1, <1>a, <2>0
  <2> QED
    BY <1>0, <2>1 DEF SafeInv, NothingLost, FirstCopiesInOrder
<1> QED
  BY <1>0, <1>3, <1>4, SenderStepKeeps

\* The window mark_acked leaves.
LEMMA MarkAckedFacts ==
  ASSUME SafeInv, NEW w \in Seq(WindowEntry(settled)), NEW p, NEW g \in settled, p = Queue[g]
  PROVE  /\ MarkAcked(w, p) \in Seq(WindowEntry(settled)) /\ Len(MarkAcked(w, p)) = Len(w)
         /\ \A i \in 1..Len(w) : MarkAcked(w, p)[i].f = w[i].f
         /\ \A i \in AckedPrefix(w, p) : w[i].f \in settled /\ 1 \in 1..Len(w) /\ w[1].f \in settled
<1> DEFINE v == MarkAcked(w, p)
<1>0. settled \subseteq Frames /\ FirstCopiesInOrder /\ Len(w) \in Nat /\ DOMAIN w = 1..Len(w)
  BY DEF SafeInv, TypeOK
<1>1. \A i \in 1..Len(w) : w[i] \in WindowEntry(settled)
  OBVIOUS
<1>2. ASSUME NEW i \in 1..Len(w), Queue[w[i].f].id = p.id, Queue[w[i].f].seq <= p.seq
      PROVE  w[i].f \in settled
  <2>1. w[i].f \in Frames
    BY <1>1 DEF WindowEntry
  <2>2. w[i].f <= g
    BY <1>0, <1>2, <2>1, PairFacts
  <2> QED
    BY <1>0, <2>1, <2>2, DownClosed
<1>3. ASSUME NEW i \in AckedPrefix(w, p)
      PROVE  i \in 1..Len(w) /\ w[i].f \in settled /\ 1 \in 1..Len(w) /\ w[1].f \in settled
  <2>1. /\ i \in 1..Len(w)
        /\ \A j \in 1..i : Queue[w[j].f].id = p.id /\ Queue[w[j].f].seq <= p.seq
    BY <1>0 DEF AckedPrefix
  <2>2. 1 \in 1..i /\ i \in 1..i /\ 1 \in 1..Len(w)
    BY <1>0, <2>1
  <2> QED
    BY <1>2, <2>1, <2>2
<1>4. v = [i \in 1..Len(w) |-> IF i \in AckedPrefix(w, p) THEN [w[i] EXCEPT !.acked = TRUE] ELSE w[i]]
  BY <1>0 DEF MarkAcked
<1> HIDE DEF v
<1>5. ASSUME NEW i \in 1..Len(w) PROVE v[i] \in WindowEntry(settled) /\ v[i].f = w[i].f
  <2>1. CASE i \in AckedPrefix(w, p)
    <3>1. v[i] = [w[i] EXCEPT !.acked = TRUE]
      BY <1>4, <2>1
    <3>2. w[i].f \in settled /\ w[i] \in WindowEntry(settled)
      BY <1>1, <1>3, <2>1
    <3> QED
      BY <3>1, <3>2 DEF WindowEntry
  <2>2. CASE i \notin AckedPrefix(w, p)
    BY <1>1, <1>4, <2>2
  <2> QED
    BY <2>1, <2>2
<1>6. v \in Seq(WindowEntry(settled)) /\ Len(v) = Len(w)
  <2>1. v \in [1..Len(w) -> WindowEntry(settled)]
    BY <1>4, <1>5
  <2> QED
    BY <1>0, <2>1
<1> QED
  BY <1>3, <1>5, <1>6 DEF v

\* The front of the window is popped once it is settled, and the connection that
\* is left is as good as the one before.
LEMMA PopKeeps ==
  ASSUME SafeInv, conn # None, NEW v \in Seq(WindowEntry(settled)), v # <<>>,
         Len(v) = Len(conn.inFlight), \A i \in 1..Len(v) : v[i].f = conn.inFlight[i].f,
         v[1].f \in settled, Pop(v), head' = head + 1,
         NEW k \in Socket(settled), SameShape(socks[conn.c], k), socks' = [socks EXCEPT ![conn.c] = Closed(k)],
         UNCHANGED <<resend, hello, table, copies, settled, excused, faults>>
  PROVE  SafeInv'
<1> DEFINE w == conn.inFlight
           rest == Tail(v)
           c == conn.c
           l == Closed(k)
<1>1. /\ conn \in Connection(settled) /\ c \in Conns /\ head \in Nat /\ head >= 1
      /\ \A i \in 1..Len(w) : w[i].f = head + i - 1
      /\ \A i \in 1..Len(w) : w[i].f \in Frames
      /\ Written(socks[c], w, settled)
  BY ConnFacts
<1>2. /\ rest \in Seq(WindowEntry(settled)) /\ Len(rest) = Len(v) - 1
      /\ \A i \in 1..(Len(v) - 1) : rest[i] = v[i + 1]
  BY TailFacts
<1>3. Len(v) \in Nat /\ Len(v) >= 1 /\ Len(rest) \in Nat
  BY <1>2
<1>4. conn' = IF conn.broken /\ rest = <<>> THEN None ELSE [conn EXCEPT !.inFlight = rest]
  BY DEF Pop
<1> HIDE DEF rest
<1>5. \A i \in 1..Len(rest) : rest[i].f = w[i + 1].f /\ i + 1 \in 1..Len(w) /\ rest[i].f = head + i
  <2>1. ASSUME NEW i \in 1..Len(rest) PROVE rest[i].f = w[i + 1].f /\ i + 1 \in 1..Len(w) /\ rest[i].f = head + i
    <3>1. i \in 1..(Len(v) - 1) /\ i + 1 \in 1..Len(v) /\ i \in Nat
      BY <1>2, <1>3
    <3>2. rest[i].f = w[i + 1].f /\ w[i + 1].f = head + (i + 1) - 1
      BY <1>1, <1>2, <3>1
    <3> QED
      BY <1>1, <3>1, <3>2
  <2> QED
    BY <2>1
<1>6. head \in Frames /\ head \in settled
  <2>1. 1 \in 1..Len(v) /\ v[1].f = head + 1 - 1
    BY <1>1, <1>3
  <2>2. v[1].f = head /\ v[1].f \in Frames
    BY <1>1, <2>1
  <2> QED
    BY <2>2
<1>7. l \in Socket(settled) /\ SameShape(socks[c], l)
  BY ClosedFacts DEF Closed, SameShape
<1> HIDE DEF l
<1>8. socks' = [socks EXCEPT ![c] = l]
  BY DEF l
<1>9. SenderStep
  <2>1. socks' \in [Conns -> Socket(settled')] /\ WireInv'
    BY <1>1, <1>7, <1>8, SocketsAfter
  <2>2. head' \in 1..(Len(Queue) + 1)
    BY <1>1, <1>6, FrameFacts DEF Frames
  <2> QED
    BY <2>1, <2>2 DEF SenderStep, SafeInv, TypeOK
<1>10. NothingLost' /\ FirstCopiesInOrder'
  <2>1. ASSUME NEW g \in Frames, g < head + 1 PROVE g \in settled
    <3>1. g = head \/ g < head
      BY <1>1, <2>1, FrameFacts
    <3> QED
      BY <1>6, <3>1 DEF SafeInv, NothingLost
  <2> QED
    BY <2>1 DEF SafeInv, NothingLost, FirstCopiesInOrder
<1>11. ASSUME conn' # None
       PROVE  /\ conn' \in Connection(settled)
              /\ \A i \in 1..Len(conn'.inFlight) : conn'.inFlight[i].f = head' + i - 1
              /\ Written(socks'[conn'.c], conn'.inFlight, settled)
  <2>1. conn' = [conn EXCEPT !.inFlight = rest]
    BY <1>4, <1>11
  <2>2. conn' \in Connection(settled) /\ conn'.inFlight = rest /\ conn'.c = c
    BY <1>1, <1>2, <2>1 DEF Connection
  <2>3. \A i \in 1..Len(rest) : head' + i - 1 = head + i
    BY <1>1, <1>3
  <2>4. socks'[c] = l
    BY <1>1, <1>8 DEF SafeInv, TypeOK
  <2>5. Written(l, w, settled)
    BY <1>1, <1>7, WrittenGrows
  <2>6. Written(l, rest, settled)
    BY <1>5, <2>5 DEF Written
  <2> QED
    BY <1>5, <2>2, <2>3, <2>4, <2>6
<1> QED
  BY <1>9, <1>10, <1>11, SenderStepKeeps

\* AckedAlready keeps the invariant.
LEMMA AckedAlreadyKeeps ==
  ASSUME SafeInv, AckedAlready
  PROVE  SafeInv'
<1> DEFINE w == conn.inFlight
<1>0. /\ conn # None /\ w # <<>> /\ Head(w).acked /\ Pop(w) /\ head' = head + 1
      /\ socks' = [socks EXCEPT ![conn.c] = Closed(@)]
      /\ UNCHANGED <<resend, hello, table, copies, settled, excused, faults>>
  BY DEF AckedAlready, InFlight, ghosts
<1>1. w \in Seq(WindowEntry(settled)) /\ conn.c \in Conns /\ socks[conn.c] \in Socket(settled)
  BY <1>0, ConnFacts, SocketFacts
<1>2. w[1].f \in settled
  <2>1. Head(w) \in WindowEntry(settled) /\ Head(w) = w[1]
    BY <1>0, <1>1, TailFacts
  <2> QED
    BY <1>0, <2>1 DEF WindowEntry
<1>3. SameShape(socks[conn.c], socks[conn.c]) /\ socks' = [socks EXCEPT ![conn.c] = Closed(socks[conn.c])]
  BY <1>0, <1>1 DEF SafeInv, TypeOK, SameShape
<1> HIDE DEF w
<1> QED
  BY <1>0, <1>1, <1>2, <1>3, PopKeeps DEF w

\* ReadAck keeps the invariant: an answer that is taken names a settled frame, and
\* with it every earlier entry it marks.
LEMMA ReadAckKeeps ==
  ASSUME SafeInv, ReadAck
  PROVE  SafeInv'
<1> DEFINE c == conn.c
           w == conn.inFlight
           msg == Head(socks[c].down)
           k == [socks[c] EXCEPT !.down = Tail(socks[c].down)]
           good == \/ msg.type = "ack" /\ Names(w, msg.pair)
                   \/ msg.type = "rejected" /\ Queue[Head(w).f] = msg.pair
           v == IF msg.type = "ack" THEN MarkAcked(w, msg.pair) ELSE w
<1>0. conn # None /\ w # <<>> /\ socks[c].down # <<>> /\ UNCHANGED <<hello, table, copies, settled, excused, faults>>
  BY DEF ReadAck, InFlight, ghosts
<1>1. conn \in Connection(settled) /\ c \in Conns /\ w \in Seq(WindowEntry(settled)) /\ Len(w) \in Nat
  BY <1>0, ConnFacts
<1>2. msg \in GoodMsgs(settled) /\ k \in Socket(settled) /\ SameShape(socks[c], k)
  BY <1>0, <1>1, ReadFacts
<1>3. CASE good
  <2>1. Pop(v) /\ head' = head + 1 /\ UNCHANGED resend
        /\ socks' = [socks EXCEPT ![c] = Closed(k)]
    BY <1>3 DEF ReadAck
  <2> HIDE DEF k
  <2>3. PICK g \in settled : msg.pair = Queue[g]
    <3>1. msg \in [type : {"ack", "rejected"}, pair : {Queue[f] : f \in settled}]
      BY <1>2, <1>3 DEF GoodMsgs, GoingAway, Reject
    <3> QED
      BY <3>1
  <2> HIDE DEF msg
  <2>4. /\ MarkAcked(w, msg.pair) \in Seq(WindowEntry(settled)) /\ Len(MarkAcked(w, msg.pair)) = Len(w)
        /\ \A i \in 1..Len(w) : MarkAcked(w, msg.pair)[i].f = w[i].f
        /\ \A i \in AckedPrefix(w, msg.pair) : w[1].f \in settled
    BY <1>1, <2>3, MarkAckedFacts
  <2>5. v \in Seq(WindowEntry(settled)) /\ Len(v) = Len(w) /\ \A i \in 1..Len(w) : v[i].f = w[i].f
    BY <1>1, <2>4
  <2>6. w[1].f \in settled
    <3>1. CASE msg.type = "ack"
      BY <1>3, <2>4, <3>1 DEF Names
    <3>2. CASE msg.type # "ack"
      <4>1. Queue[Head(w).f] = Queue[g] /\ Head(w) = w[1] /\ Head(w) \in WindowEntry(settled)
        BY <1>0, <1>1, <1>3, <2>3, <3>2, TailFacts
      <4>2. Head(w).f \in Frames /\ g \in Frames /\ settled \subseteq Frames
        BY <2>3, <4>1 DEF WindowEntry, SafeInv, TypeOK
      <4>3. Head(w).f <= g
        BY <4>1, <4>2, PairFacts, FrameFacts
      <4> QED
        BY <4>1, <4>2, <4>3, DownClosed DEF SafeInv
    <3> QED
      BY <3>1, <3>2
  <2>7. v # <<>> /\ v[1].f \in settled
    <3>1. Len(w) >= 1 /\ 1 \in 1..Len(w)
      BY <1>0, <1>1
    <3> QED
      BY <2>5, <2>6, <3>1
  <2> HIDE DEF v
  <2> QED
    BY <1>0, <1>2, <2>1, <2>5, <2>7, PopKeeps
<1>4. CASE ~good
  <2>1. DropAndResend /\ UNCHANGED head
    BY <1>4 DEF ReadAck
  <2>2. ResendSenders(w) \subseteq Ids /\ hello \in {0} \cup Conns
    BY <1>1, ResendIsKnown DEF SafeInv, TypeOK
  <2> QED
    BY <1>0, <1>1, <2>1, <2>2, DropKeeps DEF DropAndResend
<1> QED
  BY <1>3, <1>4

-----------------------------------------------------------------------------
(* No frame is lost, and first copies keep the store's order. *)

\* The initial state.
LEMMA SafeInit == Init => SafeInv
<1> SUFFICES ASSUME Init PROVE SafeInv
  OBVIOUS
<1>0. Len(Queue) \in Nat /\ \A f \in Frames : f \in Nat /\ f >= 1
  BY FrameFacts
<1>1. <<>> \in Seq(Frames \cup {Torn}) /\ <<>> \in Seq(GoodMsgs(settled)) /\ "free" \in States
  BY EmptySeq DEF States
<1>2. Fresh \in Socket(settled) /\ Fresh.st = "free" /\ Fresh.up = <<>> /\ Fresh.cur = Torn
  BY <1>1 DEF Fresh, Socket
<1>3. InOrder(Fresh, settled)
  BY <1>0, <1>2 DEF InOrder, Torn
<1>4. /\ head = 1 /\ conn = None /\ resend = {} /\ hello = 0 /\ socks = [c \in Conns |-> Fresh]
      /\ table = <<>> /\ copies = [f \in Frames |-> 0] /\ settled = {} /\ excused = {} /\ faults = 0
  BY DEF Init
<1>5. socks \in [Conns -> Socket(settled)] /\ WireInv
  BY <1>2, <1>3, <1>4 DEF WireInv
<1>6. table \in Seq(SoundMarks(settled)) /\ TableInv
  BY <1>4, EmptySeq DEF TableInv, Unique
<1>7. TypeOK
  BY <1>0, <1>4, <1>5, <1>6 DEF TypeOK
<1>8. WindowInv /\ WrittenInv /\ FirstCopiesInOrder
  BY <1>4 DEF WindowInv, WrittenInv, FirstCopiesInOrder
<1>9. NothingLost
  BY <1>0, <1>4 DEF NothingLost
<1> QED
  BY <1>5, <1>6, <1>7, <1>8, <1>9 DEF SafeInv

\* Nothing happens.
LEMMA SafeStutters ==
  ASSUME SafeInv, UNCHANGED vars
  PROVE  SafeInv'
BY DEF vars, senderVars, ghosts, SafeInv, TypeOK, TableInv, WindowInv, WrittenInv, WireInv, NothingLost,
       FirstCopiesInOrder

\* SafeInv is kept by every step of either end.
THEOREM SafeInductive == SafeInv /\ [Next]_vars => SafeInv'
<1> SUFFICES ASSUME SafeInv, [Next]_vars PROVE SafeInv'
  OBVIOUS
<1>1. CASE Sender
  <2>1. CASE Connect
    BY <2>1, ConnectKeeps
  <2>2. CASE ReadHelloAck
    BY <2>2, ReadHelloAckKeeps
  <2>3. CASE HelloFails \/ Probe \/ AckFails
    BY <2>3, FailuresKeep
  <2>4. ASSUME NEW f \in Frames, Submit(f) PROVE SafeInv'
    BY <2>4, ResumeKeeps, WriteFrameKeeps DEF Submit
  <2>5. CASE RejectLocally
    BY <2>5, RejectLocallyKeeps
  <2>6. CASE AckedAlready
    BY <2>6, AckedAlreadyKeeps
  <2>7. CASE ReadAck
    BY <2>7, ReadAckKeeps
  <2> QED
    BY <1>1, <2>1, <2>2, <2>3, <2>4, <2>5, <2>6, <2>7 DEF Sender
<1>2. CASE RestartSender
  BY <1>2, RestartSenderKeeps
<1>3. ASSUME NEW c \in Conns, Serve(c) \/ EndByListener(c) \/ Reset(c) PROVE SafeInv'
  <2>1. CASE AnswerHello(c)
    BY <2>1, AnswerHelloKeeps
  <2>2. CASE WriteOwedAck(c)
    BY <2>2, WriteOwedAckKeeps
  <2>3. CASE TakeFrame(c)
    BY <2>3, TakeFrameKeeps
  <2>4. CASE Forward(c)
    BY <2>4, ForwardKeeps
  <2>5. CASE RaiseTaken(c)
    BY <2>5, RaiseTakenKeeps
  <2>6. CASE EndByPeer(c) \/ EndByListener(c) \/ Reset(c)
    BY <2>6, EndsKeeps
  <2> QED
    BY <1>3, <2>1, <2>2, <2>3, <2>4, <2>5, <2>6 DEF Serve
<1>4. CASE RestartListener
  BY <1>4, RestartListenerKeeps
<1>5. ASSUME NEW id \in Strangers, OtherSink(id) PROVE SafeInv'
  BY <1>5, OtherSinkKeeps
<1>6. CASE Drained \/ UNCHANGED vars
  BY <1>6, SafeStutters DEF Drained
<1> QED
  BY <1>1, <1>2, <1>3, <1>4, <1>5, <1>6 DEF Next

\* SafeInv holds in every state of the hop.
THEOREM SafeHolds == Spec => []SafeInv
BY SafeInit, SafeInductive, PTL DEF Spec

\* No frame the sink commits is lost, whatever is resent, replayed, reset or
\* restarted: each was forwarded, refused by name or too large to send (read_ack,
\* mark_acked, covers).
THEOREM LosesNothing == Spec => []NothingLost
<1>1. SafeInv => NothingLost
  BY DEF SafeInv
<1> QED
  BY <1>1, SafeHolds, PTL

\* No frame reaches a consumer for the first time after a later one: the frames on a
\* socket, those its task holds and those of the window leave no gap (frame_loop).
THEOREM KeepsOrder == Spec => []FirstCopiesInOrder
<1>1. SafeInv => FirstCopiesInOrder
  BY DEF SafeInv
<1> QED
  BY <1>1, SafeHolds, PTL

-----------------------------------------------------------------------------
(* A second copy is one of the documented gaps. *)

\* The frames the table remembers are remembered still, or excused.
Retains == \A f \in Frames : IsResend(table, Queue[f]) => IsResend(table', Queue[f]) \/ f \in excused'

\* The task of c holds the frame it held, or has let go of it with its mark raised.
LetsGo(c) ==
  \/ socks'[c].st = socks[c].st /\ socks'[c].cur = socks[c].cur
  \/ /\ socks'[c].cur = Torn
     /\ socks[c].st = "taken" => IsResend(table', Queue[socks[c].cur])

\* A step by which no task takes hold of a frame and no consumer gets a copy.
LEMMA LettingGoKeeps ==
  ASSUME SafeInv, SafeInv', CopiesInv, Retains, \A c \in Conns : LetsGo(c),
         copies' = copies, settled \subseteq settled', excused \subseteq excused'
  PROVE  CopiesInv'
<1>1. ASSUME NEW f \in Frames, copies[f] > 0
      PROVE  /\ f \in settled'
             /\ \/ f \in excused'
                \/ IsResend(table', Queue[f])
                \/ \E d \in Conns : socks'[d].st = "taken" /\ socks'[d].cur = f
  <2>1. /\ f \in settled'
        /\ \/ f \in excused'
           \/ IsResend(table, Queue[f])
           \/ \E d \in Conns : socks[d].st = "taken" /\ socks[d].cur = f
    BY <1>1 DEF CopiesInv, CopyInv
  <2>2. CASE IsResend(table, Queue[f])
    BY <2>1, <2>2 DEF Retains
  <2>3. ASSUME NEW d \in Conns, socks[d].st = "taken", socks[d].cur = f
        PROVE  IsResend(table', Queue[f]) \/ (socks'[d].st = "taken" /\ socks'[d].cur = f)
    BY <2>3 DEF LetsGo
  <2> QED
    BY <2>1, <2>2, <2>3
<1>2. ASSUME NEW c \in Conns, NEW d \in Conns, c # d, socks'[c].cur # Torn, socks'[c].cur = socks'[d].cur
      PROVE  socks'[c].cur \in excused'
  <2>1. socks'[c].cur = socks[c].cur /\ socks'[d].cur = socks[d].cur
    BY <1>2 DEF LetsGo
  <2> QED
    BY <1>2, <2>1 DEF CopiesInv, CopyInv
<1>3. ASSUME NEW c \in Conns, socks'[c].st = "forward", copies'[socks'[c].cur] > 0
      PROVE  socks'[c].cur \in excused'
  <2>1. socks'[c].cur # Torn
    BY <1>3 DEF SafeInv, WireInv, InOrder
  <2>2. socks'[c].st = socks[c].st /\ socks'[c].cur = socks[c].cur
    BY <2>1 DEF LetsGo
  <2> QED
    BY <1>3, <2>2 DEF CopiesInv, CopyInv
<1>4. DuplicatesExplained'
  BY DEF CopiesInv, DuplicatesExplained
<1> QED
  BY <1>1, <1>2, <1>3, <1>4 DEF CopiesInv, CopyInv

\* A raised mark forgets only the identity it evicts, whose frames are excused.
LEMMA RaiseRetains ==
  ASSUME SafeInv, SafeInv', NEW p, p.seq \in Nat, p.id \in Ids \cup Strangers, table' = Raise(table, p),
         excused' = excused \cup Forgotten(table, table')
  PROVE  Retains /\ IsResend(table', p)
<1>1. Mark \in SUBSET Mark /\ table \in Seq(Mark) /\ Unique(table) /\ table' \in Seq(Mark) /\ Unique(table')
  <2>1. table \in Seq(SoundMarks(settled)) /\ table' \in Seq(SoundMarks(settled'))
    BY DEF SafeInv, TypeOK
  <2>2. SoundMarks(settled) \subseteq Mark /\ SoundMarks(settled') \subseteq Mark
    BY DEF SoundMarks
  <2>3. table \in Seq(Mark) /\ table' \in Seq(Mark)
    BY <2>1, <2>2, SeqGrows
  <2> QED
    BY <2>3 DEF SafeInv, TableInv
<1>2. [id |-> p.id, mark |-> p.seq] \in Mark
  BY DEF Mark
<1>3. /\ Remembers(table', p)
      /\ \A q : q.seq \in Nat /\ Remembers(table, q) /\ Holds(table', q.id) => Remembers(table', q)
  BY <1>1, <1>2, RaiseFacts
<1>4. IsResend(table', p)
  BY <1>1, <1>3, ResendFacts
<1>5. ASSUME NEW f \in Frames, IsResend(table, Queue[f]) PROVE IsResend(table', Queue[f]) \/ f \in excused'
  <2>1. CASE ~Holds(table', Queue[f].id)
    BY <1>5, <2>1 DEF Forgotten
  <2>2. CASE Holds(table', Queue[f].id)
    <3>1. Remembers(table, Queue[f]) /\ Queue[f].seq \in Nat
      BY <1>1, <1>5, ResendFacts, FrameFacts
    <3>2. Remembers(table', Queue[f])
      BY <1>3, <2>2, <3>1
    <3> QED
      BY <1>1, <3>2, ResendFacts
  <2> QED
    BY <2>1, <2>2
<1> QED
  BY <1>4, <1>5 DEF Retains

\* A frame seen again forgets nothing.
LEMMA SeenRetains ==
  ASSUME SafeInv, SafeInv', NEW p, table' = Seen(table, p)
  PROVE  Retains
<1>1. /\ SoundMarks(settled) \in SUBSET Mark /\ table \in Seq(SoundMarks(settled)) /\ Unique(table)
      /\ table' \in Seq(SoundMarks(settled')) /\ Unique(table')
  BY DEF SafeInv, TypeOK, TableInv, SoundMarks
<1>2. \A q : Remembers(table, q) => Remembers(table', q)
  BY <1>1, SeenFacts
<1>3. ASSUME NEW f \in Frames, IsResend(table, Queue[f]) PROVE IsResend(table', Queue[f])
  BY <1>1, <1>2, <1>3, ResendFacts
<1> QED
  BY <1>3 DEF Retains

\* A socket dropped at the sink's end keeps its task.
LEMMA DropLetsGo ==
  ASSUME SafeInv, NEW c \in Conns, socks' = Drop(c)
  PROVE  \A d \in Conns : LetsGo(d)
<1>1. socks \in [Conns -> Socket(settled)]
  BY DEF SafeInv, TypeOK
<1>2. ASSUME NEW d \in Conns PROVE socks'[d].st = socks[d].st /\ socks'[d].cur = socks[d].cur
  <2>1. socks[d] \in Socket(settled)
    BY <1>1
  <2>2. CASE d = c
    <3>1. socks'[d] = [socks[d] EXCEPT !.open = FALSE, !.down = <<>>]
      BY <1>1, <2>2 DEF Drop
    <3> QED
      BY <2>1, <3>1, ClosedFacts DEF SameShape
  <2>3. CASE d # c
    <3>1. socks'[d] = socks[d]
      BY <1>1, <2>3 DEF Drop
    <3> QED
      BY <3>1
  <2> QED
    BY <2>2, <2>3
<1> QED
  BY <1>2 DEF LetsGo

\* So does one that changed in another field.
LEMMA OneLetsGo ==
  ASSUME SafeInv, NEW c \in Conns, NEW k, socks' = [socks EXCEPT ![c] = k],
         \/ k.st = socks[c].st /\ k.cur = socks[c].cur
         \/ k.cur = Torn /\ (socks[c].st = "taken" => IsResend(table', Queue[socks[c].cur]))
  PROVE  \A d \in Conns : LetsGo(d)
<1>1. socks'[c] = k /\ \A d \in Conns : d # c => socks'[d] = socks[d]
  BY DEF SafeInv, TypeOK
<1> QED
  BY <1>1 DEF LetsGo

\* No step of logit_out makes a task take hold of a frame.
LEMMA SenderLetsGo ==
  ASSUME SafeInv, Sender \/ RestartSender
  PROVE  \A d \in Conns : LetsGo(d)
<1>0. socks \in [Conns -> Socket(settled)] /\ hello \in {0} \cup Conns /\ (conn # None => conn.c \in Conns)
  BY ConnFacts DEF SafeInv, TypeOK
<1>1. CASE Connect
  <2> DEFINE k == [Fresh EXCEPT !.st = "hello", !.open = TRUE, !.asked = resend]
  <2>1. PICK c \in Conns : socks[c].st \in {"free", "over"} /\ socks' = [socks EXCEPT ![c] = k]
    BY <1>1 DEF Connect
  <2>2. k.cur = Torn
    BY DEF Fresh
  <2> HIDE DEF k
  <2> QED
    BY <2>1, <2>2, OneLetsGo
<1>2. CASE ReadHelloAck
  <2> DEFINE k == [socks[hello] EXCEPT !.down = Tail(socks[hello].down)]
  <2>1. hello \in Conns
    BY <1>0, <1>2 DEF ReadHelloAck
  <2>2. CASE socks' = [socks EXCEPT ![hello].down = Tail(@)]
    <3>1. socks' = [socks EXCEPT ![hello] = k]
      BY <1>0, <2>1, <2>2
    <3>2. k.st = socks[hello].st /\ k.cur = socks[hello].cur
      BY <1>0, <2>1 DEF Socket
    <3> HIDE DEF k
    <3> QED
      BY <2>1, <3>1, <3>2, OneLetsGo
  <2>3. CASE socks' = Drop(hello)
    BY <2>1, <2>3, DropLetsGo
  <2> QED
    BY <1>2, <2>2, <2>3 DEF ReadHelloAck
<1>3. CASE HelloFails
  <2>1. hello \in Conns /\ socks' = Drop(hello)
    BY <1>0, <1>3 DEF HelloFails
  <2> QED
    BY <2>1, DropLetsGo
<1>4. CASE Probe \/ AckFails
  <2>1. conn # None /\ socks' = Drop(conn.c)
    BY <1>4 DEF Probe, Submits, AckFails, InFlight, DropAndResend
  <2> QED
    BY <1>0, <2>1, DropLetsGo
<1>5. ASSUME NEW f \in Frames, Submit(f) PROVE \A d \in Conns : LetsGo(d)
  <2>1. CASE Resume(f)
    BY <2>1 DEF Resume, LetsGo
  <2>2. CASE WriteFrame(f)
    <3> DEFINE c == conn.c
               s == socks[c]
    <3>1. c \in Conns /\ s \in Socket(settled)
      BY <1>0, <2>2 DEF WriteFrame, Submits
    <3>2. PICK u : \/ socks' = [socks EXCEPT ![c].up = u]
                   \/ socks' = [[socks EXCEPT ![c].up = u] EXCEPT ![c].open = FALSE, ![c].down = <<>>]
      <4>1. \/ socks' = [socks EXCEPT ![c].up = IF s.st = "over" THEN s.up ELSE Append(s.up, f)]
            \/ socks' = [socks EXCEPT ![c].up = Append(s.up, Torn)]
            \/ socks' = [[socks EXCEPT ![c].up = Append(s.up, Torn)] EXCEPT ![c].open = FALSE, ![c].down = <<>>]
        BY <1>0, <2>2, <3>1 DEF WriteFrame
      <4> QED
        BY <4>1
    <3> DEFINE k == [s EXCEPT !.up = u]
               l == [k EXCEPT !.open = FALSE, !.down = <<>>]
    <3>3. k.st = s.st /\ k.cur = s.cur /\ l.st = s.st /\ l.cur = s.cur
      BY <3>1 DEF Socket
    <3>4. socks' = [socks EXCEPT ![c] = k] \/ socks' = [socks EXCEPT ![c] = l]
      BY <1>0, <3>1, <3>2
    <3> HIDE DEF k, l
    <3> QED
      BY <3>1, <3>3, <3>4, OneLetsGo
  <2> QED
    BY <1>5, <2>1, <2>2 DEF Submit
<1>6. CASE RejectLocally
  BY <1>6 DEF RejectLocally, LetsGo
<1>7. CASE AckedAlready \/ ReadAck
  <2> DEFINE c == conn.c
             read == [socks[c] EXCEPT !.down = Tail(socks[c].down)]
  <2>1. c \in Conns /\ socks[c] \in Socket(settled)
    BY <1>0, <1>7 DEF AckedAlready, ReadAck, InFlight
  <2>2. ASSUME NEW k, socks' = [socks EXCEPT ![c] = Closed(k)], k \in Socket(settled), k.st = socks[c].st, k.cur = socks[c].cur
        PROVE  \A d \in Conns : LetsGo(d)
    <3>1. Closed(k).st = k.st /\ Closed(k).cur = k.cur
      BY <2>2, ClosedFacts DEF Closed, SameShape
    <3> QED
      BY <2>1, <2>2, <3>1, OneLetsGo
  <2>3. CASE AckedAlready
    <3>1. socks' = [socks EXCEPT ![c] = Closed(socks[c])]
      BY <1>0, <2>1, <2>3 DEF AckedAlready
    <3> QED
      BY <2>1, <2>2, <3>1
  <2>4. CASE ReadAck
    <3>1. socks[c].down # <<>> /\ (socks' = [socks EXCEPT ![c] = Closed(read)] \/ socks' = Drop(c))
      BY <2>4 DEF ReadAck, DropAndResend
    <3>2. read \in Socket(settled) /\ read.st = socks[c].st /\ read.cur = socks[c].cur
      BY <2>1, <3>1, ReadFacts DEF SameShape
    <3> HIDE DEF read
    <3> QED
      BY <2>1, <2>2, <3>1, <3>2, DropLetsGo
  <2> QED
    BY <1>7, <2>3, <2>4
<1>8. CASE RestartSender
  <2>1. ASSUME NEW d \in Conns PROVE socks'[d].st = socks[d].st /\ socks'[d].cur = socks[d].cur
    <3>1. socks'[d] = [socks[d] EXCEPT !.open = FALSE, !.down = <<>>]
      BY <1>8 DEF RestartSender
    <3> QED
      BY <1>0, <3>1, ClosedFacts, ZenonT(60) DEF SameShape
  <2> QED
    BY <2>1 DEF LetsGo
<1> QED
  BY <1>1, <1>2, <1>3, <1>4, <1>5, <1>6, <1>7, <1>8 DEF Sender

\* So the steps of logit_out explain what they have to.
LEMMA SenderKeepsCopies ==
  ASSUME SafeInv, SafeInv', CopiesInv, Sender \/ RestartSender
  PROVE  CopiesInv'
<1>1. UNCHANGED <<table, copies, excused>> /\ settled \subseteq settled'
  BY DEF Sender, RestartSender, Connect, ReadHelloAck, HelloFails, Submit, Resume, WriteFrame, Probe,
         RejectLocally, AckedAlready, ReadAck, AckFails, ghosts
<1>2. Retains
  BY <1>1 DEF Retains
<1> QED
  BY <1>1, <1>2, SenderLetsGo, LettingGoKeeps

\* Nor does a task that answers, or ends.
LEMMA AnswersKeepCopies ==
  ASSUME SafeInv, SafeInv', CopiesInv, NEW c \in Conns,
         AnswerHello(c) \/ WriteOwedAck(c) \/ EndByListener(c) \/ EndByPeer(c) \/ Reset(c)
  PROVE  CopiesInv'
<1> DEFINE s == socks[c]
<1>1. UNCHANGED <<table, copies, excused, settled>> /\ s.st \in {"hello", "loop"}
  BY DEF AnswerHello, WriteOwedAck, EndByListener, EndByPeer, Reset, ghosts
<1>2. s \in Socket(settled) /\ s.cur = Torn
  <2>1. s \in Socket(settled) /\ InOrder(s, settled)
    BY SocketFacts
  <2> QED
    BY <1>1, <2>1 DEF InOrder
<1>3. socks'[c].cur = Torn /\ \A d \in Conns : d # c => socks'[d] = socks[d]
  <2>1. /\ socks \in [Conns -> Socket(settled)]
        /\ socks' \in [Conns -> Socket(settled')] /\ InOrder(socks'[c], settled')
    BY DEF SafeInv, TypeOK, WireInv
  <2>2. socks'[c].st \in {"hello", "loop", "over"}
    <3>1. CASE AnswerHello(c)
      <4> DEFINE m == IF Cardinality(Served) >= MaxConnections THEN Reject ELSE HelloAck(Marks(table, s.asked))
                 k == Write(s, <<m>>)
      <4>1. m \in GoodMsgs(settled)
        BY HelloAckIsGood DEF GoodMsgs
      <4>2. k \in Socket(settled)
        BY <1>2, <4>1, WriteFacts
      <4>3. socks'[c] = Over(k) \/ socks'[c] = [k EXCEPT !.st = "loop"]
        BY <2>1, <3>1 DEF AnswerHello
      <4> HIDE DEF k
      <4>4. Over(k).st = "over" /\ [k EXCEPT !.st = "loop"].st = "loop"
        BY <4>2, OverFacts DEF Socket
      <4> QED
        BY <4>3, <4>4
    <3>2. CASE WriteOwedAck(c)
      <4>1. socks'[c] = Flush(s)
        BY <2>1, <3>2 DEF WriteOwedAck
      <4> QED
        BY <1>1, <1>2, <4>1, FlushFacts DEF SameShape
    <3>3. CASE EndByListener(c)
      <4>1. socks'[c] = GoAway(s)
        BY <2>1, <3>3 DEF EndByListener
      <4> QED
        BY <1>2, <4>1, GoAwayFacts
    <3>4. CASE EndByPeer(c)
      <4>1. socks'[c] = Over(Flush(s)) /\ Flush(s) \in Socket(settled)
        BY <1>2, <2>1, <3>4, FlushFacts DEF EndByPeer
      <4> QED
        BY <4>1, OverFacts
    <3>5. CASE Reset(c)
      <4>1. PICK n \in 0..Len(s.down) : socks'[c] = Over([s EXCEPT !.down = SubSeq(s.down, 1, n)])
        BY <2>1, <3>5 DEF Reset
      <4> DEFINE k == [s EXCEPT !.down = SubSeq(s.down, 1, n)]
      <4>2. Over(k).st = "over"
        BY <1>2 DEF Over, Socket
      <4> QED
        BY <4>1, <4>2
    <3> QED
      BY <3>1, <3>2, <3>3, <3>4, <3>5
  <2>3. socks'[c].cur = Torn
    BY <2>1, <2>2 DEF InOrder
  <2>4. \E k : socks' = [socks EXCEPT ![c] = k]
    BY <2>1 DEF AnswerHello, WriteOwedAck, EndByListener, EndByPeer, Reset
  <2> QED
    BY <2>1, <2>3, <2>4
<1>4. \A d \in Conns : LetsGo(d)
  BY <1>1, <1>3 DEF LetsGo
<1>5. Retains
  BY <1>1 DEF Retains
<1> QED
  BY <1>1, <1>4, <1>5, LettingGoKeeps

\* TakeFrame: a frame taken in hand is one the table does not remember, so a copy of
\* it is with another task, and excused.
LEMMA TakeFrameKeepsCopies ==
  ASSUME SafeInv, SafeInv', CopiesInv, NEW c \in Conns, TakeFrame(c)
  PROVE  CopiesInv'
<1> DEFINE s == socks[c]
           f == Head(s.up)
           k == [s EXCEPT !.up = Tail(s.up)]
           run == IF OtherIdentity(k, f) THEN Flush(k) ELSE k
<1>0. s.st = "loop" /\ f # Torn /\ copies' = copies
  BY DEF TakeFrame
<1>1. /\ s \in Socket(settled) /\ socks \in [Conns -> Socket(settled)]
      /\ \A d \in Conns : InOrder(socks'[d], settled')
  BY SocketFacts DEF SafeInv, TypeOK, WireInv
<1>2. f \in Frames /\ Tail(s.up) \in Seq(Frames \cup {Torn})
  <2>1. s.up # <<>> /\ s.up \in Seq(Frames \cup {Torn})
    BY SocketFacts DEF TakeFrame
  <2>2. f \in Frames \cup {Torn} /\ Tail(s.up) \in Seq(Frames \cup {Torn})
    BY <2>1, TailFacts
  <2> QED
    BY <1>0, <2>2
<1>3. k \in Socket(settled) /\ k.st = "loop"
  BY <1>0, <1>1, <1>2 DEF Socket
<1>4. CASE f \in Refused
  <2> DEFINE l == Write(Flush(k), <<RejectedAck(f)>>)
  <2>0. /\ table' = Raise(table, Queue[f]) /\ socks' = [socks EXCEPT ![c] = l]
        /\ settled' = settled \cup {f} /\ excused' = excused \cup Forgotten(table, table')
    BY <1>4 DEF TakeFrame
  <2>1. k \in Socket(settled') /\ RejectedAck(f) \in GoodMsgs(settled')
    BY <1>3, <2>0, GrowSocket DEF RejectedAck, GoodMsgs
  <2> HIDE DEF k
  <2>2. Flush(k) \in Socket(settled') /\ SameShape(k, Flush(k))
    BY <2>1, FlushFacts
  <2>3. SameShape(Flush(k), l)
    BY <2>1, <2>2, WriteFacts
  <2> HIDE DEF l
  <2>4. l.st = "loop" /\ socks'[c] = l
    BY <1>1, <1>3, <2>0, <2>2, <2>3 DEF SameShape
  <2>5. l.cur = Torn
    BY <1>1, <2>4 DEF InOrder
  <2>6. \A d \in Conns : LetsGo(d)
    BY <1>0, <2>0, <2>5, OneLetsGo
  <2>7. Retains
    BY <1>2, <2>0, RaiseRetains, FrameFacts
  <2> QED
    BY <1>0, <2>0, <2>6, <2>7, LettingGoKeeps
<1>5. CASE f \notin Refused
  <2> DEFINE l == IF IsResend(table, Queue[f]) THEN Owe(run, f) ELSE [run EXCEPT !.st = "forward", !.cur = f]
  <2>0. /\ table' = Seen(table, Queue[f]) /\ socks' = [socks EXCEPT ![c] = l] /\ settled' = settled
        /\ excused' = excused \cup {g \in {f} : ~IsResend(table, Queue[f])
                                                /\ \E d \in Conns \ {c} : socks[d].cur = f}
    BY <1>5 DEF TakeFrame
  <2>1. Retains
    BY <2>0, SeenRetains
  <2> HIDE DEF k
  <2>2. run \in Socket(settled)
    BY <1>3, FlushFacts
  <2> HIDE DEF run
  <2>3. CASE IsResend(table, Queue[f])
    <3>1. l = Owe(run, f) /\ f \in settled
      BY <1>2, <2>3, RememberedIsSettled
    <3>2. l.cur = Torn
      BY <2>2, <3>1, OweFacts
    <3> HIDE DEF l
    <3>3. \A d \in Conns : LetsGo(d)
      BY <1>0, <2>0, <3>2, OneLetsGo
    <3> QED
      BY <1>0, <2>0, <2>1, <3>3, LettingGoKeeps
  <2>4. CASE ~IsResend(table, Queue[f])
    <3>1. l = [run EXCEPT !.st = "forward", !.cur = f]
      BY <2>4
    <3>2. l.st = "forward" /\ l.cur = f
      BY <2>2, <3>1 DEF Socket
    <3> HIDE DEF l, f, s
    <3>3. /\ socks'[c].st = "forward" /\ socks'[c].cur = f
          /\ \A d \in Conns : d # c => socks'[d] = socks[d]
      BY <1>1, <2>0, <3>2
    <3>4. \A d \in Conns : d # c /\ socks[d].cur = f => f \in excused'
      BY <2>0, <2>4
    <3>5. excused \subseteq excused' /\ socks[c].st = "loop"
      BY <1>0, <2>0 DEF s
    <3>6. ASSUME NEW g \in Frames, copies[g] > 0
          PROVE  /\ g \in settled'
                 /\ \/ g \in excused'
                    \/ IsResend(table', Queue[g])
                    \/ \E d \in Conns : socks'[d].st = "taken" /\ socks'[d].cur = g
      <4>1. /\ g \in settled
            /\ \/ g \in excused
               \/ IsResend(table, Queue[g])
               \/ \E d \in Conns : socks[d].st = "taken" /\ socks[d].cur = g
        BY <3>6 DEF CopiesInv, CopyInv
      <4>2. ASSUME NEW d \in Conns, socks[d].st = "taken", socks[d].cur = g
            PROVE  socks'[d].st = "taken" /\ socks'[d].cur = g
        BY <3>3, <3>5, <4>2
      <4> QED
        BY <2>0, <2>1, <3>5, <4>1, <4>2 DEF Retains
    <3>7. ASSUME NEW a \in Conns, NEW b \in Conns, a # b, socks'[a].cur # Torn, socks'[a].cur = socks'[b].cur
          PROVE  socks'[a].cur \in excused'
      <4>1. CASE a = c \/ b = c
        BY <3>3, <3>4, <3>7, <4>1
      <4>2. CASE a # c /\ b # c
        BY <3>3, <3>5, <3>7, <4>2 DEF CopiesInv, CopyInv
      <4> QED
        BY <4>1, <4>2
    <3>8. ASSUME NEW d \in Conns, socks'[d].st = "forward", copies'[socks'[d].cur] > 0
          PROVE  socks'[d].cur \in excused'
      <4>1. CASE d # c
        BY <1>0, <3>3, <3>5, <3>8, <4>1 DEF CopiesInv, CopyInv
      <4>2. CASE d = c
        <5>1. copies[f] > 0 /\ socks'[d].cur = f
          BY <1>0, <3>3, <3>8, <4>2
        <5>2. f \in excused \/ \E e \in Conns : socks[e].st = "taken" /\ socks[e].cur = f
          BY <1>2, <2>4, <5>1 DEF CopiesInv, CopyInv
        <5>3. f \in excused'
          BY <3>4, <3>5, <5>2
        <5> QED
          BY <5>1, <5>3
      <4> QED
        BY <4>1, <4>2
    <3>9. DuplicatesExplained'
      BY <1>0, <3>5 DEF CopiesInv, DuplicatesExplained
    <3> QED
      BY <1>0, <3>6, <3>7, <3>8, <3>9 DEF CopiesInv, CopyInv
  <2> QED
    BY <2>3, <2>4
<1> QED
  BY <1>4, <1>5

\* Forward: a second copy comes from a task that took the frame in hand after, or
\* beside, the first.
LEMMA ForwardKeepsCopies ==
  ASSUME SafeInv, SafeInv', CopiesInv, NEW c \in Conns, Forward(c)
  PROVE  CopiesInv'
<1> DEFINE s == socks[c]
           f == s.cur
<1>0. s.st = "forward" /\ UNCHANGED <<table, excused>>
  BY DEF Forward
<1>1. /\ s \in Socket(settled) /\ f \in Frames /\ f # Torn
      /\ socks \in [Conns -> Socket(settled)] /\ copies \in [Frames -> 0..2]
  <2>1. s \in Socket(settled) /\ InOrder(s, settled)
    BY SocketFacts
  <2> QED
    BY <1>0, <2>1 DEF Socket, InOrder, SafeInv, TypeOK
<1>2. CASE Fault /\ socks' = [socks EXCEPT ![c] = GoAway(@)] /\ UNCHANGED <<copies, settled>>
  <2>1. socks' = [socks EXCEPT ![c] = GoAway(s)] /\ GoAway(s).cur = Torn
    BY <1>1, <1>2, GoAwayFacts
  <2>2. \A d \in Conns : LetsGo(d)
    BY <1>0, <2>1, OneLetsGo
  <2>3. Retains
    BY <1>0 DEF Retains
  <2> QED
    BY <1>0, <1>2, <2>2, <2>3, LettingGoKeeps
<1>3. CASE /\ socks' = [socks EXCEPT ![c].st = "taken", ![c].took = @ \cup {f}]
           /\ copies' = [copies EXCEPT ![f] = Min({2, @ + 1})]
           /\ settled' = settled \cup {f}
  <2>1. /\ socks'[c].st = "taken" /\ socks'[c].cur = f
        /\ \A d \in Conns : d # c => socks'[d] = socks[d]
    <3>1. socks' = [socks EXCEPT ![c] = [s EXCEPT !.st = "taken", !.took = @ \cup {f}]]
      BY <1>1, <1>3
    <3>2. [s EXCEPT !.st = "taken", !.took = @ \cup {f}].st = "taken" /\ [s EXCEPT !.st = "taken", !.took = @ \cup {f}].cur = f
      BY <1>1 DEF Socket
    <3> QED
      BY <1>1, <3>1, <3>2
  <2>2. /\ copies' \in [Frames -> 0..2] /\ (copies'[f] = 2 => copies[f] > 0)
        /\ \A g \in Frames : g # f => copies'[g] = copies[g]
    <3>1. copies' = [copies EXCEPT ![f] = Min({2, copies[f] + 1})]
      BY <1>1, <1>3
    <3> QED
      BY <1>1, <3>1, CopyFacts
  <2>3. copies[f] > 0 => f \in excused
    BY <1>0 DEF CopiesInv, CopyInv
  <2> HIDE DEF s, f
  <2>4. \A d \in Conns : socks'[d].cur = socks[d].cur
    BY <2>1 DEF f, s
  <2>5. ASSUME NEW g \in Frames, copies'[g] > 0
        PROVE  /\ g \in settled'
               /\ \/ g \in excused'
                  \/ IsResend(table', Queue[g])
                  \/ \E d \in Conns : socks'[d].st = "taken" /\ socks'[d].cur = g
    <3>1. CASE g = f
      BY <1>3, <2>1, <3>1
    <3>2. CASE g # f
      <4>1. /\ g \in settled
            /\ \/ g \in excused
               \/ IsResend(table, Queue[g])
               \/ \E d \in Conns : socks[d].st = "taken" /\ socks[d].cur = g
        BY <2>2, <2>5, <3>2 DEF CopiesInv, CopyInv
      <4>2. ASSUME NEW d \in Conns, socks[d].st = "taken", socks[d].cur = g
            PROVE  socks'[d].st = "taken" /\ socks'[d].cur = g
        BY <1>0, <2>1, <4>2 DEF s
      <4> QED
        BY <1>0, <1>3, <4>1, <4>2
    <3> QED
      BY <3>1, <3>2
  <2>6. ASSUME NEW a \in Conns, NEW b \in Conns, a # b, socks'[a].cur # Torn, socks'[a].cur = socks'[b].cur
        PROVE  socks'[a].cur \in excused'
    BY <1>0, <2>4, <2>6 DEF CopiesInv, CopyInv
  <2>7. ASSUME NEW d \in Conns, socks'[d].st = "forward", copies'[socks'[d].cur] > 0
        PROVE  socks'[d].cur \in excused'
    <3>1. d # c /\ socks'[d] = socks[d]
      BY <2>1, <2>7
    <3>2. CASE socks[d].cur = f
      BY <1>0, <1>1, <3>1, <3>2 DEF CopiesInv, CopyInv, f, s
    <3>3. CASE socks[d].cur # f
      <4>1. socks[d].cur \in Frames
        <5>1. socks[d] \in Socket(settled) /\ InOrder(socks[d], settled)
          BY SocketFacts
        <5> QED
          BY <2>7, <3>1, <5>1 DEF Socket, InOrder
      <4>2. copies[socks[d].cur] > 0
        BY <2>2, <2>7, <3>1, <3>3, <4>1
      <4> QED
        BY <1>0, <2>7, <3>1, <4>2 DEF CopiesInv, CopyInv
    <3> QED
      BY <3>2, <3>3
  <2>8. DuplicatesExplained'
    <3>1. ASSUME NEW g \in Frames, copies'[g] = 2 PROVE g \in excused
      <4>1. CASE g = f
        BY <2>2, <2>3, <3>1, <4>1
      <4>2. CASE g # f
        BY <2>2, <3>1, <4>2 DEF CopiesInv, DuplicatesExplained
      <4> QED
        BY <4>1, <4>2
    <3> QED
      BY <1>0, <3>1 DEF DuplicatesExplained
  <2> QED
    BY <2>5, <2>6, <2>7, <2>8 DEF CopiesInv, CopyInv
<1> QED
  BY <1>2, <1>3 DEF Forward

\* RaiseTaken: the task lets go of its frame with the mark raised.
LEMMA RaiseTakenKeepsCopies ==
  ASSUME SafeInv, SafeInv', CopiesInv, NEW c \in Conns, RaiseTaken(c)
  PROVE  CopiesInv'
<1> DEFINE s == socks[c]
           f == s.cur
           k == Owe(s, f)
<1>0. /\ s.st = "taken" /\ table' = Raise(table, Queue[f]) /\ socks' = [socks EXCEPT ![c] = k]
      /\ excused' = excused \cup Forgotten(table, table') /\ UNCHANGED <<copies, settled>>
  BY DEF RaiseTaken
<1>1. s \in Socket(settled) /\ f \in settled /\ f \in Frames
  <2>1. s \in Socket(settled) /\ InOrder(s, settled)
    BY SocketFacts
  <2> QED
    BY <1>0, <2>1 DEF SafeInv, TypeOK, InOrder
<1>2. k.cur = Torn
  BY <1>1, OweFacts
<1> HIDE DEF k
<1>3. Retains /\ IsResend(table', Queue[f])
  BY <1>0, <1>1, RaiseRetains, FrameFacts
<1>4. \A d \in Conns : LetsGo(d)
  BY <1>0, <1>2, <1>3, OneLetsGo
<1> QED
  BY <1>0, <1>3, <1>4, LettingGoKeeps

\* RestartListener: every frame that could come again is excused.
LEMMA RestartListenerKeepsCopies ==
  ASSUME SafeInv, SafeInv', CopiesInv, RestartListener
  PROVE  CopiesInv'
<1>0. /\ socks' = [c \in Conns |-> IF socks[c].st = "free" THEN socks[c] ELSE Over(socks[c])]
      /\ excused' = excused \cup settled /\ UNCHANGED <<copies, settled>>
  BY DEF RestartListener
<1>1. ASSUME NEW d \in Conns PROVE socks'[d].cur = Torn
  <2>1. socks[d] \in Socket(settled) /\ InOrder(socks[d], settled)
    BY SocketFacts
  <2>2. CASE socks[d].st = "free"
    BY <1>0, <2>1, <2>2 DEF InOrder
  <2>3. CASE socks[d].st # "free"
    BY <1>0, <2>1, <2>3, OverFacts
  <2> QED
    BY <2>2, <2>3
<1>2. ASSUME NEW d \in Conns PROVE socks'[d].st # "forward"
  BY <1>1 DEF SafeInv, WireInv, InOrder
<1>3. \A f \in Frames : copies'[f] > 0 => f \in settled' /\ f \in excused'
  BY <1>0 DEF CopiesInv, CopyInv
<1>4. DuplicatesExplained'
  BY <1>0 DEF CopiesInv, DuplicatesExplained
<1> QED
  BY <1>1, <1>2, <1>3, <1>4 DEF CopiesInv, CopyInv

\* OtherSink: an identity it evicts is excused.
LEMMA OtherSinkKeepsCopies ==
  ASSUME SafeInv, SafeInv', CopiesInv, NEW id \in Strangers, OtherSink(id)
  PROVE  CopiesInv'
<1> DEFINE p == [id |-> id, seq |-> 1]
<1>0. /\ table' = Raise(table, p) /\ excused' = excused \cup Forgotten(table, table')
      /\ UNCHANGED <<socks, copies, settled>>
  BY DEF OtherSink
<1>1. p.seq \in Nat /\ p.id \in Ids \cup Strangers
  OBVIOUS
<1> HIDE DEF p
<1>2. Retains
  BY <1>0, <1>1, RaiseRetains
<1>3. \A d \in Conns : LetsGo(d)
  BY <1>0 DEF LetsGo
<1> QED
  BY <1>0, <1>2, <1>3, LettingGoKeeps

\* CopiesInv is kept by every step of either end, on top of SafeInv.
THEOREM CopiesInductive == SafeInv /\ SafeInv' /\ CopiesInv /\ [Next]_vars => CopiesInv'
<1> SUFFICES ASSUME SafeInv, SafeInv', CopiesInv, [Next]_vars PROVE CopiesInv'
  OBVIOUS
<1>1. CASE Sender \/ RestartSender
  BY <1>1, SenderKeepsCopies
<1>2. ASSUME NEW c \in Conns, Serve(c) \/ EndByListener(c) \/ Reset(c) PROVE CopiesInv'
  <2>1. CASE AnswerHello(c) \/ WriteOwedAck(c) \/ EndByListener(c) \/ EndByPeer(c) \/ Reset(c)
    BY <2>1, AnswersKeepCopies
  <2>2. CASE TakeFrame(c)
    BY <2>2, TakeFrameKeepsCopies
  <2>3. CASE Forward(c)
    BY <2>3, ForwardKeepsCopies
  <2>4. CASE RaiseTaken(c)
    BY <2>4, RaiseTakenKeepsCopies
  <2> QED
    BY <1>2, <2>1, <2>2, <2>3, <2>4 DEF Serve
<1>3. CASE RestartListener
  BY <1>3, RestartListenerKeepsCopies
<1>4. ASSUME NEW id \in Strangers, OtherSink(id) PROVE CopiesInv'
  BY <1>4, OtherSinkKeepsCopies
<1>5. CASE Drained \/ UNCHANGED vars
  <2>1. UNCHANGED <<socks, table, copies, settled, excused>>
    BY <1>5 DEF Drained, vars, senderVars, ghosts
  <2> QED
    BY <2>1 DEF CopiesInv, CopyInv, DuplicatesExplained
<1> QED
  BY <1>1, <1>2, <1>3, <1>4, <1>5 DEF Next

\* Consumers see a frame twice only in the documented gaps: the listener restarted,
\* evicted the identity, or two tasks held the frame at once (is_resend, raise).
THEOREM ExplainsDuplicates == Spec => []DuplicatesExplained
<1>1. Init => CopiesInv
  <2> SUFFICES ASSUME Init PROVE CopiesInv
    OBVIOUS
  <2>1. copies = [f \in Frames |-> 0] /\ socks = [c \in Conns |-> Fresh] /\ Fresh.cur = Torn /\ Fresh.st = "free"
    BY DEF Init, Fresh
  <2> QED
    BY <2>1 DEF CopiesInv, CopyInv, DuplicatesExplained
<1>2. CopiesInv => DuplicatesExplained
  BY DEF CopiesInv
<1> QED
  BY <1>1, <1>2, SafeHolds, CopiesInductive, PTL DEF Spec

-----------------------------------------------------------------------------
(* GOING_AWAY in place of an answer. *)

\* A task's answer m settles frame f.
AnswersFor(m, f) == m.type = "ack" /\ Queue[f].id = m.pair.id /\ Queue[f].seq <= m.pair.seq

\* The answer for frame f is on its way to the sink, or the task has still to write it.
Owed(k, f) ==
  \/ \E j \in 1..Len(k.down) : AnswersFor(k.down[j], f)
  \/ k.pend # None /\ AnswersFor(Ack(k.pend.f), f)
  \/ k.st = "taken" /\ k.cur = f

Settles(k, f) == f \in k.took => Owed(k, f)

\* The sink's frames come in the store's order, and a run is of one identity, so that
\* its last frame answers for all of it.
Rising(k) ==
  /\ \A i, j \in 1..Len(k.up) : i < j /\ k.up[j] # Torn => k.up[i] < k.up[j]
  /\ \A i \in 1..Len(k.up) : k.up[i] # Torn => k.cur < k.up[i] /\ (k.pend # None => k.pend.f < k.up[i])
  /\ k.pend # None /\ k.cur # Torn => k.pend.f < k.cur /\ Queue[k.pend.f].id = Queue[k.cur].id

\* GOING_AWAY is the last thing a task writes.
Announced(k) == \E j \in 1..Len(k.down) : k.down[j] = GoingAway
LastWord(k) ==
  \A j \in 1..Len(k.down) : k.down[j] = GoingAway => j = Len(k.down) /\ k.st = "over" /\ k.pend = None

\* No frame from n on was written to the socket.
Below(k, n) ==
  /\ \A i \in 1..Len(k.up) : k.up[i] < n
  /\ k.cur < n /\ (\A f \in k.took : f < n) /\ (k.pend # None => k.pend.f < n)

Idle(k) == k.up = <<>> /\ k.cur = Torn /\ k.took = {} /\ k.pend = None

\* Every unanswered frame of window w that the task of k forwarded is answered for,
\* unless the connection ended without a word.
Clean(k, w) ==
  k.st # "over" \/ Announced(k) =>
    \A i \in 1..Len(w) : w[i].acked \/ Settles(k, w[i].f)

GoodbyeInv ==
  /\ \A c \in Conns : socks[c].open => Rising(socks[c]) /\ LastWord(socks[c])
  /\ hello # 0 => conn = None /\ socks[hello].open /\ Idle(socks[hello])
  /\ conn # None =>
       /\ socks[conn.c].open /\ Below(socks[conn.c], head + Len(conn.inFlight))
       /\ Clean(socks[conn.c], conn.inFlight)

\* What a task that writes m makes of its socket k.
Wrote(k, m, l) ==
  /\ l.open = k.open /\ l.took = k.took /\ SameShape(k, l)
  /\ Len(k.down) \in Nat /\ Len(l.down) = Len(k.down) + 1 /\ l.down[Len(k.down) + 1] = m
  /\ \A j \in 1..Len(k.down) : l.down[j] = k.down[j]

\* A task that writes only answers.
Adds(k, l) ==
  /\ l.open = k.open /\ l.took = k.took /\ SameShape(k, l)
  /\ l.pend = k.pend \/ l.pend = None
  /\ ~Announced(k) => ~Announced(l)
  /\ \A f : Owed(k, f) => Owed(l, f)

\* A message on an open socket is behind all others.
LEMMA WriteWrote ==
  ASSUME NEW S, NEW k \in Socket(S), NEW m \in GoodMsgs(S), k.open
  PROVE  Wrote(k, m, Write(k, <<m>>)) /\ Write(k, <<m>>).pend = k.pend
<1> DEFINE d == k.down \o <<m>>
<1>1. k.down \in Seq(GoodMsgs(S)) /\ <<m>> \in Seq(GoodMsgs(S)) /\ Len(<<m>>) = 1 /\ <<m>>[1] = m
  BY DEF Socket
<1>2. /\ Len(d) = Len(k.down) + 1
      /\ \A j \in 1..(Len(k.down) + 1) : d[j] = IF j <= Len(k.down) THEN k.down[j] ELSE <<m>>[j - Len(k.down)]
  BY <1>1, ConcatProperties
<1>3. Len(k.down) \in Nat
  BY <1>1
<1>4. d[Len(k.down) + 1] = m /\ \A j \in 1..Len(k.down) : d[j] = k.down[j]
  BY <1>1, <1>2, <1>3
<1>5. Write(k, <<m>>) = [k EXCEPT !.down = d]
  BY DEF Write
<1> HIDE DEF d
<1> DEFINE l == [k EXCEPT !.down = d]
<1>6. l.down = d /\ l.open = k.open /\ l.took = k.took /\ l.pend = k.pend /\ SameShape(k, l)
  BY DEF Socket, SameShape
<1>7. Write(k, <<m>>) = l
  BY <1>5
<1> HIDE DEF l
<1> QED
  BY <1>2, <1>3, <1>4, <1>6, <1>7 DEF Wrote

\* No answer that was on its way is lost by a write.
LEMMA WroteAdds ==
  ASSUME NEW k, NEW l, NEW m, Wrote(k, m, l), m # GoingAway,
         l.pend = k.pend \/ (l.pend = None /\ k.pend # None /\ m = Ack(k.pend.f))
  PROVE  Adds(k, l)
<1>1. 1..Len(l.down) = 1..Len(k.down) \cup {Len(k.down) + 1}
  BY DEF Wrote
<1>2. ~Announced(k) => ~Announced(l)
  BY <1>1 DEF Announced, Wrote
<1>3. ASSUME NEW f, Owed(k, f) PROVE Owed(l, f)
  <2>1. CASE \E j \in 1..Len(k.down) : AnswersFor(k.down[j], f)
    <3>1. PICK j \in 1..Len(k.down) : AnswersFor(k.down[j], f)
      BY <2>1
    <3>2. j \in 1..Len(l.down) /\ l.down[j] = k.down[j]
      BY <1>1 DEF Wrote
    <3> QED
      BY <3>1, <3>2 DEF Owed
  <2>2. CASE k.pend # None /\ AnswersFor(Ack(k.pend.f), f)
    <3>1. CASE l.pend = k.pend
      BY <2>2, <3>1 DEF Owed
    <3>2. CASE m = Ack(k.pend.f)
      <4>1. Len(k.down) + 1 \in 1..Len(l.down) /\ l.down[Len(k.down) + 1] = m
        BY <1>1 DEF Wrote
      <4> QED
        BY <2>2, <3>2, <4>1 DEF Owed
    <3> QED
      BY <3>1, <3>2
  <2>3. CASE k.st = "taken" /\ k.cur = f
    BY <2>3 DEF Owed, Wrote, SameShape
  <2> QED
    BY <1>3, <2>1, <2>2, <2>3 DEF Owed
<1> QED
  BY <1>2, <1>3 DEF Adds, Wrote

\* flush_ack writes only an answer.
LEMMA FlushAdds ==
  ASSUME NEW S, NEW k \in Socket(S), k.open
  PROVE  Adds(k, Flush(k)) /\ Flush(k).pend = None
<1>1. CASE k.pend = None
  BY <1>1 DEF Flush, Adds, SameShape
<1>2. CASE k.pend # None
  <2> DEFINE m == Ack(k.pend.f)
             w == Write(k, <<m>>)
             l == [w EXCEPT !.pend = None]
  <2>1. m \in GoodMsgs(S) /\ m # GoingAway
    <3>1. k.pend.f \in S
      BY <1>2 DEF Socket
    <3>2. m.type = "ack" /\ GoingAway.type = "going_away"
      BY DEF Ack, GoingAway
    <3> QED
      BY <3>1, <3>2 DEF Ack, GoodMsgs
  <2>2. Flush(k) = l
    BY <1>2 DEF Flush
  <2> HIDE DEF m
  <2>3. Wrote(k, m, w) /\ w \in Socket(S)
    BY <2>1, WriteWrote, WriteFacts
  <2> HIDE DEF w
  <2>4. /\ l.pend = None /\ l.open = w.open /\ l.took = w.took /\ l.down = w.down
        /\ l.st = w.st /\ l.up = w.up /\ l.cur = w.cur
    BY <2>3 DEF Socket
  <2> HIDE DEF l
  <2>5. Wrote(k, m, l)
    BY <2>3, <2>4 DEF Wrote, SameShape
  <2> QED
    BY <1>2, <2>1, <2>2, <2>4, <2>5, WroteAdds DEF m
<1> QED
  BY <1>1, <1>2

\* Any other message but GOING_AWAY too.
LEMMA WriteAdds ==
  ASSUME NEW S, NEW k \in Socket(S), k.open, NEW m \in GoodMsgs(S), m # GoingAway
  PROVE  Adds(k, Write(k, <<m>>)) /\ Write(k, <<m>>).pend = k.pend
BY WriteWrote, WroteAdds

\* What the task of an open socket s may make of it.
Continues(s, l) ==
  /\ l.open /\ Rising(l) /\ LastWord(l)
  /\ \A n \in Nat : n >= 1 /\ Below(s, n) => Below(l, n)
  /\ Idle(s) => Idle(l)
  /\ l.st # "over" \/ Announced(l) => \A f \in Frames : Settles(s, f) => Settles(l, f)

\* The socket of a task that goes on.
Live(k) == k.open /\ k.st # "over" /\ Rising(k) /\ LastWord(k)

\* It has not said goodbye.
LEMMA LiveIsQuiet ==
  ASSUME NEW k, Live(k)
  PROVE  ~Announced(k)
BY DEF Live, LastWord, Announced

\* A task that only answers goes on.
LEMMA AddsContinues ==
  ASSUME NEW s, Live(s), NEW l, Adds(s, l)
  PROVE  Continues(s, l) /\ Live(l)
<1>1. ~Announced(l)
  BY LiveIsQuiet DEF Adds
<1>2. LastWord(l)
  BY <1>1 DEF LastWord, Announced
<1>3. Rising(l) /\ l.open /\ l.st # "over"
  BY DEF Live, Rising, Adds, SameShape
<1>4. \A n \in Nat : n >= 1 /\ Below(s, n) => Below(l, n)
  BY DEF Below, Adds, SameShape
<1>5. Idle(s) => Idle(l)
  BY DEF Idle, Adds, SameShape
<1>6. \A f \in Frames : Settles(s, f) => Settles(l, f)
  BY DEF Settles, Adds
<1> QED
  BY <1>2, <1>3, <1>4, <1>5, <1>6 DEF Continues, Live

\* A connection that ends without a word leaves nothing to be clean about.
LEMMA EndsQuietly ==
  ASSUME NEW s, s.open, NEW l, l.open, l.st = "over", l.up = <<>>, l.cur = Torn, l.took = s.took,
         l.pend = s.pend \/ l.pend = None, ~Announced(l)
  PROVE  Continues(s, l)
<1>1. Rising(l) /\ LastWord(l)
  BY DEF Rising, LastWord, Announced
<1>2. \A n \in Nat : n >= 1 /\ Below(s, n) => Below(l, n)
  BY DEF Below, Torn
<1>3. Idle(s) => Idle(l)
  BY DEF Idle
<1> QED
  BY <1>1, <1>2, <1>3 DEF Continues

\* GOING_AWAY comes after every answer.
LEMMA GoAwayContinues ==
  ASSUME NEW S, NEW s \in Socket(S), Live(s), s.st # "taken"
  PROVE  Continues(s, GoAway(s))
<1> DEFINE k == Flush(s)
           w == Write(k, <<GoingAway>>)
           l == Over(w)
<1>1. k \in Socket(S) /\ Adds(s, k) /\ k.pend = None /\ GoingAway \in GoodMsgs(S) /\ k.open
  BY FlushFacts, FlushAdds DEF GoodMsgs, Live, Adds
<1> HIDE DEF k
<1>2. Wrote(k, GoingAway, w) /\ w.pend = None /\ w \in Socket(S)
  BY <1>1, WriteWrote, WriteFacts
<1> HIDE DEF w
<1>3. /\ l.open = w.open /\ l.took = w.took /\ l.down = w.down /\ l.pend = w.pend
      /\ l.st = "over" /\ l.up = <<>> /\ l.cur = Torn
  BY <1>2 DEF Over, Socket
<1>4. GoAway(s) = l
  BY DEF GoAway, w, k
<1> HIDE DEF l
<1>5. ~Announced(k)
  BY <1>1, LiveIsQuiet DEF Adds
<1>6. /\ l.open /\ l.took = s.took /\ l.pend = None
      /\ Len(k.down) \in Nat /\ Len(l.down) = Len(k.down) + 1
      /\ \A j \in 1..Len(k.down) : l.down[j] = k.down[j]
  BY <1>1, <1>2, <1>3 DEF Wrote, Adds
<1>7. LastWord(l)
  <2>1. ASSUME NEW j \in 1..Len(l.down), l.down[j] = GoingAway PROVE j = Len(l.down)
    <3>1. j \notin 1..Len(k.down)
      BY <1>5, <1>6, <2>1 DEF Announced
    <3> QED
      BY <1>6, <3>1
  <2> QED
    BY <1>3, <1>6, <2>1 DEF LastWord
<1>8. Rising(l)
  BY <1>3, <1>6 DEF Rising
<1>9. \A n \in Nat : n >= 1 /\ Below(s, n) => Below(l, n)
  BY <1>3, <1>6 DEF Below, Torn
<1>10. Idle(s) => Idle(l)
  BY <1>3, <1>6 DEF Idle
<1>11. ASSUME NEW f \in Frames, Settles(s, f) PROVE Settles(l, f)
  <2>1. SUFFICES ASSUME f \in l.took PROVE Owed(l, f)
    BY DEF Settles
  <2>2. Owed(k, f)
    BY <1>1, <1>6, <1>11, <2>1 DEF Settles, Adds
  <2>3. k.st # "taken"
    BY <1>1 DEF Adds, SameShape
  <2>4. PICK j \in 1..Len(k.down) : AnswersFor(k.down[j], f)
    BY <1>1, <2>2, <2>3 DEF Owed
  <2>5. j \in 1..Len(l.down) /\ l.down[j] = k.down[j]
    BY <1>6, <2>4
  <2> QED
    BY <2>4, <2>5 DEF Owed
<1> QED
  BY <1>4, <1>6, <1>7, <1>8, <1>9, <1>10, <1>11 DEF Continues

\* The task of c continues: nothing else of what GOING_AWAY relies on moves.
LEMMA ContinuesKeeps ==
  ASSUME SafeInv, GoodbyeInv, NEW c \in Conns, NEW l, socks' = [socks EXCEPT ![c] = l],
         UNCHANGED <<head, conn, hello>>, socks[c].st # "over",
         socks[c].open => Continues(socks[c], l), ~socks[c].open => ~l.open
  PROVE  GoodbyeInv'
<1>1. socks'[c] = l /\ \A d \in Conns : d # c => socks'[d] = socks[d]
  BY DEF SafeInv, TypeOK
<1>2. \A d \in Conns : socks'[d].open => Rising(socks'[d]) /\ LastWord(socks'[d])
  BY <1>1 DEF GoodbyeInv, Continues
<1>3. ASSUME hello # 0 PROVE conn = None /\ socks'[hello].open /\ Idle(socks'[hello])
  <2>1. conn = None /\ socks[hello].open /\ Idle(socks[hello]) /\ hello \in Conns
    BY <1>3 DEF GoodbyeInv, SafeInv, TypeOK
  <2> QED
    BY <1>1, <2>1 DEF Continues
<1>4. ASSUME conn # None
      PROVE  /\ socks'[conn.c].open /\ Below(socks'[conn.c], head + Len(conn.inFlight))
             /\ Clean(socks'[conn.c], conn.inFlight)
  <2> DEFINE n == head + Len(conn.inFlight)
  <2>1. /\ conn.c \in Conns /\ n \in Nat /\ n >= 1
        /\ \A i \in 1..Len(conn.inFlight) : conn.inFlight[i].f \in Frames
    BY <1>4, ConnFacts
  <2>2. /\ socks[conn.c].open /\ Below(socks[conn.c], n) /\ Clean(socks[conn.c], conn.inFlight)
    BY <1>4 DEF GoodbyeInv
  <2>3. CASE conn.c # c
    BY <1>1, <2>1, <2>2, <2>3
  <2>4. CASE conn.c = c
    <3>1. Continues(socks[c], l) /\ l.open /\ Below(l, n)
      BY <2>1, <2>2, <2>4 DEF Continues
    <3>2. Clean(l, conn.inFlight)
      BY <2>1, <2>2, <2>4, <3>1 DEF Clean, Continues
    <3> QED
      BY <1>1, <2>4, <3>1, <3>2
  <2> QED
    BY <2>3, <2>4
<1> QED
  BY <1>2, <1>3, <1>4 DEF GoodbyeInv

\* Nothing is written on a socket the sink dropped.
LEMMA FlushStaysShut ==
  ASSUME NEW S, NEW k \in Socket(S), ~k.open
  PROVE  ~Flush(k).open /\ ~GoAway(k).open
<1> DEFINE l == Flush(k)
<1>1. l \in Socket(S) /\ ~l.open
  <2>1. Write(k, <<Ack(k.pend.f)>>) = k
    BY DEF Write
  <2>2. [k EXCEPT !.pend = None].open = k.open
    BY DEF Socket
  <2> QED
    BY <2>1, <2>2, FlushFacts DEF Flush
<1> HIDE DEF l
<1>2. Write(l, <<GoingAway>>) = l /\ Over(l).open = l.open
  BY <1>1 DEF Write, Over, Socket
<1> QED
  BY <1>1, <1>2 DEF GoAway, l

\* The run with frame f at its end.
Run(k, f) ==
  [k EXCEPT !.pend = [f |-> f, n |-> IF k.pend = None THEN 1 ELSE k.pend.n + 1], !.st = "loop", !.cur = Torn]

\* It is what Owe flushes or keeps.
LEMMA RunFacts ==
  ASSUME NEW S, NEW k \in Socket(S), NEW f \in S
  PROVE  /\ Owe(k, f) = Flush(Run(k, f)) \/ Owe(k, f) = Run(k, f)
         /\ Run(k, f) \in Socket(S) /\ Run(k, f).pend # None /\ Run(k, f).pend.f = f
         /\ Run(k, f).st = "loop" /\ Run(k, f).cur = Torn
         /\ Run(k, f).up = k.up /\ Run(k, f).down = k.down /\ Run(k, f).took = k.took /\ Run(k, f).open = k.open
<1> DEFINE n == IF k.pend = None THEN 1 ELSE k.pend.n + 1
           r == [f |-> f, n |-> n]
           l == [k EXCEPT !.pend = r, !.st = "loop", !.cur = Torn]
<1>1. n \in Nat
  BY DEF Socket
<1>2. Run(k, f) = l /\ (Owe(k, f) = Flush(l) \/ Owe(k, f) = l)
  BY DEF Run, Owe
<1> HIDE DEF n
<1>3. r \in [f : S, n : Nat] /\ r.f = f
  BY <1>1
<1>4. r # None
  <2>1. DOMAIN r = {"f", "n"} /\ DOMAIN None = {"none"}
    BY DEF None
  <2>2. "n" \in {"f", "n"} /\ "n" \notin {"none"}
    OBVIOUS
  <2> QED
    BY <2>1, <2>2
<1> HIDE DEF r
<1>5. /\ l \in Socket(S) /\ l.pend = r /\ l.st = "loop" /\ l.cur = Torn
      /\ l.up = k.up /\ l.down = k.down /\ l.took = k.took /\ l.open = k.open
  BY <1>3 DEF Socket, States
<1> QED
  BY <1>2, <1>3, <1>4, <1>5

\* The last frame of a run answers for the whole run.
LEMMA OweIsClean ==
  ASSUME NEW S \in SUBSET Frames, NEW k \in Socket(S), NEW f \in S, Live(k),
         k.pend # None => k.pend.f < f /\ Queue[k.pend.f].id = Queue[f].id,
         \A i \in 1..Len(k.up) : k.up[i] # Torn => f < k.up[i],
         k.st = "taken" => k.cur = f
  PROVE  /\ Live(Owe(k, f)) /\ Owe(k, f).took = k.took
         /\ \A n \in Nat : n >= 1 /\ f < n /\ Below(k, n) => Below(Owe(k, f), n)
         /\ \A g \in Frames : Owed(k, g) => Owed(Owe(k, f), g)
<1> DEFINE r == Run(k, f)
           l == Owe(k, f)
<1>1. /\ l = Flush(r) \/ l = r
      /\ r \in Socket(S) /\ r.pend # None /\ r.pend.f = f /\ r.st = "loop" /\ r.cur = Torn
      /\ r.up = k.up /\ r.down = k.down /\ r.took = k.took /\ r.open = k.open
  BY RunFacts
<1>0. 0 \notin Frames /\ Frames \subseteq Nat /\ f \in Frames
  BY FrameFacts
<1>2. Live(r)
  <2>1. Rising(r)
    <3>1. Rising(k)
      BY DEF Live
    <3>2. \A i \in 1..Len(r.up) : r.up[i] # Torn => r.cur < r.up[i]
      <4>1. r.up \in Seq(Frames \cup {Torn})
        BY <1>1 DEF Socket
      <4>2. \A i \in 1..Len(r.up) : r.up[i] \in Frames \cup {Torn}
        BY <4>1
      <4>3. \A x \in Frames : 0 < x
        BY FrameFacts
      <4> QED
        BY <1>1, <4>2, <4>3 DEF Torn
    <3> QED
      BY <1>1, <3>1, <3>2 DEF Rising
  <2>2. LastWord(r)
    BY <1>1, LiveIsQuiet DEF LastWord, Announced
  <2> QED
    BY <1>1, <2>1, <2>2 DEF Live
<1>3. ASSUME NEW g \in Frames, Owed(k, g) PROVE Owed(r, g)
  <2>0. AnswersFor(Ack(f), f)
    BY <1>0, FrameFacts DEF AnswersFor, Ack
  <2>1. CASE \E j \in 1..Len(k.down) : AnswersFor(k.down[j], g)
    BY <1>1, <2>1 DEF Owed
  <2>2. CASE k.pend # None /\ AnswersFor(Ack(k.pend.f), g)
    <3>1. k.pend.f \in S
      BY <2>2 DEF Socket
    <3>2. Queue[k.pend.f].id = Queue[f].id /\ Queue[k.pend.f].seq < Queue[f].seq
      BY <1>0, <2>2, <3>1, FrameFacts
    <3>3. Queue[g].id = Queue[k.pend.f].id /\ Queue[g].seq <= Queue[k.pend.f].seq
      BY <2>2 DEF AnswersFor, Ack
    <3>4. Queue[g].seq \in Nat /\ Queue[f].seq \in Nat /\ Queue[k.pend.f].seq \in Nat
      BY <1>0, <3>1, FrameFacts
    <3>5. Queue[g].id = Queue[f].id /\ Queue[g].seq <= Queue[f].seq
      BY <3>2, <3>3, <3>4
    <3>6. AnswersFor(Ack(f), g)
      BY <3>5 DEF AnswersFor, Ack
    <3> QED
      BY <1>1, <3>6 DEF Owed
  <2>3. CASE k.st = "taken" /\ k.cur = g
    BY <1>1, <2>0, <2>3 DEF Owed
  <2> QED
    BY <1>3, <2>1, <2>2, <2>3 DEF Owed
<1>4. \A n \in Nat : n >= 1 /\ f < n /\ Below(k, n) => Below(r, n)
  BY <1>1 DEF Below, Torn
<1> HIDE DEF r, l
<1>5. Adds(r, r) /\ Adds(r, Flush(r))
  BY <1>1, <1>2, FlushAdds, ZenonT(60) DEF Adds, SameShape, Live
<1>6. Adds(r, l)
  BY <1>1, <1>5
<1>7. Continues(r, l) /\ Live(l) /\ l.took = k.took
  BY <1>1, <1>2, <1>6, AddsContinues DEF Adds
<1>8. \A g \in Frames : Owed(k, g) => Owed(l, g)
  BY <1>3, <1>6 DEF Adds
<1> QED
  BY <1>4, <1>7, <1>8 DEF Continues, l

\* Nor does a run open a socket.
LEMMA OweStaysShut ==
  ASSUME NEW S, NEW k \in Socket(S), NEW f \in S, ~k.open
  PROVE  ~Owe(k, f).open
BY RunFacts, FlushStaysShut

\* AnswerHello, WriteOwedAck and the ends of a connection keep GoodbyeInv.
LEMMA AnswersKeepGoodbye ==
  ASSUME SafeInv, GoodbyeInv, NEW c \in Conns,
         AnswerHello(c) \/ WriteOwedAck(c) \/ EndByListener(c) \/ EndByPeer(c) \/ Reset(c)
  PROVE  GoodbyeInv'
<1> DEFINE s == socks[c]
<1>0. s \in Socket(settled) /\ socks \in [Conns -> Socket(settled)] /\ s.down \in Seq(GoodMsgs(settled))
  BY SocketFacts DEF SafeInv, TypeOK
<1>1. s.st \in {"hello", "loop"} /\ UNCHANGED <<head, conn, hello>>
  BY DEF AnswerHello, WriteOwedAck, EndByListener, EndByPeer, Reset, senderVars
<1>2. s.open => Live(s)
  BY <1>1 DEF GoodbyeInv, Live
<1>3. PICK l : /\ socks' = [socks EXCEPT ![c] = l]
               /\ s.open => Continues(s, l)
               /\ ~s.open => ~l.open
  <2>1. CASE AnswerHello(c)
    <3> DEFINE m == IF Cardinality(Served) >= MaxConnections THEN Reject ELSE HelloAck(Marks(table, s.asked))
               k == Write(s, <<m>>)
    <3>1. m \in GoodMsgs(settled) /\ m # GoingAway
      <4>1. Reject # GoingAway /\ HelloAck(Marks(table, s.asked)) # GoingAway
        <5>1. Reject.type = "reject" /\ GoingAway.type = "going_away" /\ HelloAck(Marks(table, s.asked)).type = "hello_ack"
          BY DEF Reject, GoingAway, HelloAck
        <5> QED
          BY <5>1
      <4> QED
        BY <4>1, HelloAckIsGood DEF GoodMsgs
    <3>2. \/ socks' = [socks EXCEPT ![c] = Over(k)]
          \/ socks' = [socks EXCEPT ![c] = [k EXCEPT !.st = "loop"]]
      BY <2>1 DEF AnswerHello
    <3> HIDE DEF m
    <3>3. k \in Socket(settled) /\ SameShape(s, k)
      BY <1>0, <3>1, WriteFacts
    <3>4. s.open => Adds(s, k)
      BY <1>0, <3>1, WriteAdds
    <3>5. ~s.open => ~k.open
      BY DEF Write
    <3> HIDE DEF k
    <3>6. CASE socks' = [socks EXCEPT ![c] = Over(k)]
      <4>1. /\ Over(k).open = k.open /\ Over(k).st = "over" /\ Over(k).up = <<>> /\ Over(k).cur = Torn
            /\ Over(k).took = k.took /\ Over(k).pend = k.pend /\ Over(k).down = k.down
        BY <3>3 DEF Over, Socket
      <4>2. ASSUME s.open PROVE Continues(s, Over(k))
        <5>1. ~Announced(Over(k)) /\ Over(k).open /\ Over(k).took = s.took
              /\ (Over(k).pend = s.pend \/ Over(k).pend = None)
          BY <1>2, <3>4, <4>1, <4>2, LiveIsQuiet DEF Adds, Announced
        <5> QED
          BY <4>1, <4>2, <5>1, EndsQuietly
      <4> QED
        BY <3>5, <3>6, <4>1, <4>2
    <3>7. CASE socks' = [socks EXCEPT ![c] = [k EXCEPT !.st = "loop"]]
      <4> DEFINE l == [k EXCEPT !.st = "loop"]
      <4>1. /\ l.open = k.open /\ l.st = "loop" /\ l.up = k.up /\ l.cur = k.cur /\ l.took = k.took
            /\ l.pend = k.pend /\ l.down = k.down
        BY <3>3 DEF Socket
      <4> HIDE DEF l
      <4>2. ASSUME s.open PROVE Continues(s, l)
        <5>1. Continues(s, k) /\ Live(k)
          BY <1>2, <3>4, <4>2, AddsContinues
        <5>2. k.st # "taken" /\ ~Announced(k) /\ k.st # "over"
          BY <1>1, <3>3, <5>1, LiveIsQuiet DEF SameShape
        <5>3. Rising(l) /\ LastWord(l)
          BY <4>1, <5>1, <5>2 DEF Live, Rising, LastWord, Announced
        <5>4. \A n : Below(k, n) => Below(l, n)
          BY <4>1 DEF Below
        <5>5. Idle(k) => Idle(l)
          BY <4>1 DEF Idle
        <5>6. \A f : Settles(k, f) => Settles(l, f)
          BY <4>1, <5>2 DEF Settles, Owed
        <5> QED
          BY <4>1, <5>1, <5>2, <5>3, <5>4, <5>5, <5>6 DEF Continues
      <4> QED
        BY <3>5, <3>7, <4>1, <4>2 DEF l
    <3> QED
      BY <3>2, <3>6, <3>7
  <2>2. CASE WriteOwedAck(c)
    <3>1. socks' = [socks EXCEPT ![c] = Flush(s)]
      BY <2>2 DEF WriteOwedAck
    <3>2. s.open => Continues(s, Flush(s))
      BY <1>0, <1>2, FlushAdds, AddsContinues
    <3>3. ~s.open => ~Flush(s).open
      BY <1>0, FlushStaysShut
    <3> QED
      BY <3>1, <3>2, <3>3
  <2>3. CASE EndByListener(c)
    <3>1. socks' = [socks EXCEPT ![c] = GoAway(s)]
      BY <2>3 DEF EndByListener
    <3>2. s.open => Continues(s, GoAway(s))
      BY <1>0, <1>1, <1>2, GoAwayContinues
    <3>3. ~s.open => ~GoAway(s).open
      BY <1>0, FlushStaysShut
    <3> QED
      BY <3>1, <3>2, <3>3
  <2>4. CASE EndByPeer(c)
    <3> DEFINE k == Flush(s)
    <3>1. socks' = [socks EXCEPT ![c] = Over(k)]
      BY <2>4 DEF EndByPeer
    <3>2. k \in Socket(settled) /\ (s.open => Adds(s, k)) /\ (~s.open => ~k.open)
      BY <1>0, FlushFacts, FlushAdds, FlushStaysShut
    <3> HIDE DEF k
    <3>3. /\ Over(k).open = k.open /\ Over(k).st = "over" /\ Over(k).up = <<>> /\ Over(k).cur = Torn
          /\ Over(k).took = k.took /\ Over(k).pend = k.pend /\ Over(k).down = k.down
      BY <3>2 DEF Over, Socket
    <3>4. ASSUME s.open PROVE Continues(s, Over(k))
      <4>1. ~Announced(Over(k)) /\ Over(k).open /\ Over(k).took = s.took
            /\ (Over(k).pend = s.pend \/ Over(k).pend = None)
        BY <1>2, <3>2, <3>3, <3>4, LiveIsQuiet DEF Adds, Announced
      <4> QED
        BY <3>3, <3>4, <4>1, EndsQuietly
    <3> QED
      BY <3>1, <3>2, <3>3, <3>4
  <2>5. CASE Reset(c)
    <3>1. PICK n \in 0..Len(s.down) : socks' = [socks EXCEPT ![c] = Over([s EXCEPT !.down = SubSeq(s.down, 1, n)])]
      BY <2>5 DEF Reset
    <3> DEFINE d == SubSeq(s.down, 1, n)
               k == [s EXCEPT !.down = d]
               l == Over(k)
    <3>2. Len(d) = n /\ \A j \in 1..n : d[j] = s.down[j]
      <4>1. n \in Nat /\ n <= Len(s.down) /\ Len(s.down) \in Nat
        BY <1>0, <3>1
      <4> QED
        BY <1>0, <4>1, SubSeqProperties
    <3> HIDE DEF d
    <3>3. /\ l.open = s.open /\ l.st = "over" /\ l.up = <<>> /\ l.cur = Torn
          /\ l.took = s.took /\ l.pend = s.pend /\ l.down = d
      BY <1>0 DEF Over, Socket
    <3> HIDE DEF l
    <3>4. ASSUME s.open PROVE Continues(s, l)
      <4>1. ~Announced(s)
        BY <1>2, <3>4, LiveIsQuiet
      <4>2. 1..Len(d) \subseteq 1..Len(s.down)
        BY <1>0, <3>1, <3>2
      <4>3. ~Announced(l)
        BY <3>2, <3>3, <4>1, <4>2 DEF Announced
      <4> QED
        BY <3>3, <3>4, <4>3, EndsQuietly
    <3> QED
      BY <3>1, <3>3, <3>4 DEF l, d
  <2> QED
    BY <2>1, <2>2, <2>3, <2>4, <2>5
<1> QED
  BY <1>1, <1>3, ContinuesKeeps

\* TakeFrame keeps GoodbyeInv: the frame at hand is later than the run, and of its
\* identity.
LEMMA TakeFrameKeepsGoodbye ==
  ASSUME SafeInv, GoodbyeInv, NEW c \in Conns, TakeFrame(c)
  PROVE  GoodbyeInv'
<1> DEFINE s == socks[c]
           f == Head(s.up)
           k == [s EXCEPT !.up = Tail(s.up)]
           run == IF OtherIdentity(k, f) THEN Flush(k) ELSE k
<1>0. s.st = "loop" /\ s.up # <<>> /\ f # Torn /\ UNCHANGED <<head, conn, hello>>
  BY DEF TakeFrame, senderVars
<1>1. s \in Socket(settled) /\ InOrder(s, settled) /\ s.up \in Seq(Frames \cup {Torn}) /\ settled \subseteq Frames
  BY SocketFacts DEF SafeInv, TypeOK
<1>2. /\ f \in Frames /\ f = s.up[1] /\ Tail(s.up) \in Seq(Frames \cup {Torn}) /\ s.cur = Torn
      /\ Len(s.up) \in Nat /\ Len(s.up) >= 1 /\ Len(Tail(s.up)) = Len(s.up) - 1
      /\ \A i \in 1..(Len(s.up) - 1) : Tail(s.up)[i] = s.up[i + 1]
  <2>1. /\ f \in Frames \cup {Torn} /\ f = s.up[1] /\ Tail(s.up) \in Seq(Frames \cup {Torn})
        /\ Len(Tail(s.up)) = Len(s.up) - 1 /\ \A i \in 1..(Len(s.up) - 1) : Tail(s.up)[i] = s.up[i + 1]
    BY <1>0, <1>1, TailFacts
  <2>2. Len(s.up) \in Nat /\ Len(s.up) >= 1
    BY <1>0, <1>1
  <2> QED
    BY <1>0, <1>1, <2>1, <2>2 DEF InOrder
<1>3. /\ k \in Socket(settled) /\ k.up = Tail(s.up) /\ k.st = "loop" /\ k.cur = Torn /\ k.open = s.open
      /\ k.took = s.took /\ k.pend = s.pend /\ k.down = s.down
  BY <1>0, <1>1, <1>2 DEF Socket
<1> HIDE DEF k
<1>4. ASSUME s.open
      PROVE  /\ Live(k) /\ (\A n \in Nat : Below(s, n) => f < n /\ Below(k, n))
             /\ \A g : Settles(s, g) => Settles(k, g)
             /\ k.pend # None => k.pend.f < f
             /\ \A i \in 1..Len(k.up) : k.up[i] # Torn => f < k.up[i]
  <2>1. Rising(s) /\ LastWord(s)
    BY <1>4 DEF GoodbyeInv
  <2>2. /\ 1 \in 1..Len(s.up)
        /\ \A i \in 1..Len(k.up) : k.up[i] = s.up[i + 1] /\ i + 1 \in 1..Len(s.up) /\ 1 < i + 1
    BY <1>2, <1>3
  <2>3. \A i, j \in 1..Len(k.up) : i < j => i + 1 < j + 1
    OBVIOUS
  <2>4. Rising(k)
    <3>1. \A i, j \in 1..Len(k.up) : i < j /\ k.up[j] # Torn => k.up[i] < k.up[j]
      BY <2>1, <2>2, <2>3 DEF Rising
    <3>2. \A i \in 1..Len(k.up) : k.up[i] # Torn => k.cur < k.up[i] /\ (k.pend # None => k.pend.f < k.up[i])
      BY <1>2, <1>3, <2>1, <2>2 DEF Rising
    <3> QED
      BY <1>3, <3>1, <3>2 DEF Rising
  <2>5. LastWord(k)
    BY <1>0, <1>3, <2>1 DEF LastWord
  <2>6. \A n \in Nat : Below(s, n) => f < n /\ Below(k, n)
    BY <1>2, <1>3, <2>2 DEF Below
  <2>7. \A g : Settles(s, g) => Settles(k, g)
    BY <1>0, <1>3 DEF Settles, Owed
  <2>8. k.pend # None => k.pend.f < f
    BY <1>0, <1>2, <1>3, <2>1, <2>2 DEF Rising
  <2>9. \A i \in 1..Len(k.up) : k.up[i] # Torn => f < k.up[i]
    BY <1>2, <2>1, <2>2 DEF Rising
  <2> QED
    BY <1>3, <1>4, <2>4, <2>5, <2>6, <2>7, <2>8, <2>9 DEF Live
<1>5. CASE f \in Refused
  <2> DEFINE m == RejectedAck(f)
             l == Write(Flush(k), <<m>>)
             S == settled \cup {f}
  <2>1. socks' = [socks EXCEPT ![c] = l]
    BY <1>5 DEF TakeFrame, k
  <2>2. m \in GoodMsgs(S) /\ m # GoingAway /\ k \in Socket(S)
    <3>1. m.type = "rejected" /\ GoingAway.type = "going_away"
      BY DEF RejectedAck, GoingAway
    <3>2. m \in GoodMsgs(S)
      BY DEF RejectedAck, GoodMsgs
    <3>3. k \in Socket(S)
      BY <1>3, GrowSocket
    <3> QED
      BY <3>1, <3>2, <3>3
  <2> HIDE DEF m, S
  <2>3. Flush(k) \in Socket(S)
    BY <2>2, FlushFacts
  <2>4. ASSUME s.open PROVE Continues(s, l)
    <3>1. Continues(k, Flush(k)) /\ Live(Flush(k))
      BY <1>3, <1>4, <2>2, <2>4, FlushAdds, AddsContinues
    <3>2. Continues(Flush(k), l)
      BY <2>2, <2>3, <3>1, WriteAdds, AddsContinues DEF Live
    <3>3. ~Idle(s)
      BY <1>0 DEF Idle
    <3> QED
      BY <1>4, <2>4, <3>1, <3>2, <3>3 DEF Continues, Live
  <2>5. ~s.open => ~l.open
    <3>1. ~s.open => ~Flush(k).open
      BY <1>3, <2>2, FlushStaysShut
    <3> QED
      BY <3>1 DEF Write
  <2> QED
    BY <1>0, <2>1, <2>4, <2>5, ContinuesKeeps
<1>6. CASE f \notin Refused
  <2> DEFINE l == IF IsResend(table, Queue[f]) THEN Owe(run, f) ELSE [run EXCEPT !.st = "forward", !.cur = f]
  <2>1. socks' = [socks EXCEPT ![c] = l]
    BY <1>6 DEF TakeFrame, k
  <2>2. /\ run \in Socket(settled) /\ run.up = Tail(s.up) /\ run.st = "loop" /\ run.cur = Torn
        /\ ~s.open => ~run.open
    <3>1. Flush(k) \in Socket(settled) /\ SameShape(k, Flush(k)) /\ (~k.open => ~Flush(k).open)
      BY <1>3, FlushFacts, FlushStaysShut
    <3> QED
      BY <1>3, <3>1 DEF SameShape
  <2>3. run.pend # None => Queue[run.pend.f].id = Queue[f].id /\ run.pend = k.pend
    BY <1>3, FlushFacts DEF OtherIdentity
  <2>4. s.open => Continues(k, run) /\ Live(run) /\ run.took = s.took
    <3>1. ASSUME s.open PROVE Adds(k, run)
      <4>1. Adds(k, Flush(k)) /\ Adds(k, k)
        BY <1>3, <3>1, FlushAdds DEF Adds, SameShape
      <4> QED
        BY <4>1
    <3> QED
      BY <1>3, <1>4, <3>1, AddsContinues DEF Adds
  <2> HIDE DEF run
  <2>5. CASE IsResend(table, Queue[f])
    <3>1. l = Owe(run, f) /\ f \in settled
      BY <1>2, <2>5, RememberedIsSettled
    <3> HIDE DEF l
    <3>2. ASSUME s.open PROVE Continues(s, l)
      <4>1. /\ run.pend # None => run.pend.f < f /\ Queue[run.pend.f].id = Queue[f].id
            /\ \A i \in 1..Len(run.up) : run.up[i] # Torn => f < run.up[i]
        BY <1>3, <1>4, <2>2, <2>3, <3>2
      <4>2. /\ Live(Owe(run, f)) /\ Owe(run, f).took = run.took
            /\ \A n \in Nat : n >= 1 /\ f < n /\ Below(run, n) => Below(Owe(run, f), n)
            /\ \A g \in Frames : Owed(run, g) => Owed(Owe(run, f), g)
        BY <1>1, <1>2, <2>2, <2>4, <3>1, <3>2, <4>1, OweIsClean
      <4>3. ~Idle(s)
        BY <1>0 DEF Idle
      <4>4. ASSUME NEW g \in Frames, Settles(s, g) PROVE Settles(l, g)
        BY <1>4, <2>2, <2>4, <3>1, <3>2, <4>2, <4>4 DEF Settles, Continues
      <4>5. ASSUME NEW n \in Nat, n >= 1, Below(s, n) PROVE Below(l, n)
        BY <1>4, <2>4, <3>1, <3>2, <4>2, <4>5 DEF Continues
      <4> QED
        BY <3>1, <4>2, <4>3, <4>4, <4>5 DEF Continues, Live
    <3>3. ~s.open => ~l.open
      BY <2>2, <3>1, OweStaysShut
    <3> QED
      BY <1>0, <2>1, <3>2, <3>3, ContinuesKeeps
  <2>6. CASE ~IsResend(table, Queue[f])
    <3>1. l = [run EXCEPT !.st = "forward", !.cur = f]
      BY <2>6
    <3>2. /\ l.st = "forward" /\ l.cur = f /\ l.up = run.up /\ l.down = run.down /\ l.open = run.open
          /\ l.took = run.took /\ l.pend = run.pend
      BY <2>2, <3>1 DEF Socket
    <3> HIDE DEF l
    <3>3. ASSUME s.open PROVE Continues(s, l)
      <4>1. ~Idle(s)
        BY <1>0 DEF Idle
      <4>2. /\ run.pend # None => run.pend.f < f /\ Queue[run.pend.f].id = Queue[f].id
            /\ \A i \in 1..Len(run.up) : run.up[i] # Torn => f < run.up[i]
        BY <1>3, <1>4, <2>2, <2>3, <3>3
      <4>3. Rising(l)
        BY <2>4, <3>2, <3>3, <4>2 DEF Live, Rising
      <4>4. LastWord(l) /\ l.open
        BY <2>4, <3>2, <3>3, LiveIsQuiet DEF Live, LastWord, Announced
      <4>5. ASSUME NEW n \in Nat, n >= 1, Below(s, n) PROVE Below(l, n)
        <5>1. f < n /\ Below(run, n)
          BY <1>4, <2>4, <3>3, <4>5 DEF Continues
        <5> QED
          BY <3>2, <5>1 DEF Below
      <4>6. ASSUME NEW g \in Frames, Settles(s, g) PROVE Settles(l, g)
        <5>1. Settles(run, g)
          BY <1>4, <2>2, <2>4, <3>3, <4>6 DEF Continues
        <5> QED
          BY <2>2, <3>2, <5>1 DEF Settles, Owed
      <4> QED
        BY <4>1, <4>3, <4>4, <4>5, <4>6 DEF Continues
    <3> QED
      BY <1>0, <2>1, <2>2, <3>2, <3>3, ContinuesKeeps
  <2> QED
    BY <2>5, <2>6
<1> QED
  BY <1>5, <1>6
\* Forward keeps GoodbyeInv: a frame the consumers took is owed by its task, and
\* one that none took leaves nothing unanswered.
LEMMA ForwardKeepsGoodbye ==
  ASSUME SafeInv, GoodbyeInv, NEW c \in Conns, Forward(c)
  PROVE  GoodbyeInv'
<1> DEFINE s == socks[c]
           f == s.cur
           t == s.took \cup {f}
           l == [s EXCEPT !.st = "taken", !.took = t]
<1>0. s.st = "forward" /\ UNCHANGED <<head, conn, hello>>
  BY DEF Forward, senderVars
<1>1. s \in Socket(settled) /\ (s.open => Live(s))
  BY <1>0, SocketFacts DEF GoodbyeInv, Live
<1>2. CASE socks' = [socks EXCEPT ![c] = GoAway(s)]
  <2>1. s.open => Continues(s, GoAway(s))
    BY <1>0, <1>1, GoAwayContinues
  <2>2. ~s.open => ~GoAway(s).open
    BY <1>1, FlushStaysShut
  <2> QED
    BY <1>0, <1>2, <2>1, <2>2, ContinuesKeeps
<1>3. CASE socks' = [socks EXCEPT ![c].st = "taken", ![c].took = t]
  <2>1. socks' = [socks EXCEPT ![c] = l]
    BY <1>3
  <2> HIDE DEF t
  <2>2. /\ l.open = s.open /\ l.st = "taken" /\ l.up = s.up /\ l.cur = f /\ l.took = t
        /\ l.pend = s.pend /\ l.down = s.down
    BY <1>1 DEF Socket
  <2> HIDE DEF l
  <2>3. ASSUME s.open PROVE Continues(s, l)
    <3>0. Live(s) /\ ~Announced(s)
      BY <1>1, <2>3, LiveIsQuiet
    <3>1. Rising(l)
      BY <2>2, <3>0 DEF Live, Rising
    <3>2. LastWord(l)
      BY <2>2, <3>0 DEF LastWord, Announced
    <3>3. \A n \in Nat : Below(s, n) => Below(l, n)
      <4>1. \A n \in Nat : Below(s, n) => f < n /\ \A g \in t : g < n
        BY DEF Below, t
      <4> QED
        BY <2>2, <4>1 DEF Below
    <3>4. ~Idle(s)
      BY <1>0, SocketFacts DEF Idle, InOrder
    <3>5. \A g \in Frames : Settles(s, g) => Settles(l, g)
      <4>1. \A g : Owed(s, g) => Owed(l, g)
        BY <1>0, <2>2 DEF Owed
      <4>2. Owed(l, f)
        BY <2>2 DEF Owed
      <4> QED
        BY <2>2, <4>1, <4>2 DEF Settles, t
    <3> QED
      BY <2>2, <2>3, <3>1, <3>2, <3>3, <3>4, <3>5 DEF Continues
  <2>4. ~s.open => ~l.open
    BY <2>2
  <2> QED
    BY <1>0, <2>1, <2>3, <2>4, ContinuesKeeps
<1> QED
  BY <1>2, <1>3 DEF Forward

\* RaiseTaken keeps GoodbyeInv: the frame's answer joins the run of its identity.
LEMMA RaiseTakenKeepsGoodbye ==
  ASSUME SafeInv, GoodbyeInv, NEW c \in Conns, RaiseTaken(c)
  PROVE  GoodbyeInv'
<1> DEFINE s == socks[c]
           f == s.cur
           l == Owe(s, f)
<1>0. s.st = "taken" /\ socks' = [socks EXCEPT ![c] = l] /\ UNCHANGED <<head, conn, hello>>
  BY DEF RaiseTaken, senderVars
<1>1. s \in Socket(settled) /\ InOrder(s, settled) /\ (s.open => Live(s)) /\ settled \in SUBSET Frames
  BY <1>0, SocketFacts DEF GoodbyeInv, Live, SafeInv, TypeOK
<1>2. f \in settled /\ f # Torn
  BY <1>0, <1>1 DEF InOrder
<1>3. ASSUME s.open PROVE Continues(s, l)
  <2>1. Live(s) /\ Rising(s)
    BY <1>1, <1>3 DEF Live
  <2>2. s.pend # None => s.pend.f < f /\ Queue[s.pend.f].id = Queue[f].id
    BY <1>2, <2>1 DEF Rising
  <2>3. \A i \in 1..Len(s.up) : s.up[i] # Torn => f < s.up[i]
    BY <2>1 DEF Rising
  <2>4. /\ Live(l) /\ l.took = s.took
        /\ \A n \in Nat : n >= 1 /\ f < n /\ Below(s, n) => Below(l, n)
        /\ \A g \in Frames : Owed(s, g) => Owed(l, g)
    BY <1>1, <1>2, <2>1, <2>2, <2>3, OweIsClean
  <2>5. \A n \in Nat : Below(s, n) => f < n
    BY DEF Below
  <2>6. ~Idle(s)
    BY <1>2 DEF Idle
  <2> HIDE DEF l
  <2>7. \A g \in Frames : Settles(s, g) => Settles(l, g)
    BY <2>4 DEF Settles
  <2> QED
    BY <2>4, <2>5, <2>6, <2>7 DEF Continues, Live
<1>4. ~s.open => ~l.open
  BY <1>1, <1>2, OweStaysShut
<1> HIDE DEF l
<1> QED
  BY <1>0, <1>3, <1>4, ContinuesKeeps

\* RestartListener keeps GoodbyeInv: a killed task says no goodbye.
LEMMA RestartListenerKeepsGoodbye ==
  ASSUME SafeInv, GoodbyeInv, RestartListener
  PROVE  GoodbyeInv'
<1>0. /\ socks' = [c \in Conns |-> IF socks[c].st = "free" THEN socks[c] ELSE Over(socks[c])]
      /\ UNCHANGED <<head, conn, hello>>
  BY DEF RestartListener, senderVars
<1>1. ASSUME NEW c \in Conns, socks[c].open
      PROVE  /\ socks'[c].open /\ Rising(socks'[c]) /\ LastWord(socks'[c])
             /\ \A n \in Nat : n >= 1 /\ Below(socks[c], n) => Below(socks'[c], n)
             /\ Idle(socks[c]) => Idle(socks'[c])
             /\ \A w : Clean(socks[c], w) => Clean(socks'[c], w)
  <2>0. socks[c] \in Socket(settled) /\ Rising(socks[c]) /\ LastWord(socks[c])
    BY <1>1, SocketFacts DEF GoodbyeInv
  <2>1. CASE socks[c].st = "free"
    BY <1>0, <1>1, <2>0, <2>1
  <2>2. CASE socks[c].st # "free"
    <3> DEFINE l == Over(socks[c])
    <3>1. socks'[c] = l
      BY <1>0, <2>2
    <3>2. /\ l.open = socks[c].open /\ l.st = "over" /\ l.up = <<>> /\ l.cur = Torn
          /\ l.took = socks[c].took /\ l.pend = socks[c].pend /\ l.down = socks[c].down
      BY <2>0 DEF Over, Socket
    <3> HIDE DEF l
    <3>3. Rising(l)
      BY <3>2 DEF Rising
    <3>4. LastWord(l)
      BY <2>0, <3>2 DEF LastWord
    <3>5. \A n \in Nat : n >= 1 /\ Below(socks[c], n) => Below(l, n)
      BY <3>2 DEF Below, Torn
    <3>6. Idle(socks[c]) => Idle(l)
      BY <3>2 DEF Idle
    <3>7. ASSUME NEW w, Clean(socks[c], w) PROVE Clean(l, w)
      <4>1. Announced(l) => socks[c].st = "over" /\ Announced(socks[c])
        BY <2>0, <3>2 DEF Announced, LastWord
      <4>2. socks[c].st = "over" => \A f : Settles(socks[c], f) => Settles(l, f)
        BY <3>2 DEF Settles, Owed
      <4> QED
        BY <3>2, <3>7, <4>1, <4>2 DEF Clean
    <3> QED
      BY <1>1, <3>1, <3>2, <3>3, <3>4, <3>5, <3>6, <3>7
  <2> QED
    BY <2>1, <2>2
<1>2. ASSUME NEW c \in Conns, ~socks[c].open PROVE ~socks'[c].open
  <2>1. socks[c] \in Socket(settled)
    BY SocketFacts
  <2>2. Over(socks[c]).open = socks[c].open
    BY <2>1 DEF Over, Socket
  <2> QED
    BY <1>0, <1>2, <2>2
<1>3. \A c \in Conns : socks'[c].open => Rising(socks'[c]) /\ LastWord(socks'[c])
  BY <1>1, <1>2
<1>4. hello # 0 => conn = None /\ socks'[hello].open /\ Idle(socks'[hello])
  BY <1>1 DEF GoodbyeInv, SafeInv, TypeOK
<1>5. ASSUME conn # None
      PROVE  /\ socks'[conn.c].open /\ Below(socks'[conn.c], head + Len(conn.inFlight))
             /\ Clean(socks'[conn.c], conn.inFlight)
  <2>1. conn.c \in Conns /\ head + Len(conn.inFlight) \in Nat /\ head + Len(conn.inFlight) >= 1
    BY <1>5, ConnFacts
  <2> QED
    BY <1>1, <1>5, <2>1 DEF GoodbyeInv
<1> QED
  BY <1>0, <1>3, <1>4, <1>5 DEF GoodbyeInv

\* A step that leaves the sink without a connection keeps GoodbyeInv.
LEMMA LettingDropGoodbye ==
  ASSUME SafeInv, GoodbyeInv, NEW c \in Conns, NEW l, socks' = [socks EXCEPT ![c] = l], ~l.open,
         conn' = None, hello' = 0
  PROVE  GoodbyeInv'
<1>1. socks'[c] = l /\ \A d \in Conns : d # c => socks'[d] = socks[d]
  BY DEF SafeInv, TypeOK
<1> QED
  BY <1>1 DEF GoodbyeInv

\* So does Drop.
LEMMA DropKeepsGoodbye ==
  ASSUME SafeInv, GoodbyeInv, NEW c \in Conns, socks' = Drop(c), conn' = None, hello' = 0
  PROVE  GoodbyeInv'
<1> DEFINE l == [socks[c] EXCEPT !.open = FALSE, !.down = <<>>]
<1>1. socks[c] \in Socket(settled) /\ socks \in [Conns -> Socket(settled)]
  BY DEF SafeInv, TypeOK
<1>2. socks' = [socks EXCEPT ![c] = l] /\ ~l.open
  BY <1>1 DEF Drop, Socket
<1> HIDE DEF l
<1> QED
  BY <1>2, LettingDropGoodbye

\* A step that changes one socket at the sink's end, and the window on it.
LEMMA WindowKeepsGoodbye ==
  ASSUME SafeInv, GoodbyeInv, conn # None, conn' # None, conn'.c = conn.c, NEW l,
         socks' = [socks EXCEPT ![conn.c] = l], UNCHANGED hello, l.open, Rising(l), LastWord(l),
         Below(l, head' + Len(conn'.inFlight)), Clean(l, conn'.inFlight)
  PROVE  GoodbyeInv'
<1>1. hello = 0 /\ conn.c \in Conns
  BY ConnFacts DEF GoodbyeInv
<1>2. socks'[conn.c] = l /\ \A d \in Conns : d # conn.c => socks'[d] = socks[d]
  BY <1>1 DEF SafeInv, TypeOK
<1> QED
  BY <1>1, <1>2 DEF GoodbyeInv

\* Connect keeps GoodbyeInv: a new socket has nothing to settle.
LEMMA ConnectKeepsGoodbye ==
  ASSUME SafeInv, GoodbyeInv, Connect
  PROVE  GoodbyeInv'
<1> DEFINE k == [Fresh EXCEPT !.st = "hello", !.open = TRUE, !.asked = resend]
<1>0. PICK c \in Conns : hello' = c /\ socks' = [socks EXCEPT ![c] = k]
  BY DEF Connect
<1>1. conn = None /\ UNCHANGED conn
  BY DEF Connect
<1>2. /\ k.st = "hello" /\ k.open /\ k.up = <<>> /\ k.down = <<>> /\ k.cur = Torn
      /\ k.took = {} /\ k.pend = None
  BY DEF Fresh
<1> HIDE DEF k
<1>3. Rising(k) /\ LastWord(k) /\ Idle(k)
  BY <1>2 DEF Rising, LastWord, Idle
<1>4. socks'[c] = k /\ \A d \in Conns : d # c => socks'[d] = socks[d]
  BY <1>0 DEF SafeInv, TypeOK
<1> QED
  BY <1>0, <1>1, <1>2, <1>3, <1>4 DEF GoodbyeInv

\* The socket once the sink has read a message.
Remaining(k, l) ==
  /\ l.open = k.open /\ l.took = k.took /\ l.pend = k.pend /\ SameShape(k, l)
  /\ Rising(k) => Rising(l)
  /\ LastWord(k) => LastWord(l)
  /\ \A n : Below(k, n) => Below(l, n)
  /\ Announced(l) => Announced(k)
  /\ \A f : Owed(k, f) => Owed(l, f) \/ AnswersFor(Head(k.down), f)

\* Only what the message says is gone.
LEMMA ReadRemains ==
  ASSUME NEW S, NEW k \in Socket(S), k.down # <<>>
  PROVE  Remaining(k, [k EXCEPT !.down = Tail(k.down)])
<1> DEFINE d == Tail(k.down)
           l == [k EXCEPT !.down = d]
<1>1. k.down \in Seq(GoodMsgs(S))
  BY DEF Socket
<1>2. /\ Head(k.down) = k.down[1] /\ Len(d) = Len(k.down) - 1 /\ Len(k.down) \in Nat /\ Len(k.down) >= 1
      /\ \A j \in 1..(Len(k.down) - 1) : d[j] = k.down[j + 1]
  BY <1>1, TailFacts
<1> HIDE DEF d
<1>3. /\ l.open = k.open /\ l.took = k.took /\ l.pend = k.pend /\ l.st = k.st /\ l.up = k.up /\ l.cur = k.cur
      /\ l.down = d
  BY DEF Socket
<1> HIDE DEF l
<1>4. \A j \in 1..Len(d) : j + 1 \in 1..Len(k.down) /\ d[j] = k.down[j + 1] /\ (j + 1 = Len(k.down) => j = Len(d))
  BY <1>2
<1>5. \A j \in 1..Len(k.down) : j # 1 => j - 1 \in 1..Len(d) /\ d[j - 1] = k.down[j]
  <2>1. ASSUME NEW j \in 1..Len(k.down), j # 1 PROVE j - 1 \in 1..Len(d) /\ d[j - 1] = k.down[j]
    <3>1. j - 1 \in 1..(Len(k.down) - 1) /\ (j - 1) + 1 = j
      BY <1>2, <2>1
    <3> QED
      BY <1>2, <3>1
  <2> QED
    BY <2>1
<1>6. SameShape(k, l) /\ (Rising(k) => Rising(l)) /\ \A n : Below(k, n) => Below(l, n)
  BY <1>3 DEF SameShape, Rising, Below
<1>7. LastWord(k) => LastWord(l)
  BY <1>3, <1>4 DEF LastWord
<1>8. Announced(l) => Announced(k)
  BY <1>3, <1>4 DEF Announced
<1>9. ASSUME NEW f, Owed(k, f) PROVE Owed(l, f) \/ AnswersFor(Head(k.down), f)
  <2>1. ASSUME NEW j \in 1..Len(k.down), AnswersFor(k.down[j], f)
        PROVE  Owed(l, f) \/ AnswersFor(Head(k.down), f)
    <3>1. CASE j = 1
      BY <1>2, <2>1, <3>1
    <3>2. CASE j # 1
      BY <1>3, <1>5, <2>1, <3>2 DEF Owed
    <3> QED
      BY <3>1, <3>2
  <2> QED
    BY <1>3, <1>9, <2>1 DEF Owed
<1> QED
  BY <1>3, <1>6, <1>7, <1>8, <1>9 DEF Remaining, l, d

\* ReadHelloAck keeps GoodbyeInv.
LEMMA ReadHelloAckKeepsGoodbye ==
  ASSUME SafeInv, GoodbyeInv, ReadHelloAck
  PROVE  GoodbyeInv'
<1> DEFINE s == socks[hello]
           msg == Head(s.down)
           k == [s EXCEPT !.down = Tail(s.down)]
<1>0. hello \in Conns /\ hello # 0 /\ s.down # <<>> /\ hello' = 0 /\ UNCHANGED head
  BY DEF ReadHelloAck, SafeInv, TypeOK
<1>1. s \in Socket(settled) /\ socks \in [Conns -> Socket(settled)] /\ conn = None /\ s.open /\ Idle(s)
      /\ Rising(s) /\ LastWord(s)
  BY <1>0, SocketFacts DEF SafeInv, TypeOK, GoodbyeInv
<1>2. CASE msg.type = "hello_ack"
  <2>1. /\ conn' = [c |-> hello, inFlight |-> <<>>, broken |-> FALSE, marks |-> msg.marks]
        /\ socks' = [socks EXCEPT ![hello].down = Tail(@)]
    BY <1>2 DEF ReadHelloAck
  <2>2. socks' = [socks EXCEPT ![hello] = k]
    BY <1>0, <1>1, <2>1
  <2> HIDE DEF msg
  <2>3. conn'.c = hello /\ conn'.inFlight = <<>> /\ Len(conn'.inFlight) = 0
    BY <2>1
  <2>4. Remaining(s, k)
    BY <1>0, <1>1, ReadRemains
  <2> HIDE DEF k
  <2>5. k.open /\ Rising(k) /\ LastWord(k) /\ Idle(k)
    BY <1>1, <2>4 DEF Remaining, Idle, SameShape
  <2>6. head + Len(conn'.inFlight) = head /\ head \in Nat /\ head >= 1
    BY <2>3, FrameFacts DEF SafeInv, TypeOK
  <2>7. Below(k, head)
    BY <2>5, <2>6 DEF Below, Idle, Torn
  <2>8. Clean(k, conn'.inFlight)
    BY <2>3 DEF Clean
  <2>9. socks'[hello] = k /\ \A d \in Conns : d # hello => socks'[d] = socks[d]
    BY <1>0, <1>1, <2>2
  <2>10. \A d \in Conns : socks'[d].open => Rising(socks'[d]) /\ LastWord(socks'[d])
    BY <2>5, <2>9 DEF GoodbyeInv
  <2>11. socks'[conn'.c].open /\ Below(socks'[conn'.c], head' + Len(conn'.inFlight)) /\ Clean(socks'[conn'.c], conn'.inFlight)
    BY <1>0, <2>3, <2>5, <2>6, <2>7, <2>8, <2>9
  <2> QED
    BY <1>0, <2>10, <2>11 DEF GoodbyeInv
<1>3. CASE msg.type # "hello_ack"
  <2>1. socks' = Drop(hello) /\ UNCHANGED conn
    BY <1>3 DEF ReadHelloAck
  <2> QED
    BY <1>0, <1>1, <2>1, DropKeepsGoodbye
<1> QED
  BY <1>2, <1>3

\* HelloFails, Probe and AckFails keep GoodbyeInv.
LEMMA FailuresKeepGoodbye ==
  ASSUME SafeInv, GoodbyeInv, HelloFails \/ Probe \/ AckFails
  PROVE  GoodbyeInv'
<1>1. CASE HelloFails
  <2>1. hello \in Conns /\ socks' = Drop(hello) /\ hello' = 0 /\ conn' = None
    BY <1>1 DEF HelloFails, SafeInv, TypeOK, GoodbyeInv
  <2> QED
    BY <2>1, DropKeepsGoodbye
<1>2. CASE Probe \/ AckFails
  <2>1. conn # None /\ conn' = None /\ socks' = Drop(conn.c) /\ UNCHANGED hello
    BY <1>2 DEF Probe, Submits, AckFails, InFlight, DropAndResend
  <2>2. conn.c \in Conns /\ hello = 0
    BY <2>1, ConnFacts DEF GoodbyeInv
  <2> QED
    BY <2>1, <2>2, DropKeepsGoodbye
<1> QED
  BY <1>1, <1>2

\* RestartSender keeps GoodbyeInv: no socket is open.
LEMMA RestartSenderKeepsGoodbye ==
  ASSUME SafeInv, GoodbyeInv, RestartSender
  PROVE  GoodbyeInv'
<1>0. /\ conn' = None /\ hello' = 0
      /\ socks' = [c \in Conns |-> [socks[c] EXCEPT !.open = FALSE, !.down = <<>>]]
  BY DEF RestartSender
<1>1. ASSUME NEW c \in Conns PROVE ~socks'[c].open
  <2>1. socks[c] \in Socket(settled)
    BY SocketFacts
  <2> QED
    BY <1>0, <2>1 DEF Socket
<1> QED
  BY <1>0, <1>1 DEF GoodbyeInv

\* What was not written from n on was not written from m on.
LEMMA BelowGrows ==
  ASSUME NEW S \in SUBSET Frames, NEW k \in Socket(S), NEW n \in Nat, NEW m \in Nat, n <= m, Below(k, n)
  PROVE  Below(k, m)
<1>1. k.up \in Seq(Frames \cup {Torn}) /\ k.cur \in Frames \cup {Torn} /\ k.took \subseteq Frames
      /\ (k.pend # None => k.pend.f \in Frames)
  BY DEF Socket
<1>2. Frames \cup {Torn} \subseteq Nat
  BY FrameFacts DEF Torn
<1>3. \A i \in 1..Len(k.up) : k.up[i] \in Nat
  BY <1>1, <1>2
<1>4. \A i \in 1..Len(k.up) : k.up[i] < m
  BY <1>3 DEF Below
<1>5. k.cur < m
  <2>1. k.cur \in Nat /\ k.cur < n
    BY <1>1, <1>2 DEF Below
  <2> QED
    BY <2>1
<1>6. \A f \in k.took : f < m
  BY <1>1, <1>2 DEF Below
<1>7. k.pend # None => k.pend.f < m
  BY <1>1, <1>2 DEF Below
<1> QED
  BY <1>4, <1>5, <1>6, <1>7 DEF Below

\* The last entry of the window is the frame submitted.
LEMMA PushedEntry ==
  ASSUME SafeInv, NEW f \in Frames, conn # None, NEW acked \in BOOLEAN, acked => f \in settled, Pushed(f, acked)
  PROVE  conn' # None /\ conn'.inFlight[Len(conn.inFlight) + 1].acked = acked
<1> DEFINE e == [f |-> f, acked |-> acked]
           w == Append(conn.inFlight, e)
<1>0. conn' = [conn EXCEPT !.inFlight = w]
  BY DEF Pushed
<1>1. conn \in Connection(settled) /\ conn.inFlight \in Seq(WindowEntry(settled))
  BY ConnFacts
<1>2. e \in WindowEntry(settled) /\ e.acked = acked
  BY DEF WindowEntry
<1> HIDE DEF e
<1>3. w \in Seq(WindowEntry(settled)) /\ w[Len(conn.inFlight) + 1] = e
  BY <1>1, <1>2, AppendFacts
<1> HIDE DEF w
<1>4. conn' \in Connection(settled) /\ conn'.inFlight = w
  BY <1>0, <1>1, <1>3 DEF Connection
<1>5. conn' # None
  <2>1. DOMAIN conn' = {"c", "inFlight", "broken", "marks"} /\ DOMAIN None = {"none"}
    BY <1>4 DEF Connection, None
  <2>2. "c" \in {"c", "inFlight", "broken", "marks"} /\ "c" \notin {"none"}
    OBVIOUS
  <2> QED
    BY <2>1, <2>2
<1> QED
  BY <1>2, <1>3, <1>4, <1>5

\* Resume keeps GoodbyeInv: what the marks cover is answered.
LEMMA ResumeKeepsGoodbye ==
  ASSUME SafeInv, GoodbyeInv, NEW f \in Frames, Resume(f)
  PROVE  GoodbyeInv'
<1> DEFINE s == socks[conn.c]
           w == conn.inFlight
           n == Len(w)
           v == conn'.inFlight
<1>0. Submits(f) /\ Covers(f) /\ Pushed(f, TRUE) /\ conn # None /\ UNCHANGED <<head, hello, socks>>
  BY DEF Resume, Submits
<1>1. f \in settled
  <2>1. conn.marks \subseteq SoundMarks(settled)
    BY <1>0, ConnFacts DEF Connection
  <2> QED
    BY <1>0, <2>1 DEF Covers, SoundMarks, CoveredBy
<1>2. /\ conn'.c = conn.c /\ Len(v) = n + 1
      /\ \A i \in 1..n : v[i] = w[i]
  BY <1>0, <1>1, PushedFacts
<1>3. conn' # None /\ v[n + 1].acked
  BY <1>0, <1>1, PushedEntry
<1>4. n \in Nat /\ head \in Nat /\ conn.c \in Conns /\ s \in Socket(settled) /\ settled \in SUBSET Frames
      /\ socks \in [Conns -> Socket(settled)]
  BY <1>0, ConnFacts, SocketFacts DEF SafeInv, TypeOK
<1>5. s.open /\ Rising(s) /\ LastWord(s) /\ Below(s, head + n) /\ Clean(s, w)
  BY <1>0, <1>4 DEF GoodbyeInv
<1>6. socks' = [socks EXCEPT ![conn.c] = s]
  BY <1>0, <1>4
<1> HIDE DEF s, w, n, v
<1>7. Below(s, head' + Len(v))
  <2>1. head' + Len(v) = head + (n + 1) /\ head + n \in Nat /\ head + (n + 1) \in Nat /\ head + n <= head + (n + 1)
    BY <1>0, <1>2, <1>4
  <2> QED
    BY <1>4, <1>5, <2>1, BelowGrows
<1>8. Clean(s, v)
  <2>1. 1..Len(v) = 1..n \cup {n + 1}
    BY <1>2, <1>4
  <2> QED
    BY <1>2, <1>3, <1>5, <2>1 DEF Clean, n
<1> QED
  BY <1>0, <1>2, <1>3, <1>5, <1>6, <1>7, <1>8, WindowKeepsGoodbye DEF v

\* A frame later than all of the socket's, or one cut off, is added to it.
LEMMA SendKeepsClean ==
  ASSUME NEW S \in SUBSET Frames, NEW k \in Socket(S), NEW x \in Frames \cup {Torn}, NEW n \in Nat, NEW m \in Nat,
         n <= m, x < m, 1 <= m, x = Torn \/ x = n, Below(k, n), Rising(k), LastWord(k)
  PROVE  LET l == [k EXCEPT !.up = Append(k.up, x)]
         IN  /\ l.open = k.open /\ Rising(l) /\ LastWord(l) /\ Below(l, m)
             /\ \A w : Clean(k, w) => Clean(l, w)
<1> DEFINE u == Append(k.up, x)
           l == [k EXCEPT !.up = u]
           p == Len(k.up)
<1>1. k.up \in Seq(Frames \cup {Torn})
  BY DEF Socket
<1>2. Len(u) = p + 1 /\ u[p + 1] = x /\ (\A i \in 1..p : u[i] = k.up[i]) /\ p \in Nat
  BY <1>1, AppendFacts
<1> HIDE DEF u
<1>3. /\ l.st = k.st /\ l.up = u /\ l.cur = k.cur /\ l.down = k.down /\ l.pend = k.pend /\ l.took = k.took
      /\ l.open = k.open
  BY DEF Socket
<1> HIDE DEF l
<1>4. 1..Len(u) = 1..p \cup {p + 1} /\ \A i \in 1..p : i < p + 1 /\ ~(p + 1 < i)
  BY <1>2
<1>5. Below(k, m)
  BY BelowGrows
<1>6. Below(l, m)
  BY <1>2, <1>3, <1>4, <1>5 DEF Below, p
<1>7. Rising(l)
  <2>1. x # Torn => x = n
    OBVIOUS
  <2>2. ASSUME NEW i \in 1..Len(u), NEW j \in 1..Len(u), i < j, u[j] # Torn PROVE u[i] < u[j]
    <3>1. CASE j \in 1..p
      <4>1. i \in 1..p
        BY <1>2, <2>2, <3>1
      <4> QED
        BY <1>2, <2>2, <3>1, <4>1 DEF Rising, p
    <3>2. CASE j = p + 1
      <4>1. i \in 1..p
        BY <1>2, <2>2, <3>2
      <4>2. u[j] = n /\ u[i] = k.up[i]
        BY <1>2, <2>1, <2>2, <3>2, <4>1
      <4> QED
        BY <4>1, <4>2 DEF Below, p
    <3> QED
      BY <1>4, <2>2, <3>1, <3>2
  <2>3. ASSUME NEW i \in 1..Len(u), u[i] # Torn PROVE k.cur < u[i] /\ (k.pend # None => k.pend.f < u[i])
    <3>1. CASE i \in 1..p
      BY <1>2, <2>3, <3>1 DEF Rising, p
    <3>2. CASE i = p + 1
      <4>1. u[i] = n
        BY <1>2, <2>1, <2>3, <3>2
      <4> QED
        BY <4>1 DEF Below
    <3> QED
      BY <1>4, <2>3, <3>1, <3>2
  <2>4. k.pend # None /\ k.cur # Torn => k.pend.f < k.cur /\ Queue[k.pend.f].id = Queue[k.cur].id
    BY DEF Rising
  <2> QED
    BY <1>3, <2>2, <2>3, <2>4 DEF Rising
<1>8. LastWord(l)
  BY <1>3 DEF LastWord
<1>9. \A w : Clean(k, w) => Clean(l, w)
  BY <1>3 DEF Clean, Announced, Settles, Owed
<1> QED
  BY <1>3, <1>6, <1>7, <1>8, <1>9 DEF l, u

\* WriteFrame keeps GoodbyeInv: no task took the frame before it is written.
LEMMA WriteFrameKeepsGoodbye ==
  ASSUME SafeInv, GoodbyeInv, NEW f \in Frames, WriteFrame(f)
  PROVE  GoodbyeInv'
<1> DEFINE c == conn.c
           w == conn.inFlight
           s == socks[c]
           n == head + Len(w)
           sent == [s EXCEPT !.up = Append(s.up, f)]
           torn == [s EXCEPT !.up = Append(s.up, Torn)]
<1>0. Submits(f) /\ conn # None /\ f = n /\ UNCHANGED <<head, hello>>
  BY DEF WriteFrame, Submits, NextFrame, InFlight
<1>1. /\ conn \in Connection(settled) /\ c \in Conns /\ Len(w) \in Nat /\ head \in Nat /\ head >= 1
      /\ \A i \in 1..Len(w) : w[i].f = head + i - 1
  BY <1>0, ConnFacts
<1>2. s \in Socket(settled) /\ socks \in [Conns -> Socket(settled)] /\ settled \in SUBSET Frames
  BY <1>1, SocketFacts DEF SafeInv, TypeOK
<1>3. s.open /\ Rising(s) /\ LastWord(s) /\ Below(s, n) /\ Clean(s, w) /\ hello = 0
  BY <1>0, <1>1 DEF GoodbyeInv
<1>4. n \in Nat /\ n + 1 \in Nat /\ n <= n + 1 /\ f < n + 1 /\ 1 <= n /\ 1 <= n + 1 /\ n <= n /\ Torn < n /\ Torn < n + 1
  BY <1>0, <1>1 DEF Torn
<1>5. CASE /\ Pushed(f, FALSE)
           /\ socks' = [socks EXCEPT ![c].up = IF s.st = "over" THEN @ ELSE Append(@, f)]
  <2> DEFINE k == IF s.st = "over" THEN s ELSE sent
             v == conn'.inFlight
  <2>1. socks' = [socks EXCEPT ![c] = k]
    <3>1. CASE s.st = "over"
      <4>1. [s EXCEPT !.up = s.up] = s
        BY <1>2 DEF Socket
      <4>2. socks' = [socks EXCEPT ![c] = [s EXCEPT !.up = s.up]]
        BY <1>1, <1>2, <1>5, <3>1
      <4> QED
        BY <3>1, <4>1, <4>2
    <3>2. CASE s.st # "over"
      BY <1>1, <1>2, <1>5, <3>2
    <3> QED
      BY <3>1, <3>2
  <2>2. /\ conn'.c = c /\ Len(v) = Len(w) + 1 /\ v[Len(w) + 1].f = f
        /\ \A i \in 1..Len(w) : v[i] = w[i]
    BY <1>0, <1>5, PushedFacts
  <2>3. conn' # None
    BY <1>0, <1>5, PushedEntry
  <2>4. head' + Len(v) = n + 1 /\ 1..Len(v) = 1..Len(w) \cup {Len(w) + 1}
    BY <1>0, <1>1, <2>2
  <2>5. k.open /\ Rising(k) /\ LastWord(k) /\ Below(k, n + 1) /\ Clean(k, w) /\ k.took = s.took
    <3>1. CASE s.st = "over"
      <4>1. Below(s, n + 1)
        BY <1>2, <1>3, <1>4, BelowGrows
      <4> QED
        BY <1>3, <3>1, <4>1
    <3>2. CASE s.st # "over"
      <4>1. k = sent /\ sent.took = s.took
        BY <1>2, <3>2 DEF Socket
      <4> HIDE DEF s, n, k, w
      <4>2. sent.open = s.open /\ Rising(sent) /\ LastWord(sent) /\ Below(sent, n + 1) /\ \A x : Clean(s, x) => Clean(sent, x)
        BY <1>0, <1>2, <1>3, <1>4, SendKeepsClean
      <4> QED
        BY <1>3, <4>1, <4>2
    <3> QED
      BY <3>1, <3>2
  <2>6. f \notin k.took
    <3>1. \A g \in s.took : g < n
      BY <1>3 DEF Below
    <3> QED
      BY <1>0, <1>4, <2>5, <3>1
  <2> HIDE DEF k
  <2>7. Clean(k, v)
    BY <2>2, <2>4, <2>5, <2>6 DEF Clean, Settles
  <2> QED
    BY <1>0, <2>1, <2>2, <2>3, <2>4, <2>5, <2>7, WindowKeepsGoodbye
<1>6. CASE LET cut == [socks EXCEPT ![c].up = Append(@, Torn)]
           IN  IF w = <<>>
               THEN /\ conn' = None
                    /\ socks' = [cut EXCEPT ![c].open = FALSE, ![c].down = <<>>]
               ELSE /\ conn' = [conn EXCEPT !.broken = TRUE]
                    /\ socks' = cut
  <2>1. [socks EXCEPT ![c].up = Append(@, Torn)] = [socks EXCEPT ![c] = torn]
    BY <1>1, <1>2
  <2>2. CASE w = <<>>
    <3> DEFINE k == [torn EXCEPT !.open = FALSE, !.down = <<>>]
    <3>1. conn' = None /\ socks' = [socks EXCEPT ![c] = k]
      BY <1>1, <1>2, <1>6, <2>1, <2>2
    <3>2. ~k.open
      BY <1>2 DEF Socket
    <3> HIDE DEF k
    <3> QED
      BY <1>0, <1>1, <1>3, <3>1, <3>2, LettingDropGoodbye
  <2>3. CASE w # <<>>
    <3>1. conn' = [conn EXCEPT !.broken = TRUE] /\ socks' = [socks EXCEPT ![c] = torn]
      BY <1>6, <2>1, <2>3
    <3>2. conn'.inFlight = w /\ conn'.c = c /\ conn' # None
      <4>1. conn' \in Connection(settled) /\ conn'.inFlight = w /\ conn'.c = c
        BY <1>1, <3>1 DEF Connection
      <4>2. DOMAIN conn' = {"c", "inFlight", "broken", "marks"} /\ DOMAIN None = {"none"}
        BY <4>1 DEF Connection, None
      <4>3. "c" \in {"c", "inFlight", "broken", "marks"} /\ "c" \notin {"none"}
        OBVIOUS
      <4> QED
        BY <4>1, <4>2, <4>3
    <3>3. /\ torn.open = s.open /\ Rising(torn) /\ LastWord(torn) /\ Below(torn, n)
          /\ \A x : Clean(s, x) => Clean(torn, x)
      <4>1. Torn \in Frames \cup {Torn}
        OBVIOUS
      <4> HIDE DEF s, n
      <4> QED
        BY <1>2, <1>3, <1>4, <4>1, SendKeepsClean
    <3> HIDE DEF torn
    <3> QED
      BY <1>0, <1>3, <3>1, <3>2, <3>3, WindowKeepsGoodbye
  <2> QED
    BY <2>2, <2>3
<1> QED
  BY <1>5, <1>6 DEF WriteFrame

\* RejectLocally keeps GoodbyeInv.
LEMMA RejectLocallyKeepsGoodbye ==
  ASSUME SafeInv, GoodbyeInv, RejectLocally
  PROVE  GoodbyeInv'
<1>0. InFlight = <<>> /\ hello = 0 /\ head' = head + 1 /\ UNCHANGED <<conn, hello, socks>>
  BY DEF RejectLocally
<1>1. CASE conn = None
  BY <1>0, <1>1 DEF GoodbyeInv
<1>2. CASE conn # None
  <2> DEFINE s == socks[conn.c]
  <2>1. /\ conn.inFlight = <<>> /\ Len(conn.inFlight) = 0 /\ head \in Nat /\ conn.c \in Conns
        /\ s \in Socket(settled) /\ settled \in SUBSET Frames
    BY <1>0, <1>2, ConnFacts, SocketFacts DEF InFlight, SafeInv, TypeOK
  <2>2. /\ head + Len(conn.inFlight) \in Nat /\ head' + Len(conn.inFlight) \in Nat
        /\ head + Len(conn.inFlight) <= head' + Len(conn.inFlight)
    BY <1>0, <2>1
  <2>3. Below(s, head + Len(conn.inFlight))
    BY <1>2 DEF GoodbyeInv
  <2>4. Below(s, head' + Len(conn.inFlight))
    BY <2>1, <2>2, <2>3, BelowGrows
  <2> QED
    BY <1>0, <1>2, <2>4 DEF GoodbyeInv
<1> QED
  BY <1>1, <1>2

\* The connection whose window loses its front, once the answer for it was read.
LEMMA PopKeepsGoodbye ==
  ASSUME SafeInv, GoodbyeInv, conn # None, NEW v \in Seq(WindowEntry(settled)), v # <<>>,
         Len(v) = Len(conn.inFlight), Pop(v), head' = head + 1, UNCHANGED hello,
         NEW k, socks' = [socks EXCEPT ![conn.c] = Closed(k)],
         k \in Socket(settled), k.open, Rising(k), LastWord(k), Below(k, head + Len(conn.inFlight)), Clean(k, v)
  PROVE  GoodbyeInv'
<1> DEFINE rest == Tail(v)
<1>1. /\ conn \in Connection(settled) /\ conn.c \in Conns /\ head \in Nat /\ hello = 0
  BY ConnFacts DEF GoodbyeInv
<1>2. /\ rest \in Seq(WindowEntry(settled)) /\ Len(rest) = Len(v) - 1 /\ Len(v) \in Nat /\ Len(v) >= 1
      /\ \A i \in 1..(Len(v) - 1) : rest[i] = v[i + 1]
  BY TailFacts
<1>3. conn' = IF conn.broken /\ rest = <<>> THEN None ELSE [conn EXCEPT !.inFlight = rest]
  BY DEF Pop
<1> HIDE DEF rest
<1>4. CASE conn' = None
  <2> DEFINE l == [k EXCEPT !.open = FALSE, !.down = <<>>]
  <2>1. socks' = [socks EXCEPT ![conn.c] = l] /\ ~l.open
    BY <1>4 DEF Closed, Socket
  <2> HIDE DEF l
  <2> QED
    BY <1>1, <1>4, <2>1, LettingDropGoodbye
<1>5. CASE conn' # None
  <2>1. conn' = [conn EXCEPT !.inFlight = rest] /\ socks' = [socks EXCEPT ![conn.c] = k]
    BY <1>3, <1>5 DEF Closed
  <2>2. conn'.inFlight = rest /\ conn'.c = conn.c
    BY <1>1, <2>1 DEF Connection
  <2>3. head' + Len(conn'.inFlight) = head + Len(conn.inFlight)
    <3> DEFINE n == Len(v)
    <3>1. Len(conn'.inFlight) = n - 1 /\ Len(conn.inFlight) = n /\ head' = head + 1 /\ n \in Nat /\ head \in Nat
      BY <1>1, <1>2, <2>2
    <3> HIDE DEF n
    <3>2. head' + Len(conn'.inFlight) = (head + 1) + (n - 1) /\ head + Len(conn.inFlight) = head + n
      BY <3>1
    <3>3. (head + 1) + (n - 1) = head + n
      BY <3>1
    <3> QED
      BY <3>2, <3>3
  <2>4. \A i \in 1..Len(rest) : i + 1 \in 1..Len(v) /\ rest[i] = v[i + 1]
    BY <1>2
  <2>5. Clean(k, rest)
    BY <2>4 DEF Clean
  <2> QED
    BY <1>5, <2>1, <2>2, <2>3, <2>5, WindowKeepsGoodbye
<1> QED
  BY <1>4, <1>5

\* AckedAlready keeps GoodbyeInv.
LEMMA AckedAlreadyKeepsGoodbye ==
  ASSUME SafeInv, GoodbyeInv, AckedAlready
  PROVE  GoodbyeInv'
<1> DEFINE w == conn.inFlight
           s == socks[conn.c]
<1>0. /\ conn # None /\ w # <<>> /\ Pop(w) /\ head' = head + 1 /\ UNCHANGED hello
      /\ socks' = [socks EXCEPT ![conn.c] = Closed(@)]
  BY DEF AckedAlready, InFlight
<1>1. w \in Seq(WindowEntry(settled)) /\ conn.c \in Conns /\ s \in Socket(settled)
      /\ socks' = [socks EXCEPT ![conn.c] = Closed(s)]
  BY <1>0, ConnFacts, SocketFacts DEF SafeInv, TypeOK
<1>2. s.open /\ Rising(s) /\ LastWord(s) /\ Below(s, head + Len(w)) /\ Clean(s, w)
  BY <1>0, <1>1 DEF GoodbyeInv
<1> HIDE DEF s
<1> QED
  BY <1>0, <1>1, <1>2, PopKeepsGoodbye

\* The entries an Ack leaves unmarked are not the ones it answers for.
LEMMA AckAnswersPrefix ==
  ASSUME SafeInv, conn # None, NEW p, Names(conn.inFlight, p), NEW i \in 1..Len(conn.inFlight),
         Queue[conn.inFlight[i].f].id = p.id, Queue[conn.inFlight[i].f].seq <= p.seq
  PROVE  i \in AckedPrefix(conn.inFlight, p)
<1> DEFINE w == conn.inFlight
<1>1. /\ Len(w) \in Nat /\ head \in Nat /\ DOMAIN w = 1..Len(w) /\ w \in Seq(WindowEntry(settled))
      /\ \A j \in 1..Len(w) : w[j].f = head + j - 1 /\ w[j].f \in Frames
  BY ConnFacts
<1>2. PICK m \in AckedPrefix(w, p) : Queue[w[m].f] = p
  BY DEF Names
<1>3. m \in 1..Len(w) /\ \A j \in 1..m : Queue[w[j].f].id = p.id /\ Queue[w[j].f].seq <= p.seq
  BY <1>1, <1>2 DEF AckedPrefix
<1> HIDE DEF w
<1>4. w[i].f <= w[m].f
  BY <1>1, <1>2, <1>3, PairFacts DEF w
<1>5. i <= m
  <2>1. w[i].f = head + i - 1 /\ w[m].f = head + m - 1
    BY <1>1, <1>3 DEF w
  <2> QED
    BY <1>1, <1>3, <1>4, <2>1
<1>6. \A j \in 1..i : j \in 1..m
  BY <1>1, <1>3, <1>5
<1>7. \A j \in 1..i : Queue[w[j].f].id = p.id /\ Queue[w[j].f].seq <= p.seq
  BY <1>3, <1>6
<1>8. i \in 1..Len(w)
  BY DEF w
<1> QED
  BY <1>1, <1>7, <1>8 DEF AckedPrefix, w

\* ReadAck keeps GoodbyeInv: an answer that is read marks every entry it answers for.
LEMMA ReadAckKeepsGoodbye ==
  ASSUME SafeInv, GoodbyeInv, ReadAck
  PROVE  GoodbyeInv'
<1> DEFINE c == conn.c
           w == conn.inFlight
           s == socks[c]
           msg == Head(s.down)
           k == [s EXCEPT !.down = Tail(s.down)]
           good == \/ msg.type = "ack" /\ Names(w, msg.pair)
                   \/ msg.type = "rejected" /\ Queue[Head(w).f] = msg.pair
           v == IF msg.type = "ack" THEN MarkAcked(w, msg.pair) ELSE w
<1>0. conn # None /\ w # <<>> /\ s.down # <<>> /\ UNCHANGED hello
  BY DEF ReadAck, InFlight
<1>1. conn \in Connection(settled) /\ c \in Conns /\ w \in Seq(WindowEntry(settled)) /\ Len(w) \in Nat
      /\ \A i \in 1..Len(w) : w[i].f \in Frames
  BY <1>0, ConnFacts
<1>2. msg \in GoodMsgs(settled) /\ k \in Socket(settled) /\ s \in Socket(settled)
  BY <1>0, <1>1, ReadFacts, SocketFacts
<1>3. s.open /\ Rising(s) /\ LastWord(s) /\ Below(s, head + Len(w)) /\ Clean(s, w) /\ hello = 0
  BY <1>0, <1>1 DEF GoodbyeInv
<1>4. CASE good
  <2>1. Pop(v) /\ head' = head + 1 /\ socks' = [socks EXCEPT ![c] = Closed(k)]
    BY <1>4 DEF ReadAck
  <2>2. Remaining(s, k)
    BY <1>0, <1>2, ReadRemains
  <2>3. PICK g \in settled : msg.pair = Queue[g]
    <3>1. msg \in [type : {"ack", "rejected"}, pair : {Queue[f] : f \in settled}]
      BY <1>2, <1>4 DEF GoodMsgs, GoingAway, Reject
    <3> QED
      BY <3>1
  <2> HIDE DEF k
  <2>4. k.open /\ Rising(k) /\ LastWord(k) /\ Below(k, head + Len(w)) /\ k.took = s.took /\ k.st = s.st
        /\ (Announced(k) => Announced(s)) /\ \A f : Owed(s, f) => Owed(k, f) \/ AnswersFor(msg, f)
    BY <1>3, <2>2 DEF Remaining, SameShape
  <2> HIDE DEF msg, s
  <2>5. MarkAcked(w, msg.pair) \in Seq(WindowEntry(settled)) /\ Len(MarkAcked(w, msg.pair)) = Len(w)
    BY <1>1, <2>3, MarkAckedFacts
  <2>6. v \in Seq(WindowEntry(settled)) /\ Len(v) = Len(w) /\ v # <<>>
    <3>1. Len(w) >= 1
      BY <1>0, <1>1
    <3> QED
      BY <1>1, <2>5, <3>1
  <2>7. ASSUME NEW i \in 1..Len(w), ~v[i].acked
        PROVE  v[i] = w[i] /\ ~AnswersFor(msg, w[i].f)
    <3>1. CASE msg.type = "ack"
      <4>0. w[i] \in WindowEntry(settled) /\ DOMAIN w = 1..Len(w)
        BY <1>1
      <4>1. v[i] = IF i \in AckedPrefix(w, msg.pair) THEN [w[i] EXCEPT !.acked = TRUE] ELSE w[i]
        BY <3>1, <4>0 DEF MarkAcked
      <4>2. i \in AckedPrefix(w, msg.pair) => v[i].acked
        BY <4>0, <4>1 DEF WindowEntry
      <4>3. i \notin AckedPrefix(w, msg.pair)
        BY <2>7, <4>2
      <4>4. Names(w, msg.pair)
        BY <1>4, <3>1
      <4>5. ~(Queue[w[i].f].id = msg.pair.id /\ Queue[w[i].f].seq <= msg.pair.seq)
        BY <1>0, <4>3, <4>4, AckAnswersPrefix
      <4> QED
        BY <4>1, <4>3, <4>5 DEF AnswersFor
    <3>2. CASE msg.type # "ack"
      BY <3>2 DEF AnswersFor
    <3> QED
      BY <3>1, <3>2
  <2> HIDE DEF v
  <2>8. Clean(k, v)
    <3>1. SUFFICES ASSUME k.st # "over" \/ Announced(k), NEW i \in 1..Len(w), ~v[i].acked
                   PROVE  Settles(k, v[i].f)
      BY <2>6 DEF Clean
    <3>2. v[i] = w[i] /\ ~AnswersFor(msg, w[i].f)
      BY <2>7, <3>1
    <3>3. Settles(s, w[i].f)
      BY <1>3, <2>4, <3>1, <3>2 DEF Clean
    <3> QED
      BY <2>4, <3>2, <3>3 DEF Settles
  <2> HIDE DEF w
  <2> QED
    BY <1>0, <1>2, <2>1, <2>4, <2>6, <2>8, PopKeepsGoodbye DEF w
<1>5. CASE ~good
  <2>1. DropAndResend
    BY <1>5 DEF ReadAck
  <2> QED
    BY <1>0, <1>1, <1>3, <2>1, DropKeepsGoodbye DEF DropAndResend
<1> QED
  BY <1>4, <1>5

\* The initial state.
LEMMA GoodbyeInit == Init => GoodbyeInv
BY DEF Init, GoodbyeInv, Fresh

\* Nothing that GOING_AWAY relies on happens.
LEMMA GoodbyeStutters ==
  ASSUME GoodbyeInv, UNCHANGED <<head, conn, hello, socks>>
  PROVE  GoodbyeInv'
BY DEF GoodbyeInv

\* GoodbyeInv is kept by every step of either end.
THEOREM GoodbyeInductive == SafeInv /\ GoodbyeInv /\ [Next]_vars => GoodbyeInv'
<1> SUFFICES ASSUME SafeInv, GoodbyeInv, [Next]_vars PROVE GoodbyeInv'
  OBVIOUS
<1>1. CASE Sender
  <2>1. CASE Connect
    BY <2>1, ConnectKeepsGoodbye
  <2>2. CASE ReadHelloAck
    BY <2>2, ReadHelloAckKeepsGoodbye
  <2>3. CASE HelloFails \/ Probe \/ AckFails
    BY <2>3, FailuresKeepGoodbye
  <2>4. ASSUME NEW f \in Frames, Submit(f) PROVE GoodbyeInv'
    BY <2>4, ResumeKeepsGoodbye, WriteFrameKeepsGoodbye DEF Submit
  <2>5. CASE RejectLocally
    BY <2>5, RejectLocallyKeepsGoodbye
  <2>6. CASE AckedAlready
    BY <2>6, AckedAlreadyKeepsGoodbye
  <2>7. CASE ReadAck
    BY <2>7, ReadAckKeepsGoodbye
  <2> QED
    BY <1>1, <2>1, <2>2, <2>3, <2>4, <2>5, <2>6, <2>7 DEF Sender
<1>2. CASE RestartSender
  BY <1>2, RestartSenderKeepsGoodbye
<1>3. ASSUME NEW c \in Conns, Serve(c) \/ EndByListener(c) \/ Reset(c) PROVE GoodbyeInv'
  <2>1. CASE AnswerHello(c) \/ WriteOwedAck(c) \/ EndByListener(c) \/ EndByPeer(c) \/ Reset(c)
    BY <2>1, AnswersKeepGoodbye
  <2>2. CASE TakeFrame(c)
    BY <2>2, TakeFrameKeepsGoodbye
  <2>3. CASE Forward(c)
    BY <2>3, ForwardKeepsGoodbye
  <2>4. CASE RaiseTaken(c)
    BY <2>4, RaiseTakenKeepsGoodbye
  <2> QED
    BY <1>3, <2>1, <2>2, <2>3, <2>4 DEF Serve
<1>4. CASE RestartListener
  BY <1>4, RestartListenerKeepsGoodbye
<1>5. ASSUME NEW id \in Strangers, OtherSink(id) PROVE GoodbyeInv'
  BY <1>5, GoodbyeStutters DEF OtherSink, senderVars
<1>6. CASE Drained \/ UNCHANGED vars
  BY <1>6, GoodbyeStutters DEF Drained, vars, senderVars
<1> QED
  BY <1>1, <1>2, <1>3, <1>4, <1>5, <1>6 DEF Next

\* A sink that reads GOING_AWAY in place of an answer may count on it: every frame
\* this connection forwarded was answered for before, so a resend of what is left
\* cannot make a second copy by this connection (going_away, reject_in_place_of_ack).
THEOREM GoodbyeIsClean == Spec => []GoingAwayIsClean
<1>1. SafeInv /\ GoodbyeInv => GoingAwayIsClean
  <2> SUFFICES ASSUME SafeInv, GoodbyeInv, conn # None, socks[conn.c].down # <<>>,
                      Head(socks[conn.c].down) = GoingAway, NEW i \in DOMAIN conn.inFlight
               PROVE  conn.inFlight[i].acked \/ conn.inFlight[i].f \notin socks[conn.c].took
    BY DEF GoingAwayIsClean
  <2> DEFINE s == socks[conn.c]
             f == conn.inFlight[i].f
  <2>1. conn.c \in Conns /\ i \in 1..Len(conn.inFlight) /\ f \in Frames
    BY ConnFacts
  <2>2. s \in Socket(settled) /\ s.down \in Seq(GoodMsgs(settled)) /\ InOrder(s, settled)
    BY <2>1, SocketFacts DEF Socket
  <2>3. Head(s.down) = s.down[1] /\ 1 \in 1..Len(s.down)
    BY <2>2, TailFacts
  <2>4. s.open /\ LastWord(s) /\ Clean(s, conn.inFlight)
    BY <2>1 DEF GoodbyeInv
  <2>5. Len(s.down) = 1 /\ s.st = "over" /\ s.pend = None /\ Announced(s)
    BY <2>3, <2>4 DEF LastWord, Announced
  <2>6. ~Owed(s, f)
    <3>1. \A j \in 1..Len(s.down) : s.down[j].type = "going_away"
      BY <2>3, <2>5 DEF GoingAway
    <3> QED
      BY <2>5, <3>1 DEF Owed, AnswersFor
  <2> QED
    BY <2>1, <2>4, <2>5, <2>6 DEF Clean, Settles
<1> QED
  BY <1>1, SafeHolds, GoodbyeInit, SafeInit, GoodbyeInductive, PTL DEF Spec

=============================================================================
