------------------------ MODULE KafkaConsumerProofs ------------------------
(***************************************************************************)
(* Proofs about the Kafka group consumer: the group commits no offset      *)
(* whose record it has not delivered, and no offset a member has passed    *)
(* holds the commit back, for any group, log and schedule.                 *)
(*                                                                         *)
(* PlaceInv says which of a member's pieces exist at each point of its     *)
(* task; PartInv is what the tracker and the resets keep among themselves; *)
(* ReadInv relates the ranges on their way to delivery to the part they    *)
(* will be accepted in.  GoodInv says that whatever is done, asked to be   *)
(* committed or committed is delivered, and CoverInv that whatever the     *)
(* position has passed is done or on its way.                              *)
(***************************************************************************)
EXTENDS KafkaConsumer, TLAPS, WellFoundedInduction

-----------------------------------------------------------------------------
(* The inductive invariant.                                                *)

Offset  == 0 .. MaxOffset
Kinds   == {"start", "at", "outOfRange"}
Pairs   == Nat \X Nat
Span    == [epoch : Nat, from : Nat, to : Nat, records : SUBSET Pairs]
Resets  == [replaced : Nat, at : Nat]
Part    == [epoch : Nat, first : Nat, resets : SUBSET Resets, kind : Kinds, at : Offset,
            buffer : Span \union {Nothing}, candidate : Offset, done : SUBSET Offset,
            last : Int]
Fetched == [code : {"ok", "outOfRange"}, to : Offset, records : SUBSET Pairs]
Listed  == [code : {"range"}, from : Offset, to : Offset]
Query   == [epoch : Nat, kind : Kinds, at : Offset, to : Offset,
            answer : Fetched \union Listed]
Commit  == [offset : Offset, answer : {"sent", "ok", "rebalance", "fenced"}]
Places  == {"join", "wait", "assigned", "spare", "run", "deliver", "commit", "revoked",
            "finalCommit", "rejoin", "left"}

TypeOK ==
  /\ log \in Seq(Nat) /\ Len(log) <= MaxOffset /\ truncated \in Nat
  /\ logStart \in Offset /\ logStart <= Len(log)
  /\ committed \in Offset \union {None}
  /\ group \in [gen : Nat, members : SUBSET Members, joined : SUBSET Members,
                owner : Members \union {Peer}, rebalancing : BOOLEAN]
  /\ pc \in [Members -> Places]
  /\ signal \in [Members -> {"none", "lost", "rebalance"}]
  /\ part \in [Members -> Part \union {NoPart}]
  /\ epochs \in [Members -> Nat] /\ shared \in [Members -> Nat]
  /\ asks \in [Members -> SUBSET Query]
  /\ out \in [Members -> Span \union {Nothing}]
  /\ request \in [Members -> Commit \union {Nothing}]

\* The offsets a part has done.
Done(p) == {o \in Offset : o < p.candidate \/ o \in p.done}

\* The tracker stays behind the position.
Tracked(candidate, done, at) ==
  /\ candidate \in Offset /\ done \in SUBSET Offset
  /\ candidate <= at /\ \A o \in done : candidate < o /\ o < at

\* The resets rise with their epochs, behind the position.
Rising(p) ==
  /\ p.first <= p.epoch
  /\ \A r \in p.resets : p.first <= r.replaced /\ r.replaced < p.epoch /\ r.at <= p.at
  /\ \A r, s \in p.resets : r.replaced < s.replaced => r.at < s.at
  /\ \A r, s \in p.resets : r.replaced = s.replaced => r = s

PartInv(p) == p \in Part /\ Tracked(p.candidate, p.done, p.at) /\ Rising(p)

\* Whether what a range read in epoch says of offset o still stands.
Stands(p, epoch, o) == epoch = p.epoch \/ \A r \in Since(p, epoch) : o < r.at

\* An epoch of the part: its own, or one that a reset has replaced since.
EpochOf(p, epoch) ==
  epoch \in p.first .. p.epoch /\ (epoch = p.epoch \/ Since(p, epoch) # {})

\* A range on its way was read in an epoch of the part, and what stands of it is behind
\* the position.
SpanOf(p, g) ==
  /\ g \in Span /\ EpochOf(p, g.epoch)
  /\ g.from < g.to /\ (\A r \in g.records : r[1] < g.to)
  /\ \A o \in g.from .. g.to - 1 : Stands(p, g.epoch, o) => o < p.at

\* A part, the next epoch and what deliver holds.
ReadInv(p, next, held) ==
  /\ PartInv(p) /\ p.epoch < next
  /\ p.buffer # Nothing => p.buffer.epoch = p.epoch /\ SpanOf(p, p.buffer)
  /\ held # Nothing => SpanOf(p, held)
  /\ p.kind = "start" => p.buffer = Nothing /\ held = Nothing /\ p.resets = {}

\* Everything below the position is done, buffered, or held by deliver.
Covers(p, g, o) == g # Nothing /\ o \in g.from .. g.to - 1 /\ Stands(p, g.epoch, o)
CoverInv(p, held) ==
  \A o \in Offset : o < p.at => o \in Done(p) \/ Covers(p, held, o) \/ Covers(p, p.buffer, o)

\* The offsets that may be committed past: gone, not yet written, silent or delivered.
Good ==
  {o \in Nat : \/ o < logStart \/ o >= LogEnd \/ o \in Silent
               \/ <<o, log[o + 1]>> \in accepted \union overtaken}

\* With good the offsets that may be committed past and l the log: what is done is good,
\* and what stands of a range is good, or will be once its records are accepted.
SpanGood(p, g, good, l) ==
  \A o \in g.from .. g.to - 1 :
    Stands(p, g.epoch, o) => o \in good \/ <<o, l[o + 1]>> \in g.records
GoodInv(p, held, good, l) ==
  /\ \A o \in Done(p) : o \in good
  /\ p.buffer # Nothing => SpanGood(p, p.buffer, good, l)
  /\ held # Nothing => SpanGood(p, held, good, l)
Below(offset, good) == \A o \in Nat : o < offset => o \in good

\* The form of an answer, and what it says of the log.
AnswerForm(a) ==
  /\ a.answer.code = "ok" => /\ a.kind = "at" /\ a.at < a.to /\ a.to = a.answer.to
                            /\ \A r \in a.answer.records : r[1] < a.to
  /\ a.answer.code = "outOfRange" => a.kind = "at"
  /\ a.answer.code = "range" => a.kind # "at" /\ a.answer.from <= a.to
AnswerGood(a, good, l) ==
  /\ a.answer.code = "ok" =>
       \A o \in a.at .. a.to - 1 : o \in good \/ <<o, l[o + 1]>> \in a.answer.records
  /\ a.answer.code = "range" => Below(a.answer.from, good)

\* Which pieces of a member exist at each place of its task.
PlaceInv(m) ==
  /\ pc[m] \in {"join", "wait", "assigned", "spare", "left"} => part[m] = NoPart
  /\ out[m] # Nothing <=> pc[m] = "deliver"
  /\ request[m] # Nothing <=> pc[m] \in {"commit", "finalCommit"}
  /\ pc[m] \in {"deliver", "commit", "finalCommit"} => part[m] # NoPart

MemberInv(m) ==
  /\ PlaceInv(m)
  /\ \A a \in asks[m] : a.epoch <= shared[m] /\ AnswerForm(a)
  /\ part[m] # NoPart => ReadInv(part[m], epochs[m], out[m])
  /\ Fetching(m) /\ signal[m] = "none" => CoverInv(part[m], out[m])

\* Of a member the coordinator knows.
MemberGood(m) ==
  /\ request[m] # Nothing => Below(request[m].offset, Good)
  /\ part[m] # NoPart =>
       /\ GoodInv(part[m], out[m], Good, log)
       /\ \A a \in asks[m] : a.epoch = shared[m] => AnswerGood(a, Good, log)

IInv ==
  /\ TypeOK
  /\ \A m \in Members : MemberInv(m)
  /\ Below(committed, Good)
  /\ \A m \in group.members : MemberGood(m)

-----------------------------------------------------------------------------
(* The tracker and the resets.                                             *)

\* A set of numbers that is not empty has a least element.
LEMMA Least ==
  ASSUME NEW S \in SUBSET Nat, S # {}
  PROVE  \E x \in S : \A y \in S : x <= y
<1>1. IsWellFoundedOn(OpToRel(<, Nat), Nat)
  BY NatLessThanWellFounded
<1>2. \E x \in S : \A y \in S : ~(<<y, x>> \in OpToRel(<, Nat))
  BY <1>1, WFMin, Zenon
<1>3. \A x, y \in Nat : ~(<<y, x>> \in OpToRel(<, Nat)) => x <= y
  BY DEF OpToRel
<1> QED
  BY <1>2, <1>3

\* Frontier is the first offset from the candidate on that is not done.
LEMMA FrontierFacts ==
  ASSUME NEW c \in Offset, NEW d \in SUBSET Nat, \A o \in d : o < MaxOffset
  PROVE  /\ Frontier(c, d) \in c .. MaxOffset
         /\ Frontier(c, d) \notin d
         /\ \A o \in c .. Frontier(c, d) - 1 : o \in d
<1>0. MaxOffset \in Nat
  BY KafkaConstants
<1> DEFINE S == {x \in c .. MaxOffset : x \notin d}
<1>1. S \in SUBSET Nat /\ MaxOffset \in S
  BY <1>0 DEF Offset
<1>2. PICK x \in S : \A y \in S : x <= y
  BY <1>1, Least
<1>3. x \in c .. MaxOffset /\ x \notin d /\ \A o \in c .. x - 1 : o \in d
  BY <1>0, <1>1, <1>2 DEF Offset
<1> QED
  BY <1>3 DEF Frontier

\* Marking a range below a position n leaves the rest of the part alone, does exactly the
\* range more, and keeps the tracker behind n.
LEMMA MarkFacts ==
  ASSUME NEW p, PartInv(p), NEW from \in Nat, NEW to \in Nat, NEW n \in Offset,
         p.at <= n, to <= n
  PROVE  \E c, d : /\ Mark(p, from, to) = [p EXCEPT !.candidate = c, !.done = d]
                   /\ Tracked(c, d, n)
                   /\ \A o \in Offset : (o < c \/ o \in d) <=> (o \in Done(p) \/ o \in from .. to - 1)
<1>0. MaxOffset \in Nat /\ n \in Nat /\ n <= MaxOffset
  BY KafkaConstants DEF Offset
<1>1. /\ p \in Part /\ p.candidate \in Offset /\ p.done \in SUBSET Offset
      /\ p.at \in Nat /\ p.candidate <= p.at
      /\ \A o \in p.done : p.candidate < o /\ o < p.at
  BY DEF PartInv, Tracked, Part, Offset
<1>2. CASE to <= from \/ to <= p.candidate
  <2>1. Mark(p, from, to) = p
    BY <1>2 DEF Mark
  <2>2. p = [p EXCEPT !.candidate = p.candidate, !.done = p.done]
    BY <1>1 DEF Part
  <2>3. Tracked(p.candidate, p.done, n)
    BY <1>0, <1>1 DEF Tracked, Offset
  <2>4. \A o \in Offset : (o < p.candidate \/ o \in p.done) <=> (o \in Done(p) \/ o \in from .. to - 1)
    BY <1>0, <1>1, <1>2 DEF Done, Offset
  <2> QED
    BY <2>1, <2>2, <2>3, <2>4
<1>3. CASE ~(to <= from \/ to <= p.candidate)
  <2> DEFINE all == p.done \union (from .. to - 1)
             x == Frontier(p.candidate, all)
             rest == {o \in all : o > x}
  <2>1. Mark(p, from, to) = [p EXCEPT !.candidate = x, !.done = rest]
    BY <1>3 DEF Mark
  <2>2. all \in SUBSET Nat /\ (\A o \in all : o < n) /\ (\A o \in all : o < MaxOffset)
    BY <1>0, <1>1 DEF Offset
  <2>3. x \in p.candidate .. MaxOffset /\ x \notin all /\ \A o \in p.candidate .. x - 1 : o \in all
    BY <1>1, <2>2, FrontierFacts
  <2>4. \A o : o \in all <=> o \in p.done \/ o \in from .. to - 1
    OBVIOUS
  <2> HIDE DEF all, x
  <2>5. x <= n
    <3>1. CASE x = p.candidate
      BY <1>0, <1>1, <3>1 DEF Offset
    <3>2. CASE x # p.candidate
      <4>1. x - 1 \in p.candidate .. x - 1
        BY <1>0, <1>1, <2>3, <3>2 DEF Offset
      <4> QED
        BY <1>0, <1>1, <2>2, <2>3, <4>1 DEF Offset
    <3> QED
      BY <3>1, <3>2
  <2>6. Tracked(x, rest, n)
    <3>1. x \in Offset /\ x <= n
      BY <1>0, <1>1, <2>3, <2>5 DEF Offset
    <3>2. \A o \in rest : o \in Offset /\ x < o /\ o < n
      BY <1>0, <2>2, <3>1 DEF Offset
    <3> QED
      BY <3>1, <3>2 DEF Tracked
  <2>7. ASSUME NEW o \in Offset
        PROVE  (o < x \/ o \in rest) <=> (o \in Done(p) \/ o \in from .. to - 1)
    <3>1. o \in Done(p) \/ o \in from .. to - 1 <=> o < p.candidate \/ o \in all
      BY <2>4 DEF Done
    <3>2. o \in Int /\ x \in Int /\ p.candidate \in Int
      BY <1>0, <1>1, <2>3 DEF Offset
    <3>3. o < p.candidate => o < x
      BY <1>0, <1>1, <2>3 DEF Offset
    <3>4. o < x => o < p.candidate \/ o \in all
      BY <1>0, <1>1, <2>3 DEF Offset
    <3>5. o \in all => o # x
      BY <2>3
    <3> QED
      BY <3>1, <3>2, <3>3, <3>4, <3>5
  <2> QED
    BY <2>1, <2>6, <2>7
<1> QED
  BY <1>2, <1>3

\* Accepting a range read in one of the part's epochs does the offsets of it that still
\* stand, and no others.
LEMMA AcceptFacts ==
  ASSUME NEW p, PartInv(p), NEW epoch, EpochOf(p, epoch),
         NEW from \in Nat, NEW to \in Nat, from < to,
         \A o \in from .. to - 1 : Stands(p, epoch, o) => o < p.at
  PROVE  \E c, d : /\ AcceptIn(p, epoch, from, to) = [p EXCEPT !.candidate = c, !.done = d]
                   /\ Tracked(c, d, p.at)
                   /\ \A o \in Offset :
                        (o < c \/ o \in d)
                          <=> (o \in Done(p) \/ (o \in from .. to - 1 /\ Stands(p, epoch, o)))
<1>0. MaxOffset \in Nat
  BY KafkaConstants
<1>1. /\ p \in Part /\ p.at \in Offset /\ p.at \in Nat /\ p.epoch \in Nat /\ p.first \in Nat
      /\ p.resets \in SUBSET Resets /\ Rising(p)
  BY DEF PartInv, Part, Offset
<1>2. CASE epoch = p.epoch
  <2>1. AcceptIn(p, epoch, from, to) = Mark(p, from, to)
    BY <1>2 DEF AcceptIn
  <2>2. \A o : Stands(p, epoch, o)
    BY <1>2 DEF Stands
  <2>3. to - 1 < p.at
    BY <2>2
  <2>4. to <= p.at /\ p.at <= p.at
    BY <1>1, <2>3
  <2>5. PICK c, d : /\ Mark(p, from, to) = [p EXCEPT !.candidate = c, !.done = d]
                    /\ Tracked(c, d, p.at)
                    /\ \A o \in Offset : (o < c \/ o \in d)
                         <=> (o \in Done(p) \/ o \in from .. to - 1)
    BY <1>1, <2>4, MarkFacts
  <2> QED
    BY <2>1, <2>2, <2>5
<1>3. CASE epoch # p.epoch
  <2>1. epoch \in p.first .. p.epoch /\ Since(p, epoch) # {} /\ epoch \in p.first .. p.epoch - 1
    BY <1>1, <1>3 DEF EpochOf
  <2> DEFINE S == {r.replaced : r \in Since(p, epoch)}
             first(r) == \A s \in Since(p, epoch) : r.replaced <= s.replaced
             r0 == CHOOSE r \in Since(p, epoch) : first(r)
             end == Lower(to, Cut(p, epoch))
  <2>2. Since(p, epoch) \in SUBSET Resets /\ \A r \in Since(p, epoch) : r \in p.resets
    BY <1>1 DEF Since
  <2>3. S \in SUBSET Nat /\ S # {}
    BY <2>1, <2>2 DEF Resets
  <2>4. \E r \in Since(p, epoch) : first(r)
    <3>1. PICK x \in S : \A y \in S : x <= y
      BY <2>3, Least
    <3> QED
      BY <3>1
  <2>5. r0 \in Since(p, epoch) /\ first(r0)
    BY <2>4
  <2>6. Cut(p, epoch) = r0.at
    BY DEF Cut
  <2> HIDE DEF r0
  <2>7. r0.at \in Nat /\ r0.at <= p.at
    BY <1>1, <2>2, <2>5 DEF Resets, Rising
  <2>8. \A s \in Since(p, epoch) : r0.at <= s.at /\ s.at \in Nat
    <3> TAKE s \in Since(p, epoch)
    <3>1. r0 \in p.resets /\ s \in p.resets /\ r0.replaced <= s.replaced
          /\ s.at \in Nat /\ r0.replaced \in Nat /\ s.replaced \in Nat
      BY <2>2, <2>5 DEF Resets
    <3>2. r0.replaced = s.replaced \/ r0.replaced < s.replaced
      BY <3>1
    <3>3. r0 = s \/ r0.at < s.at
      BY <1>1, <3>1, <3>2 DEF Rising
    <3> QED
      BY <2>7, <3>1, <3>3
  <2>9. \A o \in Nat : Stands(p, epoch, o) <=> o < r0.at
    BY <1>3, <2>5, <2>7, <2>8 DEF Stands
  <2>10. end \in Nat /\ end <= p.at /\ \A o \in Nat : o \in from .. end - 1 <=> o \in from .. to - 1 /\ o < r0.at
    BY <1>1, <2>6, <2>7 DEF Lower
  <2>11. AcceptIn(p, epoch, from, to) = Mark(p, from, end)
    BY <1>3, <2>1 DEF AcceptIn
  <2> HIDE DEF end
  <2>12. PICK c, d : /\ Mark(p, from, end) = [p EXCEPT !.candidate = c, !.done = d]
                     /\ Tracked(c, d, p.at)
                     /\ \A o \in Offset : (o < c \/ o \in d)
                          <=> (o \in Done(p) \/ o \in from .. end - 1)
    <3>1. p.at <= p.at
      BY <1>1
    <3> QED
      BY <1>1, <2>10, <3>1, MarkFacts
  <2>13. \A o \in Offset : o \in from .. end - 1 <=> o \in from .. to - 1 /\ Stands(p, epoch, o)
    BY <2>9, <2>10 DEF Offset
  <2> QED
    BY <2>11, <2>12, <2>13
<1> QED
  BY <1>2, <1>3

\* The part resolve leaves behind a log that ends before its position.
ResetTo(p, to, epoch) == [Reset(p, to, epoch) EXCEPT !.kind = "at", !.at = to]

\* A reset forgets what was done from the new position on, and of a range read before it
\* only the offsets below the new position still stand.
LEMMA ResetFacts ==
  ASSUME NEW p, PartInv(p), p.buffer = Nothing, NEW to \in Offset, to < p.at,
         NEW epoch \in Nat, p.epoch < epoch
  PROVE  /\ PartInv(ResetTo(p, to, epoch))
         /\ ResetTo(p, to, epoch).epoch = epoch /\ ResetTo(p, to, epoch).at = to
         /\ ResetTo(p, to, epoch).buffer = Nothing
         /\ \A o \in Offset : o \in Done(ResetTo(p, to, epoch)) <=> o \in Done(p) /\ o < to
         /\ \A e : EpochOf(p, e) =>
              /\ EpochOf(ResetTo(p, to, epoch), e)
              /\ \A o \in Nat : Stands(ResetTo(p, to, epoch), e, o) <=> Stands(p, e, o) /\ o < to
<1>0. MaxOffset \in Nat /\ to \in Nat
  BY KafkaConstants DEF Offset
<1>1. /\ p \in Part /\ p.at \in Nat /\ p.epoch \in Nat /\ p.first \in Nat
      /\ p.resets \in SUBSET Resets /\ Rising(p) /\ p.candidate \in Nat
      /\ p.candidate \in Offset /\ p.done \in SUBSET Offset
      /\ p.candidate <= p.at /\ \A o \in p.done : p.candidate < o /\ o < p.at
  BY DEF PartInv, Part, Offset, Tracked
<1> DEFINE q == ResetTo(p, to, epoch)
           kept == {r \in p.resets : r.at < to}
           new == [replaced |-> p.epoch, at |-> to]
           lowered == {[replaced |-> r.replaced, at |-> Lower(r.at, to)] : r \in p.resets}
<1>2. {r \in lowered : r.at # to} = kept
  <2>1. \A r \in p.resets : r.at \in Nat /\ r = [replaced |-> r.replaced, at |-> r.at]
    BY <1>1 DEF Resets
  <2>2. \A r \in p.resets : Lower(r.at, to) # to => r.at < to /\ Lower(r.at, to) = r.at
    BY <1>0, <2>1 DEF Lower
  <2>3. \A r \in p.resets : r.at < to => Lower(r.at, to) = r.at
    BY <2>1 DEF Lower
  <2>4. ASSUME NEW x \in lowered, x.at # to PROVE x \in kept
    <3>1. PICK r \in p.resets : x = [replaced |-> r.replaced, at |-> Lower(r.at, to)]
      BY <2>4
    <3>2. x.at = Lower(r.at, to)
      BY <3>1
    <3> QED
      BY <2>1, <2>2, <2>4, <3>1, <3>2
  <2>5. ASSUME NEW x \in kept PROVE x \in lowered /\ x.at # to
    <3>1. x \in p.resets /\ x.at < to
      OBVIOUS
    <3>2. x = [replaced |-> x.replaced, at |-> Lower(x.at, to)]
      BY <2>1, <2>3, <3>1
    <3> QED
      BY <1>0, <2>1, <3>1, <3>2
  <2> QED
    BY <2>4, <2>5
<1>3. q = [p EXCEPT !.candidate = Lower(p.candidate, to), !.done = {o \in p.done : o < to},
                    !.resets = kept \union {new}, !.epoch = epoch, !.kind = "at", !.at = to]
  BY <1>1, <1>2 DEF ResetTo, Reset, Part
<1>4. /\ q.candidate = Lower(p.candidate, to) /\ q.done = {o \in p.done : o < to}
      /\ q.resets = kept \union {new} /\ q.epoch = epoch /\ q.at = to /\ q.first = p.first
      /\ q.buffer = Nothing
  BY <1>1, <1>3 DEF Part
<1>5. new \in Resets /\ new.replaced = p.epoch /\ new.at = to
  BY <1>0, <1>1 DEF Resets
<1>6. Lower(p.candidate, to) \in Offset /\ Lower(p.candidate, to) <= to
      /\ Lower(p.candidate, to) <= p.candidate /\ Lower(p.candidate, to) \in Nat
      /\ \A o \in Nat : o < Lower(p.candidate, to) <=> o < p.candidate /\ o < to
  BY <1>0, <1>1 DEF Lower, Offset
<1>7. q \in Part
  <2>1. kept \union {new} \in SUBSET Resets
    BY <1>1, <1>5
  <2>2. {o \in p.done : o < to} \in SUBSET Offset /\ "at" \in Kinds
    BY <1>1 DEF Kinds
  <2> HIDE DEF kept, new, q
  <2> QED
    BY <1>1, <1>3, <1>6, <2>1, <2>2 DEF Part
<1> HIDE DEF q, new
<1>8. Tracked(q.candidate, q.done, q.at)
  <2>1. \A o \in q.done : q.candidate < o /\ o < q.at
    <3> TAKE o \in q.done
    <3>1. o \in p.done /\ o < to /\ o \in Nat
      BY <1>1, <1>4 DEF Offset
    <3> QED
      BY <1>1, <1>4, <1>6, <3>1
  <2>2. q.done \in SUBSET Offset
    BY <1>1, <1>4
  <2> QED
    BY <1>4, <1>6, <2>1, <2>2 DEF Tracked
<1>9. Rising(q)
  <2>1. \A r \in q.resets : (r \in p.resets /\ r.at < to) \/ r = new
    BY <1>4
  <2>2. \A r \in p.resets : r.replaced \in Nat /\ r.at \in Nat /\ p.first <= r.replaced /\ r.replaced < p.epoch
    BY <1>1 DEF Rising, Resets
  <2>3. q.first <= q.epoch /\ p.first <= p.epoch
    BY <1>1, <1>4 DEF Rising
  <2>4. \A r \in q.resets : q.first <= r.replaced /\ r.replaced < q.epoch /\ r.at <= q.at
    BY <1>0, <1>1, <1>4, <1>5, <2>1, <2>2, <2>3
  <2>5. \A r, s \in q.resets : r.replaced < s.replaced => r.at < s.at
    <3> TAKE r, s \in q.resets
    <3> HAVE r.replaced < s.replaced
    <3>1. CASE r = new
      <4>1. s.replaced <= p.epoch /\ s.replaced \in Nat
        BY <1>1, <1>5, <2>1, <2>2
      <4> QED
        BY <1>1, <1>5, <3>1, <4>1
    <3>2. CASE r # new /\ s = new
      BY <1>5, <2>1, <3>2
    <3>3. CASE r # new /\ s # new
      BY <1>1, <2>1, <3>3 DEF Rising
    <3> QED
      BY <3>1, <3>2, <3>3
  <2>6. \A r, s \in q.resets : r.replaced = s.replaced => r = s
    <3> TAKE r, s \in q.resets
    <3> HAVE r.replaced = s.replaced
    <3>1. \A x \in p.resets : x.replaced # p.epoch
      BY <1>1, <2>2
    <3> QED
      BY <1>1, <1>5, <2>1, <3>1 DEF Rising
  <2> QED
    BY <2>3, <2>4, <2>5, <2>6 DEF Rising
<1>10. \A o \in Offset : o \in Done(q) <=> o \in Done(p) /\ o < to
  <2> TAKE o \in Offset
  <2>1. o \in Nat
    BY DEF Offset
  <2>2. o \in q.done <=> o \in p.done /\ o < to
    BY <1>4
  <2>3. o < q.candidate <=> o < p.candidate /\ o < to
    BY <1>4, <1>6, <2>1
  <2> QED
    BY <2>2, <2>3 DEF Done
<1>11. ASSUME NEW e, EpochOf(p, e)
       PROVE  EpochOf(q, e) /\ \A o \in Nat : Stands(q, e, o) <=> Stands(p, e, o) /\ o < to
  <2>1. e \in Int /\ p.first <= e /\ e <= p.epoch /\ e # q.epoch
    BY <1>1, <1>4, <1>11 DEF EpochOf
  <2>2. new \in Since(q, e)
    BY <1>1, <1>4, <1>5, <2>1 DEF Since
  <2>3. EpochOf(q, e)
    BY <1>1, <1>4, <2>1, <2>2 DEF EpochOf
  <2>4. ASSUME NEW o \in Nat PROVE Stands(q, e, o) <=> Stands(p, e, o) /\ o < to
    <3>1. Stands(q, e, o) <=> \A r \in Since(q, e) : o < r.at
      BY <2>1 DEF Stands
    <3>2. Since(q, e) = {r \in Since(p, e) : r.at < to} \union {new}
      BY <1>4, <2>2 DEF Since
    <3>3. \A r \in Since(p, e) : r.at \in Nat /\ r \in p.resets /\ r.replaced >= e /\ r.replaced \in Nat
      BY <1>1 DEF Since, Resets
    <3>4. Stands(q, e, o) <=> o < to /\ \A r \in Since(p, e) : r.at < to => o < r.at
      BY <1>5, <3>1, <3>2
    <3>5. o < to => \A r \in Since(p, e) : ~(r.at < to) => o < r.at
      BY <1>0, <3>3
    <3>6. CASE e = p.epoch
      <4>1. \A r \in p.resets : r.replaced \in Nat /\ r.replaced < p.epoch
        BY <1>1 DEF Rising, Resets
      <4>2. Since(p, e) = {}
        BY <1>1, <3>3, <3>6, <4>1
      <4> QED
        BY <3>4, <3>6, <4>2 DEF Stands
    <3>7. CASE e # p.epoch
      BY <3>4, <3>5, <3>7 DEF Stands
    <3> QED
      BY <3>6, <3>7
  <2> QED
    BY <2>3, <2>4
<1>12. PartInv(q)
  BY <1>7, <1>8, <1>9 DEF PartInv
<1> QED
  BY <1>4, <1>10, <1>11, <1>12 DEF q

-----------------------------------------------------------------------------
(* What a step of the member does to its part.                             *)

\* The records of the model are told apart by their fields.
LEMMA NotNothing ==
  /\ \A g \in Span : g # Nothing
  /\ \A p \in Part : p # NoPart
  /\ \A c \in Commit : c # Nothing
BY DEF Span, Part, Commit, Nothing, NoPart

\* The epochs of a part, and what stands of a range, depend on its epochs and resets.
LEMMA StandsSame ==
  ASSUME NEW p, NEW q, q.epoch = p.epoch, q.first = p.first, q.resets = p.resets
  PROVE  /\ \A e : EpochOf(q, e) <=> EpochOf(p, e)
         /\ \A e, o : Stands(q, e, o) <=> Stands(p, e, o)
BY DEF EpochOf, Stands, Since

\* Two parts with one tracker, one position and one list of resets.
SameTracker(p, q) ==
  /\ q \in Part /\ q.epoch = p.epoch /\ q.first = p.first /\ q.resets = p.resets
  /\ q.at = p.at /\ q.candidate = p.candidate /\ q.done = p.done

\* A range of a part is a range of another with the same tracker.
LEMMA SpanSame ==
  ASSUME NEW p, NEW q, SameTracker(p, q)
  PROVE  /\ PartInv(p) => PartInv(q)
         /\ Done(q) = Done(p)
         /\ \A g : SpanOf(p, g) => SpanOf(q, g)
         /\ \A g, o : Covers(p, g, o) => Covers(q, g, o)
         /\ \A g, good, l : SpanGood(p, g, good, l) => SpanGood(q, g, good, l)
<1>1. /\ \A e : EpochOf(q, e) <=> EpochOf(p, e)
      /\ \A e, o : Stands(q, e, o) <=> Stands(p, e, o)
  BY StandsSame DEF SameTracker
<1>2. PartInv(p) => PartInv(q)
  BY DEF SameTracker, PartInv, Rising
<1>3. Done(q) = Done(p)
  BY DEF SameTracker, Done
<1>4. \A g : SpanOf(p, g) => SpanOf(q, g)
  BY <1>1 DEF SameTracker, SpanOf
<1>5. \A g, o : Covers(p, g, o) => Covers(q, g, o)
  BY <1>1 DEF Covers
<1>6. \A g, good, l : SpanGood(p, g, good, l) => SpanGood(q, g, good, l)
  BY <1>1 DEF SpanGood
<1> QED
  BY <1>2, <1>3, <1>4, <1>5, <1>6

\* A step that leaves the tracker alone, and drops the buffer or what deliver holds or
\* neither, keeps the part's invariant; if it drops neither, all stays covered.
LEMMA KeepTracker ==
  ASSUME NEW p, NEW q, NEW next, NEW held, NEW kept, NEW good, NEW l,
         ReadInv(p, next, held), SameTracker(p, q),
         q.buffer = p.buffer \/ q.buffer = Nothing, kept = held \/ kept = Nothing,
         q.kind = "start" => p.kind = "start"
  PROVE  /\ ReadInv(q, next, kept)
         /\ GoodInv(p, held, good, l) => GoodInv(q, kept, good, l)
         /\ q.buffer = p.buffer /\ kept = held /\ CoverInv(p, held) => CoverInv(q, kept)
<1>1. /\ PartInv(p) => PartInv(q)
      /\ Done(q) = Done(p)
      /\ \A g : SpanOf(p, g) => SpanOf(q, g)
      /\ \A g, o : Covers(p, g, o) => Covers(q, g, o)
      /\ \A g : SpanGood(p, g, good, l) => SpanGood(q, g, good, l)
  BY SpanSame
<1>2. ReadInv(q, next, kept)
  BY <1>1 DEF ReadInv, SameTracker
<1>3. GoodInv(p, held, good, l) => GoodInv(q, kept, good, l)
  BY <1>1 DEF GoodInv
<1>4. q.buffer = p.buffer /\ kept = held /\ CoverInv(p, held) => CoverInv(q, kept)
  BY <1>1 DEF CoverInv, SameTracker
<1> QED
  BY <1>2, <1>3, <1>4

\* take_buffer: the buffer becomes what deliver holds.
LEMMA TakeFacts ==
  ASSUME NEW p, NEW next, NEW good, NEW l,
         ReadInv(p, next, Nothing), p.buffer # Nothing
  PROVE  /\ Stopped(p) \in Part
         /\ ReadInv(Stopped(p), next, p.buffer)
         /\ GoodInv(p, Nothing, good, l) => GoodInv(Stopped(p), p.buffer, good, l)
         /\ CoverInv(p, Nothing) => CoverInv(Stopped(p), p.buffer)
<1> DEFINE q == Stopped(p)
<1>1. p \in Part /\ p # NoPart
  BY NotNothing DEF ReadInv, PartInv
<1>2. q = [p EXCEPT !.buffer = Nothing]
  BY <1>1 DEF Stopped
<1>3. SameTracker(p, q) /\ q.buffer = Nothing /\ q.kind = p.kind
  BY <1>1, <1>2 DEF SameTracker, Part
<1> HIDE DEF q
<1>4. /\ PartInv(p) => PartInv(q)
      /\ Done(q) = Done(p)
      /\ \A g : SpanOf(p, g) => SpanOf(q, g)
      /\ \A g, o : Covers(p, g, o) => Covers(q, g, o)
      /\ \A g : SpanGood(p, g, good, l) => SpanGood(q, g, good, l)
  BY <1>3, SpanSame
<1>5. ReadInv(q, next, p.buffer)
  BY <1>3, <1>4 DEF ReadInv, SameTracker
<1>6. GoodInv(p, Nothing, good, l) => GoodInv(q, p.buffer, good, l)
  BY <1>3, <1>4 DEF GoodInv
<1>7. CoverInv(p, Nothing) => CoverInv(q, p.buffer)
  BY <1>3, <1>4 DEF CoverInv, SameTracker, Covers
<1>8. q \in Part
  BY <1>3 DEF SameTracker
<1> QED
  BY <1>5, <1>6, <1>7, <1>8 DEF q

\* The position moves to n over offsets the tracker marks: records that need no delivery,
\* or offsets retention has taken.
LEMMA SkipFacts ==
  ASSUME NEW p, NEW next, NEW held, NEW good, NEW l, NEW n \in Offset,
         ReadInv(p, next, held), p.buffer = Nothing, p.kind # "start", p.at < n
  PROVE  LET q == [Mark(p, p.at, n) EXCEPT !.kind = "at", !.at = n] IN
         /\ q \in Part /\ ReadInv(q, next, held) /\ q.epoch = p.epoch
         /\ CoverInv(p, held) => CoverInv(q, held)
         /\ GoodInv(p, held, good, l) /\ (\A o \in p.at .. n - 1 : o \in good)
              => GoodInv(q, held, good, l)
<1> DEFINE q == [Mark(p, p.at, n) EXCEPT !.kind = "at", !.at = n]
<1>0. MaxOffset \in Nat /\ n \in Nat
  BY KafkaConstants DEF Offset
<1>1. PartInv(p) /\ p \in Part /\ p.at \in Nat
  BY DEF ReadInv, PartInv, Part, Offset
<1>2. PICK c, d : /\ Mark(p, p.at, n) = [p EXCEPT !.candidate = c, !.done = d]
                  /\ Tracked(c, d, n)
                  /\ \A o \in Offset : (o < c \/ o \in d)
                       <=> (o \in Done(p) \/ o \in p.at .. n - 1)
  <2>1. n <= n /\ p.at <= n
    BY <1>0, <1>1
  <2> QED
    BY <1>1, <1>0, <2>1, MarkFacts
<1>3. c \in Offset /\ d \in SUBSET Offset /\ "at" \in Kinds /\ "at" # "start"
  BY <1>2 DEF Tracked, Kinds
<1>4. /\ q \in Part /\ q.epoch = p.epoch /\ q.first = p.first /\ q.resets = p.resets
      /\ q.at = n /\ q.candidate = c /\ q.done = d /\ q.buffer = Nothing /\ q.kind = "at"
  BY <1>1, <1>2, <1>3 DEF Part
<1> HIDE DEF q
<1>5. /\ \A e : EpochOf(q, e) <=> EpochOf(p, e)
      /\ \A e, o : Stands(q, e, o) <=> Stands(p, e, o)
  BY <1>4, StandsSame
<1>6. \A o \in Offset : o \in Done(q) <=> (o \in Done(p) \/ o \in p.at .. n - 1)
  BY <1>2, <1>4 DEF Done
<1>7. Rising(q)
  <2>1. \A r \in p.resets : r.at \in Nat
    BY <1>1 DEF Part, Resets
  <2> QED
    BY <1>0, <1>1, <1>4, <2>1 DEF PartInv, Rising
<1>8. PartInv(q)
  BY <1>2, <1>4, <1>7 DEF PartInv
<1>9. held # Nothing => SpanOf(q, held)
  <2> HAVE held # Nothing
  <2>1. SpanOf(p, held)
    BY DEF ReadInv
  <2>2. \A o \in held.from .. held.to - 1 : Stands(q, held.epoch, o) => o < q.at
    <3> TAKE o \in held.from .. held.to - 1
    <3> HAVE Stands(q, held.epoch, o)
    <3>1. o < p.at /\ o \in Int
      BY <1>5, <2>1 DEF SpanOf
    <3> QED
      BY <1>0, <1>1, <1>4, <3>1
  <2> QED
    BY <1>5, <2>1, <2>2 DEF SpanOf
<1>10. ReadInv(q, next, held)
  BY <1>3, <1>4, <1>8, <1>9 DEF ReadInv
<1>11. CoverInv(p, held) => CoverInv(q, held)
  <2> HAVE CoverInv(p, held)
  <2> SUFFICES ASSUME NEW o \in Offset, o < q.at
               PROVE  o \in Done(q) \/ Covers(q, held, o)
    BY DEF CoverInv
  <2>1. CASE o < p.at
    <3>1. o \in Done(p) \/ Covers(p, held, o)
      BY <2>1 DEF CoverInv, Covers
    <3> QED
      BY <1>5, <1>6, <3>1 DEF Covers
  <2>2. CASE ~(o < p.at)
    <3>1. o \in p.at .. n - 1
      BY <1>0, <1>1, <1>4, <2>2 DEF Offset
    <3> QED
      BY <1>6, <3>1
  <2> QED
    BY <2>1, <2>2
<1>12. GoodInv(p, held, good, l) /\ (\A o \in p.at .. n - 1 : o \in good)
         => GoodInv(q, held, good, l)
  <2> HAVE GoodInv(p, held, good, l) /\ \A o \in p.at .. n - 1 : o \in good
  <2>1. \A o \in Done(q) : o \in good
    <3>1. \A o \in Done(q) : o \in Offset
      BY DEF Done
    <3> QED
      BY <1>6, <3>1 DEF GoodInv
  <2>2. held # Nothing => SpanGood(q, held, good, l)
    BY <1>5 DEF GoodInv, SpanGood
  <2> QED
    BY <1>4, <2>1, <2>2 DEF GoodInv
<1> QED
  BY <1>4, <1>10, <1>11, <1>12 DEF q

\* A good answer with records: the position moves over them and the buffer holds them.
LEMMA BufferFacts ==
  ASSUME NEW p, NEW next, NEW held, NEW good, NEW l, NEW n \in Offset, NEW R \in SUBSET Pairs,
         ReadInv(p, next, held), p.buffer = Nothing, p.kind # "start", p.at < n,
         \A r \in R : r[1] < n
  PROVE  LET q == [p EXCEPT !.at = n, !.buffer = [epoch |-> p.epoch, from |-> p.at, to |-> n,
                                                  records |-> R]] IN
         /\ q \in Part /\ ReadInv(q, next, held) /\ q.epoch = p.epoch
         /\ CoverInv(p, held) => CoverInv(q, held)
         /\ GoodInv(p, held, good, l)
              /\ (\A o \in p.at .. n - 1 : o \in good \/ <<o, l[o + 1]>> \in R)
              => GoodInv(q, held, good, l)
<1> DEFINE b == [epoch |-> p.epoch, from |-> p.at, to |-> n, records |-> R]
           q == [p EXCEPT !.at = n, !.buffer = b]
<1>0. MaxOffset \in Nat /\ n \in Nat
  BY KafkaConstants DEF Offset
<1>1. PartInv(p) /\ p \in Part /\ p.at \in Nat /\ p.epoch \in Nat /\ p.first \in Nat
      /\ p.candidate \in Offset /\ p.candidate \in Nat
  BY DEF ReadInv, PartInv, Part, Offset
<1>2. b \in Span /\ b.epoch = p.epoch /\ b.from = p.at /\ b.to = n /\ b.records = R
  BY <1>0, <1>1 DEF Span
<1> HIDE DEF b
<1>3. b # Nothing
  BY <1>2, NotNothing
<1>4. /\ q \in Part /\ q.epoch = p.epoch /\ q.first = p.first /\ q.resets = p.resets
      /\ q.at = n /\ q.candidate = p.candidate /\ q.done = p.done /\ q.buffer = b
      /\ q.kind = p.kind
  BY <1>1, <1>2 DEF Part
<1> HIDE DEF q
<1>5. /\ \A e : EpochOf(q, e) <=> EpochOf(p, e)
      /\ \A e, o : Stands(q, e, o) <=> Stands(p, e, o)
  BY <1>4, StandsSame
<1>6. Done(q) = Done(p)
  BY <1>4 DEF Done
<1>7. Rising(q)
  <2>1. \A r \in p.resets : r.at \in Nat
    BY <1>1 DEF Part, Resets
  <2> QED
    BY <1>0, <1>1, <1>4, <2>1 DEF PartInv, Rising
<1>8. PartInv(q)
  <2>1. \A o \in p.done : o \in Nat
    BY <1>1 DEF Part, Offset
  <2>2. Tracked(q.candidate, q.done, q.at)
    BY <1>0, <1>1, <1>4, <2>1 DEF PartInv, Tracked
  <2> QED
    BY <1>4, <1>7, <2>2 DEF PartInv
<1>9. held # Nothing => SpanOf(q, held)
  <2> HAVE held # Nothing
  <2>1. SpanOf(p, held)
    BY DEF ReadInv
  <2>2. \A o \in held.from .. held.to - 1 : Stands(q, held.epoch, o) => o < q.at
    <3> TAKE o \in held.from .. held.to - 1
    <3> HAVE Stands(q, held.epoch, o)
    <3>1. o < p.at /\ o \in Int
      BY <1>5, <2>1 DEF SpanOf
    <3> QED
      BY <1>0, <1>1, <1>4, <3>1
  <2> QED
    BY <1>5, <2>1, <2>2 DEF SpanOf
<1>10. SpanOf(q, b)
  <2>1. EpochOf(q, b.epoch)
    <3>1. p.first <= p.epoch
      BY <1>1 DEF PartInv, Rising
    <3> QED
      BY <1>1, <1>2, <1>4, <3>1 DEF EpochOf
  <2>2. \A o \in b.from .. b.to - 1 : o < q.at
    BY <1>0, <1>1, <1>2, <1>4
  <2> QED
    BY <1>2, <2>1, <2>2 DEF SpanOf
<1>11. ReadInv(q, next, held)
  BY <1>2, <1>4, <1>8, <1>9, <1>10 DEF ReadInv
<1>12. CoverInv(p, held) => CoverInv(q, held)
  <2> HAVE CoverInv(p, held)
  <2> SUFFICES ASSUME NEW o \in Offset, o < q.at
               PROVE  o \in Done(q) \/ Covers(q, held, o) \/ Covers(q, q.buffer, o)
    BY DEF CoverInv
  <2>1. CASE o < p.at
    <3>1. o \in Done(p) \/ Covers(p, held, o)
      BY <2>1 DEF CoverInv, Covers
    <3> QED
      BY <1>5, <1>6, <3>1 DEF Covers
  <2>2. CASE ~(o < p.at)
    <3>1. o \in b.from .. b.to - 1
      BY <1>0, <1>1, <1>2, <1>4, <2>2 DEF Offset
    <3> QED
      BY <1>2, <1>3, <1>4, <3>1 DEF Covers, Stands
  <2> QED
    BY <2>1, <2>2
<1>13. GoodInv(p, held, good, l)
         /\ (\A o \in p.at .. n - 1 : o \in good \/ <<o, l[o + 1]>> \in R)
         => GoodInv(q, held, good, l)
  <2> HAVE GoodInv(p, held, good, l)
         /\ (\A o \in p.at .. n - 1 : o \in good \/ <<o, l[o + 1]>> \in R)
  <2>1. \A o \in Done(q) : o \in good
    BY <1>6 DEF GoodInv
  <2>2. held # Nothing => SpanGood(q, held, good, l)
    BY <1>5 DEF GoodInv, SpanGood
  <2>3. SpanGood(q, b, good, l)
    BY <1>2 DEF SpanGood
  <2> QED
    BY <1>4, <2>1, <2>2, <2>3 DEF GoodInv
<1> QED
  BY <1>4, <1>11, <1>12, <1>13 DEF q, b

\* The log has ended before the position: the part is reset to its end.
LEMMA ResetKeeps ==
  ASSUME NEW p, NEW next \in Nat, NEW held, NEW good, NEW l, NEW n \in Offset,
         ReadInv(p, next, held), p.buffer = Nothing, p.kind # "start", n < p.at
  PROVE  LET q == ResetTo(p, n, next) IN
         /\ q \in Part /\ ReadInv(q, next + 1, held) /\ q.epoch = next
         /\ CoverInv(p, held) => CoverInv(q, held)
         /\ GoodInv(p, held, good, l) => GoodInv(q, held, good, l)
<1> DEFINE q == ResetTo(p, n, next)
<1>1. PartInv(p) /\ p.epoch < next /\ p \in Part /\ p.at \in Nat
  BY DEF ReadInv, PartInv, Part, Offset
<1>2. /\ PartInv(q) /\ q.epoch = next /\ q.at = n /\ q.buffer = Nothing
      /\ \A o \in Offset : o \in Done(q) <=> o \in Done(p) /\ o < n
      /\ \A e : EpochOf(p, e) =>
           /\ EpochOf(q, e)
           /\ \A o \in Nat : Stands(q, e, o) <=> Stands(p, e, o) /\ o < n
  BY <1>1, ResetFacts
<1>3. q.kind = "at"
  <2>1. Reset(p, n, next) = [Reset(p, n, next) EXCEPT !.epoch = next] /\ q \in Part
    BY <1>1, <1>2 DEF Reset, PartInv, Part
  <2> QED
    BY <1>1, <2>1 DEF ResetTo, Reset, Part
<1> HIDE DEF q
<1>4. held # Nothing => held \in Span /\ EpochOf(p, held.epoch) /\ held.from < held.to
                        /\ (\A o \in held.from .. held.to - 1 : o \in Nat)
                        /\ \A r \in held.records : r[1] < held.to
  BY DEF ReadInv, SpanOf, Span
<1>5. held # Nothing => SpanOf(q, held)
  BY <1>2, <1>4 DEF SpanOf
<1>6. ReadInv(q, next + 1, held)
  BY <1>2, <1>3, <1>5 DEF ReadInv
<1>7. CoverInv(p, held) => CoverInv(q, held)
  <2> HAVE CoverInv(p, held)
  <2> SUFFICES ASSUME NEW o \in Offset, o < q.at
               PROVE  o \in Done(q) \/ Covers(q, held, o)
    BY DEF CoverInv
  <2>1. o \in Nat /\ o < n /\ o < p.at
    BY <1>1, <1>2 DEF Offset
  <2>2. o \in Done(p) \/ Covers(p, held, o)
    BY <2>1 DEF CoverInv, Covers
  <2> QED
    BY <1>2, <1>4, <2>1, <2>2 DEF Covers
<1>8. GoodInv(p, held, good, l) => GoodInv(q, held, good, l)
  <2> HAVE GoodInv(p, held, good, l)
  <2>1. \A o \in Done(q) : o \in good
    <3>1. \A o \in Done(q) : o \in Offset
      BY DEF Done
    <3> QED
      BY <1>2, <3>1 DEF GoodInv
  <2>2. held # Nothing => SpanGood(q, held, good, l)
    BY <1>2, <1>4 DEF GoodInv, SpanGood
  <2> QED
    BY <1>2, <2>1, <2>2 DEF GoodInv
<1> QED
  BY <1>2, <1>6, <1>7, <1>8 DEF q, PartInv

\* A partition without a commit starts where ListOffsets says: everything before is gone.
LEMMA StartFacts ==
  ASSUME NEW p, NEW next, NEW held, NEW good, NEW l, NEW n \in Offset,
         ReadInv(p, next, held), p.kind = "start"
  PROVE  LET q == [p EXCEPT !.kind = "at", !.at = n, !.candidate = n, !.done = {}, !.last = None] IN
         /\ q \in Part /\ ReadInv(q, next, held) /\ q.epoch = p.epoch
         /\ CoverInv(q, held)
         /\ Below(n, good) => GoodInv(q, held, good, l)
<1> DEFINE q == [p EXCEPT !.kind = "at", !.at = n, !.candidate = n, !.done = {}, !.last = None]
<1>0. MaxOffset \in Nat /\ n \in Nat
  BY KafkaConstants DEF Offset
<1>1. /\ PartInv(p) /\ p \in Part /\ p.buffer = Nothing /\ held = Nothing /\ p.resets = {}
      /\ p.epoch \in Nat /\ p.first \in Nat /\ p.first <= p.epoch
  BY DEF ReadInv, PartInv, Part, Rising
<1>2. None \in Int /\ "at" \in Kinds /\ "at" # "start"
  BY DEF None, Kinds
<1>3. /\ q \in Part /\ q.epoch = p.epoch /\ q.first = p.first /\ q.resets = {}
      /\ q.at = n /\ q.candidate = n /\ q.done = {} /\ q.buffer = Nothing /\ q.kind = "at"
  BY <1>1, <1>2 DEF Part
<1> HIDE DEF q
<1>4. PartInv(q)
  BY <1>0, <1>1, <1>3 DEF PartInv, Tracked, Rising
<1>5. ReadInv(q, next, held)
  BY <1>1, <1>2, <1>3, <1>4 DEF ReadInv
<1>6. \A o \in Offset : o \in Done(q) <=> o < n
  BY <1>3 DEF Done
<1>7. CoverInv(q, held)
  BY <1>3, <1>6 DEF CoverInv
<1>8. Below(n, good) => GoodInv(q, held, good, l)
  BY <1>1, <1>3 DEF Below, GoodInv, Done, Offset
<1> QED
  BY <1>3, <1>5, <1>7, <1>8 DEF q

\* Every way an answer changes the part it was asked for.
LEMMA SettledFacts ==
  ASSUME NEW p, NEW next \in Nat, NEW held, NEW good, NEW l, NEW a \in Query,
         ReadInv(p, next, held), p.buffer = Nothing, a.kind = p.kind, a.at = p.at,
         AnswerForm(a)
  PROVE  LET q == Settled(p, a, next) IN
         /\ q \in Part
         /\ ReadInv(q, IF q.epoch # p.epoch THEN next + 1 ELSE next, held)
         /\ CoverInv(p, held) => CoverInv(q, held)
         /\ GoodInv(p, held, good, l) /\ AnswerGood(a, good, l) => GoodInv(q, held, good, l)
<1> DEFINE q == Settled(p, a, next)
           b == a.answer
<1>0. MaxOffset \in Nat
  BY KafkaConstants
<1>1. PartInv(p) /\ p.epoch < next /\ p \in Part /\ p.at \in Nat /\ p.epoch \in Nat /\ p.at \in Offset
  BY DEF ReadInv, PartInv, Part, Offset
<1>2. /\ a.at \in Offset /\ a.to \in Offset /\ b \in Fetched \union Listed
      /\ b \in Fetched => b.code \in {"ok", "outOfRange"} /\ b.to \in Offset /\ b.records \in SUBSET Pairs
      /\ b \in Listed => b.code = "range" /\ b.from \in Offset /\ b.to \in Offset
  BY DEF Query, Fetched, Listed
<1>3. b.code \in {"ok", "outOfRange", "range"}
      /\ (b.code # "range" => b \in Fetched) /\ (b.code = "range" => b \in Listed)
  BY <1>2
<1> HIDE DEF b
<1>4. CASE b.code = "outOfRange"
  <2>1. q = [p EXCEPT !.kind = "outOfRange"]
    BY <1>4 DEF Settled, AnswerForm, b
  <2>2. "outOfRange" \in Kinds /\ "outOfRange" # "start"
    BY DEF Kinds
  <2> HIDE DEF q
  <2>3. SameTracker(p, q) /\ q.buffer = p.buffer /\ q.kind # "start"
    BY <1>1, <2>1, <2>2 DEF SameTracker, Part
  <2>4. /\ ReadInv(q, next, held)
        /\ GoodInv(p, held, good, l) => GoodInv(q, held, good, l)
        /\ CoverInv(p, held) => CoverInv(q, held)
    BY <2>3, KeepTracker
  <2>5. q.epoch = p.epoch /\ q \in Part
    BY <2>3 DEF SameTracker
  <2> QED
    BY <2>4, <2>5 DEF q
<1>5. CASE b.code = "ok"
  <2>1. q = Buffered(p, b)
    BY <1>5 DEF Settled, AnswerForm, b
  <2>2. p.kind = "at" /\ p.kind # "start" /\ p.at < b.to /\ a.to = b.to /\ b.to \in Offset
        /\ b.records \in SUBSET Pairs /\ \A r \in b.records : r[1] < b.to
    BY <1>2, <1>3, <1>5 DEF AnswerForm, b
  <2>3. AnswerGood(a, good, l) =>
          \A o \in p.at .. b.to - 1 : o \in good \/ <<o, l[o + 1]>> \in b.records
    BY <1>5, <2>2 DEF AnswerGood, b
  <2>4. CASE b.records = {}
    <3> DEFINE x == [Mark(p, p.at, b.to) EXCEPT !.kind = "at", !.at = b.to]
    <3>1. /\ x \in Part /\ ReadInv(x, next, held) /\ x.epoch = p.epoch
          /\ CoverInv(p, held) => CoverInv(x, held)
          /\ GoodInv(p, held, good, l) /\ (\A o \in p.at .. b.to - 1 : o \in good)
               => GoodInv(x, held, good, l)
      BY <2>2, SkipFacts
    <3>2. q = x
      <4>1. q = [Mark(p, p.at, b.to) EXCEPT !.at = b.to]
        BY <2>1, <2>4 DEF Buffered
      <4>2. PICK c, d : /\ Mark(p, p.at, b.to) = [p EXCEPT !.candidate = c, !.done = d]
                        /\ Tracked(c, d, b.to)
                        /\ \A o \in Offset : (o < c \/ o \in d)
                             <=> (o \in Done(p) \/ o \in p.at .. b.to - 1)
        <5>1. p.at <= b.to /\ b.to <= b.to /\ b.to \in Nat
          BY <1>0, <1>1, <2>2 DEF Offset
        <5> QED
          BY <1>1, <2>2, <5>1, MarkFacts
      <4> QED
        BY <1>1, <2>2, <4>1, <4>2 DEF Part
    <3>3. AnswerGood(a, good, l) => \A o \in p.at .. b.to - 1 : o \in good
      BY <2>3, <2>4
    <3> HIDE DEF x, q
    <3> QED
      BY <3>1, <3>2, <3>3 DEF q
  <2>5. CASE b.records # {}
    <3> DEFINE x == [p EXCEPT !.at = b.to, !.buffer = [epoch |-> p.epoch, from |-> p.at,
                                          to |-> b.to, records |-> b.records]]
    <3>1. /\ x \in Part /\ ReadInv(x, next, held) /\ x.epoch = p.epoch
          /\ CoverInv(p, held) => CoverInv(x, held)
          /\ GoodInv(p, held, good, l)
              /\ (\A o \in p.at .. b.to - 1 : o \in good \/ <<o, l[o + 1]>> \in b.records)
               => GoodInv(x, held, good, l)
      BY <2>2, BufferFacts
    <3>2. q = x
      BY <2>1, <2>5 DEF Buffered
    <3> HIDE DEF x, q
    <3> QED
      BY <2>3, <3>1, <3>2 DEF q
  <2> QED
    BY <2>4, <2>5
<1>6. CASE b.code = "range" /\ a.kind = "start"
  <2> DEFINE x == [p EXCEPT !.kind = "at", !.at = b.from, !.candidate = b.from, !.done = {},
                            !.last = None]
  <2>1. q = x
    BY <1>6 DEF Settled, b
  <2>2. b.from \in Offset
    BY <1>2, <1>3, <1>6
  <2>3. /\ x \in Part /\ ReadInv(x, next, held) /\ x.epoch = p.epoch
        /\ CoverInv(x, held)
        /\ Below(b.from, good) => GoodInv(x, held, good, l)
    BY <1>6, <2>2, StartFacts
  <2>4. AnswerGood(a, good, l) => Below(b.from, good)
    BY <1>6 DEF AnswerGood, b
  <2> HIDE DEF x, q
  <2> QED
    BY <2>1, <2>3, <2>4 DEF q
<1>7. CASE b.code = "range" /\ a.kind # "start"
  <2>1. q = Resolved(p, b.from, b.to, next)
    BY <1>7 DEF Settled, b
  <2>2. b.from \in Offset /\ b.to \in Offset /\ b.from \in Nat /\ b.to \in Nat /\ p.kind # "start"
    BY <1>0, <1>2, <1>3, <1>7 DEF Offset
  <2>3. CASE p.at < b.from
    <3> DEFINE x == [Mark(p, p.at, b.from) EXCEPT !.kind = "at", !.at = b.from]
    <3>1. /\ x \in Part /\ ReadInv(x, next, held) /\ x.epoch = p.epoch
          /\ CoverInv(p, held) => CoverInv(x, held)
          /\ GoodInv(p, held, good, l) /\ (\A o \in p.at .. b.from - 1 : o \in good)
               => GoodInv(x, held, good, l)
      BY <2>2, <2>3, SkipFacts
    <3>2. q = x
      BY <2>1, <2>3 DEF Resolved
    <3>3. AnswerGood(a, good, l) => \A o \in p.at .. b.from - 1 : o \in good
      BY <1>1, <1>7, <2>2 DEF AnswerGood, Below, b
    <3> HIDE DEF x, q
    <3> QED
      BY <3>1, <3>2, <3>3 DEF q
  <2>4. CASE ~(p.at < b.from) /\ p.at > b.to
    <3> DEFINE x == ResetTo(p, b.to, next)
    <3>1. b.to < p.at
      BY <1>1, <2>2, <2>4
    <3>2. /\ x \in Part /\ ReadInv(x, next + 1, held) /\ x.epoch = next
          /\ CoverInv(p, held) => CoverInv(x, held)
          /\ GoodInv(p, held, good, l) => GoodInv(x, held, good, l)
      BY <2>2, <3>1, ResetKeeps
    <3>3. q = x
      BY <2>1, <2>4 DEF Resolved, ResetTo
    <3> HIDE DEF x, q
    <3>4. q.epoch # p.epoch
      BY <1>1, <3>2, <3>3
    <3> QED
      BY <3>2, <3>3, <3>4 DEF q
  <2>5. CASE ~(p.at < b.from) /\ ~(p.at > b.to)
    <3>1. q = [p EXCEPT !.kind = "at"]
      BY <2>1, <2>5 DEF Resolved
    <3>2. "at" \in Kinds /\ "at" # "start"
      BY DEF Kinds
    <3> HIDE DEF q
    <3>3. SameTracker(p, q) /\ q.buffer = p.buffer /\ q.kind # "start"
      BY <1>1, <3>1, <3>2 DEF SameTracker, Part
    <3>4. /\ ReadInv(q, next, held)
          /\ GoodInv(p, held, good, l) => GoodInv(q, held, good, l)
          /\ CoverInv(p, held) => CoverInv(q, held)
      BY <3>3, KeepTracker
    <3>5. q.epoch = p.epoch /\ q \in Part
      BY <3>3 DEF SameTracker
    <3> QED
      BY <3>4, <3>5 DEF q
  <2> QED
    BY <2>3, <2>4, <2>5
<1> QED
  BY <1>3, <1>4, <1>5, <1>6, <1>7

\* mark_accepted of the next cut of what deliver holds, up to end: good becomes more.
LEMMA AcceptKeeps ==
  ASSUME NEW p, NEW next, NEW held, NEW kept, NEW good, NEW more, NEW l, NEW end \in Nat,
         ReadInv(p, next, held), held # Nothing, held.from < end,
         \/ end = held.to /\ kept = Nothing
         \/ end < held.to /\ kept = [held EXCEPT !.from = end],
         good \subseteq more,
         \A o \in held.from .. end - 1 : <<o, l[o + 1]>> \in held.records => o \in more
  PROVE  LET q == AcceptIn(p, held.epoch, held.from, end) IN
         /\ q \in Part /\ ReadInv(q, next, kept)
         /\ CoverInv(p, held) => CoverInv(q, kept)
         /\ GoodInv(p, held, good, l) => GoodInv(q, kept, more, l)
<1> DEFINE e == held.epoch
           from == held.from
           q == AcceptIn(p, e, from, end)
<1>1. /\ PartInv(p) /\ p.epoch < next /\ p \in Part /\ p.at \in Nat /\ p.at \in Offset
      /\ p.kind # "start" /\ SpanOf(p, held) /\ held \in Span
  BY DEF ReadInv, PartInv, Part, Offset, SpanOf
<1>2. /\ EpochOf(p, e) /\ from \in Nat /\ held.to \in Nat /\ from < held.to /\ end <= held.to
      /\ (\A o \in from .. held.to - 1 : Stands(p, e, o) => o < p.at)
      /\ \A r \in held.records : r[1] < held.to
  BY <1>1 DEF SpanOf, Span
<1>3. \A o \in from .. end - 1 : o \in from .. held.to - 1
  BY <1>2
<1> HIDE DEF e, from
<1>4. PICK c, d : /\ q = [p EXCEPT !.candidate = c, !.done = d]
                  /\ Tracked(c, d, p.at)
                  /\ \A o \in Offset :
                       (o < c \/ o \in d)
                         <=> (o \in Done(p) \/ (o \in from .. end - 1 /\ Stands(p, e, o)))
  <2>1. \A o \in from .. end - 1 : Stands(p, e, o) => o < p.at
    BY <1>2, <1>3
  <2>2. from < end
    BY DEF from
  <2> QED
    BY <1>1, <1>2, <2>1, <2>2, AcceptFacts
<1>5. c \in Offset /\ d \in SUBSET Offset
  BY <1>4 DEF Tracked
<1> HIDE DEF q
<1>6. /\ q \in Part /\ q.epoch = p.epoch /\ q.first = p.first /\ q.resets = p.resets
      /\ q.at = p.at /\ q.candidate = c /\ q.done = d /\ q.buffer = p.buffer /\ q.kind = p.kind
  BY <1>1, <1>4, <1>5 DEF Part
<1>7. /\ \A x : EpochOf(q, x) <=> EpochOf(p, x)
      /\ \A x, o : Stands(q, x, o) <=> Stands(p, x, o)
  BY <1>6, StandsSame
<1>8. \A o \in Offset : o \in Done(q) <=> (o \in Done(p) \/ (o \in from .. end - 1 /\ Stands(p, e, o)))
  BY <1>4, <1>6 DEF Done
<1>9. PartInv(q)
  BY <1>1, <1>4, <1>6 DEF PartInv, Rising
<1>10. kept # Nothing =>
         /\ kept \in Span /\ kept.epoch = e /\ kept.from = end /\ kept.to = held.to
         /\ kept.records = held.records /\ end < held.to
  BY <1>1 DEF Span, e
<1>11. kept # Nothing => SpanOf(q, kept)
  <2> HAVE kept # Nothing
  <2>1. \A o \in kept.from .. kept.to - 1 : o \in from .. held.to - 1
    BY <1>2, <1>10 DEF from
  <2>2. \A o \in kept.from .. kept.to - 1 : Stands(q, kept.epoch, o) => o < q.at
    BY <1>2, <1>6, <1>7, <1>10, <2>1
  <2> QED
    BY <1>2, <1>7, <1>10, <2>2 DEF SpanOf
<1>12. p.buffer # Nothing => SpanOf(q, p.buffer) /\ p.buffer.epoch = q.epoch
  <2> HAVE p.buffer # Nothing
  <2>1. SpanOf(p, p.buffer) /\ p.buffer.epoch = p.epoch
    BY DEF ReadInv
  <2> QED
    BY <1>6, <1>7, <2>1 DEF SpanOf
<1>13. ReadInv(q, next, kept)
  BY <1>1, <1>6, <1>9, <1>11, <1>12 DEF ReadInv
<1>14. CoverInv(p, held) => CoverInv(q, kept)
  <2> HAVE CoverInv(p, held)
  <2> SUFFICES ASSUME NEW o \in Offset, o < q.at
               PROVE  o \in Done(q) \/ Covers(q, kept, o) \/ Covers(q, q.buffer, o)
    BY DEF CoverInv
  <2>1. o \in Done(p) \/ Covers(p, held, o) \/ Covers(p, p.buffer, o)
    BY <1>6 DEF CoverInv
  <2>2. CASE o \in Done(p)
    BY <1>8, <2>2
  <2>3. CASE Covers(p, p.buffer, o)
    BY <1>6, <1>7, <2>3 DEF Covers
  <2>4. CASE Covers(p, held, o)
    <3>1. o \in from .. held.to - 1 /\ Stands(p, e, o)
      BY <2>4 DEF Covers, from, e
    <3>2. CASE o \in from .. end - 1
      BY <1>8, <3>1, <3>2
    <3>3. CASE ~(o \in from .. end - 1)
      <4>1. o \in end .. held.to - 1 /\ end < held.to
        BY <1>2, <3>1, <3>3
      <4>2. kept = [held EXCEPT !.from = end]
        BY <1>2, <4>1
      <4>3. kept # Nothing
        <5>1. kept \in Span
          BY <1>1, <4>2 DEF Span
        <5> QED
          BY <5>1, NotNothing
      <4> QED
        BY <1>7, <1>10, <3>1, <4>1, <4>3 DEF Covers
    <3> QED
      BY <3>2, <3>3
  <2> QED
    BY <2>1, <2>2, <2>3, <2>4
<1>15. GoodInv(p, held, good, l) => GoodInv(q, kept, more, l)
  <2> HAVE GoodInv(p, held, good, l)
  <2>1. \A o \in from .. held.to - 1 :
          Stands(p, e, o) => o \in good \/ <<o, l[o + 1]>> \in held.records
    BY DEF GoodInv, SpanGood, from, e
  <2>2. \A o \in Done(q) : o \in more
    <3> TAKE o \in Done(q)
    <3>1. o \in Offset
      BY DEF Done
    <3>2. CASE o \in Done(p)
      BY <3>2 DEF GoodInv
    <3>3. CASE o \in from .. end - 1 /\ Stands(p, e, o)
      <4>1. o \in held.from .. end - 1
        BY <3>3 DEF from
      <4> QED
        BY <1>3, <2>1, <3>3, <4>1
    <3> QED
      BY <1>8, <3>1, <3>2, <3>3
  <2>3. kept # Nothing => SpanGood(q, kept, more, l)
    <3> HAVE kept # Nothing
    <3>1. \A o \in kept.from .. kept.to - 1 : o \in from .. held.to - 1
      BY <1>2, <1>10 DEF from
    <3> QED
      BY <1>7, <1>10, <2>1, <3>1 DEF SpanGood
  <2>4. q.buffer # Nothing => SpanGood(q, q.buffer, more, l)
    <3> HAVE q.buffer # Nothing
    <3>1. SpanGood(p, p.buffer, good, l)
      BY <1>6 DEF GoodInv
    <3> QED
      BY <1>6, <1>7, <3>1 DEF SpanGood
  <2> QED
    BY <2>2, <2>3, <2>4 DEF GoodInv
<1> QED
  BY <1>6, <1>13, <1>14, <1>15 DEF q, e, from

\* install: a new part, at the committed offset or waiting for ListOffsets.
LEMMA NewPartFacts ==
  ASSUME NEW next \in Nat, NEW kind \in {"at", "start"}, NEW n \in Offset, NEW last \in Int,
         NEW good, NEW l
  PROVE  LET q == NewPart(next, kind, n, last) IN
         /\ q \in Part /\ ReadInv(q, next + 1, Nothing) /\ CoverInv(q, Nothing)
         /\ Below(n, good) => GoodInv(q, Nothing, good, l)
<1> DEFINE q == NewPart(next, kind, n, last)
<1>0. MaxOffset \in Nat /\ n \in Nat /\ kind \in Kinds
  BY KafkaConstants DEF Offset, Kinds
<1>1. /\ q \in Part /\ q.epoch = next /\ q.first = next /\ q.resets = {} /\ q.at = n
      /\ q.candidate = n /\ q.done = {} /\ q.buffer = Nothing
  BY <1>0 DEF NewPart, Part
<1> HIDE DEF q
<1>2. PartInv(q)
  BY <1>0, <1>1 DEF PartInv, Tracked, Rising
<1>3. ReadInv(q, next + 1, Nothing)
  BY <1>1, <1>2 DEF ReadInv
<1>4. \A o \in Offset : o \in Done(q) <=> o < n
  BY <1>1 DEF Done
<1>5. CoverInv(q, Nothing)
  BY <1>1, <1>4 DEF CoverInv
<1>6. Below(n, good) => GoodInv(q, Nothing, good, l)
  BY <1>1 DEF Below, GoodInv, Done, Offset
<1> QED
  BY <1>1, <1>3, <1>5, <1>6 DEF q

\* A change of the log and of what is good that keeps every offset below a bound: a good
\* offset stays good, and another keeps its record.
Keeps(good, l, more, k, bound) ==
  \A o \in Nat : o < bound => (o \in good => o \in more) /\ (o \in more \/ k[o + 1] = l[o + 1])

\* Such a change keeps what was good of a part that has read up to the bound.
LEMMA KeepsPart ==
  ASSUME NEW p, NEW next, NEW held, NEW good, NEW l, NEW more, NEW k,
         ReadInv(p, next, held), Keeps(good, l, more, k, p.at), GoodInv(p, held, good, l)
  PROVE  GoodInv(p, held, more, k)
<1>1. ASSUME NEW g, SpanOf(p, g), SpanGood(p, g, good, l) PROVE SpanGood(p, g, more, k)
  <2> SUFFICES ASSUME NEW o \in g.from .. g.to - 1, Stands(p, g.epoch, o)
               PROVE  o \in more \/ <<o, k[o + 1]>> \in g.records
    BY DEF SpanGood
  <2>1. o \in Nat /\ o < p.at
    BY <1>1 DEF SpanOf, Span
  <2>2. o \in good \/ <<o, l[o + 1]>> \in g.records
    BY <1>1 DEF SpanGood
  <2> QED
    BY <2>1, <2>2 DEF Keeps
<1>2. \A o \in Done(p) : o \in more
  <2> TAKE o \in Done(p)
  <2>1. o \in Nat /\ o < p.at
    <3>1. p.at \in Nat /\ p.candidate \in Nat /\ p.candidate <= p.at /\ \A x \in p.done : x < p.at
      BY DEF ReadInv, PartInv, Part, Tracked, Offset
    <3> QED
      BY <3>1 DEF Done, Offset
  <2> QED
    BY <2>1 DEF Keeps, GoodInv
<1> QED
  BY <1>1, <1>2 DEF ReadInv, GoodInv

\* And what was good of an answer that reaches up to the bound.
LEMMA KeepsAnswer ==
  ASSUME NEW a \in Query, AnswerForm(a), NEW good, NEW l, NEW more, NEW k,
         Keeps(good, l, more, k, a.to), AnswerGood(a, good, l)
  PROVE  AnswerGood(a, more, k)
<1>1. a.to \in Nat /\ a.at \in Nat /\ (a.answer.code = "range" => a.answer.from \in Nat)
  BY DEF Query, Offset, Fetched, Listed
<1>2. a.answer.code = "ok" =>
        \A o \in a.at .. a.to - 1 : o \in more \/ <<o, k[o + 1]>> \in a.answer.records
  BY <1>1 DEF Keeps, AnswerGood
<1>3. a.answer.code = "range" => Below(a.answer.from, more)
  BY <1>1 DEF Keeps, AnswerGood, AnswerForm, Below
<1> QED
  BY <1>2, <1>3 DEF AnswerGood

-----------------------------------------------------------------------------
(* The steps that leave the log alone.                                     *)

\* What a step leaves alone of member n.
Frame(n) ==
  /\ pc'[n] = pc[n] /\ signal'[n] = signal[n] /\ part'[n] = part[n] /\ epochs'[n] = epochs[n]
  /\ shared'[n] = shared[n] /\ asks'[n] = asks[n] /\ out'[n] = out[n] /\ request'[n] = request[n]

\* A step that leaves the log alone and may accept records.
Grown ==
  /\ log' = log /\ logStart' = logStart /\ overtaken' = overtaken /\ truncated' = truncated
  /\ accepted \subseteq accepted'

\* Such a step keeps what is good.
LEMMA GrownKeeps ==
  ASSUME Grown
  PROVE  /\ Good \subseteq Good'
         /\ \A u : Keeps(Good, log, Good', log', u)
<1>1. Good \subseteq Good'
  BY DEF Grown, Good, LogEnd
<1> QED
  BY <1>1 DEF Keeps, Grown

\* A member's part, answers and request stay good when the step leaves them alone or drops
\* answers or the request.
LEMMA GoodStays ==
  ASSUME TypeOK, Grown, NEW n \in Members, MemberInv(n), MemberGood(n),
         part'[n] = part[n], out'[n] = out[n], shared'[n] = shared[n],
         asks'[n] \subseteq asks[n], request'[n] = request[n] \/ request'[n] = Nothing
  PROVE  MemberGood(n)'
<1>1. Good \subseteq Good' /\ \A u : Keeps(Good, log, Good', log', u)
  BY GrownKeeps
<1>2. request'[n] # Nothing => Below(request'[n].offset, Good')
  BY <1>1 DEF MemberGood, Below
<1>3. ASSUME part[n] # NoPart PROVE GoodInv(part'[n], out'[n], Good', log')
  <2>1. ReadInv(part[n], epochs[n], out[n]) /\ GoodInv(part[n], out[n], Good, log)
    BY <1>3 DEF MemberInv, MemberGood
  <2>2. GoodInv(part[n], out[n], Good', log')
    BY <1>1, <2>1, KeepsPart
  <2> QED
    BY <2>2
<1>4. ASSUME part[n] # NoPart, NEW a \in asks'[n], a.epoch = shared'[n]
      PROVE  AnswerGood(a, Good', log')
  <2>1. a \in Query /\ AnswerForm(a) /\ AnswerGood(a, Good, log)
    BY <1>4 DEF MemberInv, MemberGood, TypeOK
  <2> QED
    BY <1>1, <2>1, KeepsAnswer
<1> QED
  BY <1>2, <1>3, <1>4 DEF MemberGood

\* A step keeps the invariant if it keeps it of the members in S and leaves the others alone.
LEMMA FrameStep ==
  ASSUME IInv, TypeOK', Grown, Below(committed', Good'), NEW S \in SUBSET Members,
         \A n \in Members \ S : Frame(n), group'.members \ S \subseteq group.members,
         \A n \in S : MemberInv(n)' /\ (n \in group'.members => MemberGood(n)')
  PROVE  IInv'
<1>1. ASSUME NEW n \in Members PROVE MemberInv(n)'
  <2>1. CASE n \in S
    BY <2>1
  <2>2. CASE n \notin S
    <3>1. MemberInv(n) /\ Frame(n)
      BY <2>2 DEF IInv
    <3> QED
      BY <3>1 DEF MemberInv, PlaceInv, Fetching, Frame
  <2> QED
    BY <2>1, <2>2
<1>2. group'.members \in SUBSET Members
  BY DEF TypeOK
<1>3. ASSUME NEW n \in group'.members PROVE MemberGood(n)'
  <2>1. CASE n \in S
    BY <2>1
  <2>2. CASE n \notin S
    <3>1. n \in Members /\ MemberInv(n) /\ Frame(n) /\ MemberGood(n) /\ TypeOK
      BY <1>2, <2>2 DEF IInv
    <3> QED
      BY <3>1, GoodStays DEF Frame
  <2> QED
    BY <2>1, <2>2
<1> QED
  BY <1>1, <1>3 DEF IInv

\* A step of one member keeps the invariant if it keeps it of that member.
LEMMA MemberStep ==
  ASSUME IInv, TypeOK', Grown, Below(committed', Good'), NEW m \in Members,
         \A n \in Members \ {m} : Frame(n), group'.members \ {m} \subseteq group.members,
         MemberInv(m)', m \in group'.members => MemberGood(m)'
  PROVE  IInv'
<1> DEFINE S == {m}
<1>1. /\ S \in SUBSET Members
      /\ \A n \in Members \ S : Frame(n)
      /\ group'.members \ S \subseteq group.members
      /\ \A n \in S : MemberInv(n)' /\ (n \in group'.members => MemberGood(n)')
  OBVIOUS
<1> HIDE DEF S
<1> QED
  BY <1>1, FrameStep

\* A step that leaves every member alone keeps the invariant.
LEMMA QuietStep ==
  ASSUME IInv, TypeOK', Grown, Below(committed', Good'),
         \A n \in Members : Frame(n), group'.members \subseteq group.members
  PROVE  IInv'
<1> DEFINE S == {}
<1>1. /\ S \in SUBSET Members
      /\ \A n \in Members \ S : Frame(n)
      /\ group'.members \ S \subseteq group.members
      /\ \A n \in S : MemberInv(n)' /\ (n \in group'.members => MemberGood(n)')
  OBVIOUS
<1> HIDE DEF S
<1> QED
  BY <1>1, FrameStep

\* The committed offset stays good when it stays.
LEMMA BelowStays ==
  ASSUME IInv, Grown, committed' = committed
  PROVE  Below(committed', Good')
BY GrownKeeps DEF IInv, Below

\* Expel keeps the invariant.
LEMMA ExpelStep ==
  ASSUME IInv, NEW m \in Members, Expel(m)
  PROVE  IInv'
<1>1. TypeOK
  BY DEF IInv
<1>2. group' = WithoutMember(m) /\ UNCHANGED <<broker, committed, pc, local, accepted>>
  BY DEF Expel
<1>3. group'.members = group.members \ {m} /\ TypeOK'
  BY <1>1, <1>2 DEF TypeOK, WithoutMember, broker, local
<1>4. Grown /\ committed' = committed /\ \A n \in Members : Frame(n)
  BY <1>2 DEF Grown, broker, local, Frame
<1> QED
  BY <1>3, <1>4, QuietStep, BelowStays

\* PeerMoves keeps the invariant.
LEMMA PeerMovesStep ==
  ASSUME IInv, PeerMoves
  PROVE  IInv'
<1>1. TypeOK
  BY DEF IInv
<1>2. group' = [group EXCEPT !.rebalancing = TRUE] /\ UNCHANGED <<broker, committed, pc, local, accepted>>
  BY DEF PeerMoves
<1>3. group'.members = group.members /\ TypeOK'
  BY <1>1, <1>2 DEF TypeOK, broker, local
<1>4. Grown /\ committed' = committed /\ \A n \in Members : Frame(n)
  BY <1>2 DEF Grown, broker, local, Frame
<1> QED
  BY <1>3, <1>4, QuietStep, BelowStays

\* The heartbeat and the topic watch raise a revoke, and no more.
LEMMA SignalStep ==
  ASSUME IInv, NEW m \in Members, Heartbeat(m) \/ TopicChanged(m)
  PROVE  IInv'
<1>1. TypeOK
  BY DEF IInv
<1>2. /\ \E x \in {"lost", "rebalance"} : signal' = [signal EXCEPT ![m] = Raise(m, x)]
      /\ UNCHANGED <<broker, group, committed, pc, gen, revoking, ending, part, epochs,
                     shared, asks, out, request, accepted>>
  BY DEF Heartbeat, TopicChanged
<1>3. signal' \in [Members -> {"none", "lost", "rebalance"}] /\ signal'[m] # "none"
      /\ \A n \in Members \ {m} : signal'[n] = signal[n]
  BY <1>1, <1>2 DEF TypeOK, Raise
<1>4. TypeOK'
  BY <1>1, <1>2, <1>3 DEF TypeOK, broker
<1>5. Grown /\ committed' = committed /\ (\A n \in Members \ {m} : Frame(n)) /\ group' = group
  BY <1>2, <1>3 DEF Grown, broker, Frame
<1>6. MemberInv(m)'
  <2>1. MemberInv(m)
    BY DEF IInv
  <2> QED
    BY <1>2, <1>3, <2>1 DEF MemberInv, PlaceInv
<1>7. m \in group'.members => MemberGood(m)'
  BY <1>1, <1>2, <1>5, GoodStays DEF IInv
<1> QED
  BY <1>4, <1>5, <1>6, <1>7, MemberStep, BelowStays

\* The records of a part of the log, and that they carry every offset that needs it.
LEMMA RecordsFacts ==
  ASSUME TypeOK, NEW from \in Nat, NEW to \in Nat, to <= LogEnd
  PROVE  /\ Records(from, to) \in SUBSET Pairs
         /\ \A r \in Records(from, to) : r[1] < to
         /\ \A o \in from .. to - 1 : o \in Silent \/ <<o, log[o + 1]>> \in Records(from, to)
<1>1. \A o \in from .. to - 1 : o \in Nat /\ log[o + 1] \in Nat
  BY DEF TypeOK, LogEnd
<1>2. Records(from, to) \in SUBSET Pairs /\ \A r \in Records(from, to) : r[1] < to
  BY <1>1 DEF Records, Pairs
<1>3. \A o \in from .. to - 1 : o \in Silent \/ <<o, log[o + 1]>> \in Records(from, to)
  BY DEF Records
<1> QED
  BY <1>2, <1>3

\* The broker's answer has its form, and says the truth about the log.
LEMMA AskFacts ==
  ASSUME TypeOK, NEW at \in Offset, NEW kind \in Kinds, NEW epoch \in Nat,
         NEW b \in IF kind = "at" THEN FetchAnswers(at) ELSE ListAnswers
  PROVE  LET a == [epoch |-> epoch, kind |-> kind, at |-> at, to |-> b.to, answer |-> b] IN
         a \in Query /\ a.epoch = epoch /\ AnswerForm(a) /\ AnswerGood(a, Good, log)
<1> DEFINE a == [epoch |-> epoch, kind |-> kind, at |-> at, to |-> b.to, answer |-> b]
<1>0. MaxOffset \in Nat /\ at \in Nat /\ at <= MaxOffset
  BY KafkaConstants DEF Offset
<1>1. /\ LogEnd \in Nat /\ LogEnd \in Offset /\ logStart \in Offset /\ logStart \in Nat
      /\ logStart <= LogEnd
  BY <1>0 DEF TypeOK, LogEnd, Offset
<1>2. a.epoch = epoch /\ a.kind = kind /\ a.at = at /\ a.to = b.to /\ a.answer = b
  OBVIOUS
<1>3. CASE kind = "at" /\ (at < logStart \/ at > LogEnd)
  <2>1. b = [code |-> "outOfRange", to |-> at, records |-> {}]
    BY <1>3 DEF FetchAnswers
  <2>2. b \in Fetched /\ b.code = "outOfRange" /\ b.to = at
    BY <2>1 DEF Fetched
  <2>3. a \in Query
    BY <2>2 DEF Query
  <2> HIDE DEF a
  <2>4. AnswerForm(a) /\ AnswerGood(a, Good, log)
    BY <1>2, <1>3, <2>2 DEF AnswerForm, AnswerGood
  <2> QED
    BY <1>2, <2>3, <2>4 DEF a
<1>4. CASE kind = "at" /\ ~(at < logStart \/ at > LogEnd)
  <2>1. PICK n \in at + 1 .. LogEnd : b = [code |-> "ok", to |-> n, records |-> Records(at, n)]
    BY <1>4 DEF FetchAnswers
  <2>2. n \in Nat /\ n \in Offset /\ n <= LogEnd /\ at < n
    BY <1>0, <1>1, <2>1 DEF Offset
  <2>3. /\ Records(at, n) \in SUBSET Pairs /\ (\A r \in Records(at, n) : r[1] < n)
        /\ \A o \in at .. n - 1 : o \in Silent \/ <<o, log[o + 1]>> \in Records(at, n)
    BY <1>0, <2>2, RecordsFacts
  <2>4. b \in Fetched /\ b.code = "ok" /\ b.to = n /\ b.records = Records(at, n)
    BY <2>1, <2>2, <2>3 DEF Fetched
  <2>5. a \in Query
    BY <2>2, <2>4 DEF Query
  <2> HIDE DEF a
  <2>6. AnswerForm(a)
    BY <1>2, <1>4, <2>2, <2>3, <2>4 DEF AnswerForm
  <2>7. \A o \in at .. n - 1 : o \in Good \/ <<o, log[o + 1]>> \in b.records
    BY <1>0, <2>2, <2>3, <2>4 DEF Good
  <2>8. AnswerGood(a, Good, log)
    BY <1>2, <2>4, <2>7 DEF AnswerGood
  <2> QED
    BY <1>2, <2>5, <2>6, <2>8 DEF a
<1>5. CASE kind # "at"
  <2>1. b = [code |-> "range", from |-> logStart, to |-> LogEnd]
    BY <1>5 DEF ListAnswers
  <2>2. b \in Listed /\ b.code = "range" /\ b.from = logStart /\ b.to = LogEnd
    BY <1>1, <2>1 DEF Listed
  <2>3. a \in Query
    BY <1>1, <2>2 DEF Query
  <2> HIDE DEF a
  <2>4. AnswerForm(a)
    BY <1>1, <1>2, <1>5, <2>2 DEF AnswerForm
  <2>5. Below(logStart, Good)
    BY DEF Below, Good
  <2>6. AnswerGood(a, Good, log)
    BY <1>2, <2>2, <2>5 DEF AnswerGood
  <2> QED
    BY <1>2, <2>3, <2>4, <2>6 DEF a
<1> QED
  BY <1>3, <1>4, <1>5

\* Ask keeps the invariant.
LEMMA AskStep ==
  ASSUME IInv, NEW m \in Members, Ask(m)
  PROVE  IInv'
<1>1. TypeOK /\ MemberInv(m)
  BY DEF IInv
<1>2. PICK b \in IF part[m].kind = "at" THEN FetchAnswers(part[m].at) ELSE ListAnswers :
        asks' = [asks EXCEPT ![m] = asks[m] \union
                  {[epoch |-> shared[m], kind |-> part[m].kind, at |-> part[m].at,
                    to |-> b.to, answer |-> b]}]
  BY DEF Ask
<1>3. Fetching(m) /\ UNCHANGED <<broker, group, committed, pc, gen, signal, revoking, ending, part,
                 epochs, shared, out, request, accepted>>
  BY DEF Ask
<1> DEFINE a == [epoch |-> shared[m], kind |-> part[m].kind, at |-> part[m].at,
                 to |-> b.to, answer |-> b]
<1>4. part[m] # NoPart /\ part[m] \in Part /\ part[m].at \in Offset /\ part[m].kind \in Kinds
      /\ shared[m] \in Nat
  BY <1>1, <1>3 DEF Fetching, TypeOK, Part
<1>5. a \in Query /\ a.epoch = shared[m] /\ AnswerForm(a) /\ AnswerGood(a, Good, log)
  BY <1>1, <1>2, <1>4, AskFacts
<1>6. /\ asks'[m] = asks[m] \union {a} /\ \A n \in Members \ {m} : asks'[n] = asks[n]
      /\ asks' \in [Members -> SUBSET Query]
  BY <1>1, <1>2, <1>5 DEF TypeOK
<1> HIDE DEF a
<1>7. TypeOK'
  BY <1>1, <1>3, <1>6 DEF TypeOK, broker
<1>8. Grown /\ committed' = committed /\ (\A n \in Members \ {m} : Frame(n)) /\ group' = group
      /\ Good' = Good
  BY <1>3, <1>6 DEF Grown, broker, Frame, Good, LogEnd
<1>9. MemberInv(m)'
  <2>1. \A x \in asks'[m] : x.epoch <= shared'[m] /\ AnswerForm(x)
    BY <1>1, <1>3, <1>4, <1>5, <1>6 DEF MemberInv
  <2> QED
    BY <1>1, <1>3, <2>1 DEF MemberInv, PlaceInv, Fetching
<1>10. m \in group'.members => MemberGood(m)'
  <2> HAVE m \in group'.members
  <2>1. MemberGood(m)
    BY <1>8 DEF IInv
  <2>2. \A x \in asks'[m] : x.epoch = shared'[m] => AnswerGood(x, Good', log')
    BY <1>3, <1>4, <1>5, <1>6, <1>8, <2>1 DEF MemberGood, Grown
  <2> QED
    BY <1>3, <1>8, <2>1, <2>2 DEF MemberGood, Grown
<1> QED
  BY <1>7, <1>8, <1>9, <1>10, MemberStep, BelowStays

\* AskFails keeps the invariant.
LEMMA AskFailsStep ==
  ASSUME IInv, NEW m \in Members, AskFails(m)
  PROVE  IInv'
<1>1. TypeOK /\ MemberInv(m)
  BY DEF IInv
<1>2. PICK a \in asks[m] : asks' = [asks EXCEPT ![m] = asks[m] \ {a}]
  BY DEF AskFails
<1>3. UNCHANGED <<broker, group, committed, pc, gen, signal, revoking, ending, part, epochs,
                  shared, out, request, accepted>>
  BY DEF AskFails
<1>4. /\ asks'[m] \subseteq asks[m] /\ \A n \in Members \ {m} : asks'[n] = asks[n]
      /\ asks' \in [Members -> SUBSET Query]
  BY <1>1, <1>2 DEF TypeOK
<1>5. TypeOK'
  BY <1>1, <1>3, <1>4 DEF TypeOK, broker
<1>6. Grown /\ committed' = committed /\ (\A n \in Members \ {m} : Frame(n)) /\ group' = group
  BY <1>3, <1>4 DEF Grown, broker, Frame
<1>7. MemberInv(m)'
  BY <1>1, <1>3, <1>4 DEF MemberInv, PlaceInv, Fetching
<1>8. m \in group'.members => MemberGood(m)'
  BY <1>1, <1>3, <1>4, <1>6, GoodStays DEF IInv
<1> QED
  BY <1>5, <1>6, <1>7, <1>8, MemberStep, BelowStays

\* Answer keeps the invariant.
LEMMA AnswerStep ==
  ASSUME IInv, NEW m \in Members, Answer(m)
  PROVE  IInv'
<1>1. TypeOK /\ MemberInv(m)
  BY DEF IInv
<1>2. PICK a \in asks[m] :
        /\ asks' = [asks EXCEPT ![m] = asks[m] \ {a}]
        /\ part' = [part EXCEPT ![m] = IF Fresh(m, a) THEN Settled(part[m], a, epochs[m]) ELSE part[m]]
        /\ epochs' = [epochs EXCEPT ![m] =
                        IF part[m] # NoPart /\ part'[m].epoch # part[m].epoch THEN epochs[m] + 1
                        ELSE epochs[m]]
        /\ UNCHANGED <<broker, group, committed, pc, gen, signal, revoking, ending, shared,
                       out, request, accepted>>
  BY DEF Answer
<1>3. a \in Query /\ AnswerForm(a) /\ epochs[m] \in Nat
  BY <1>1 DEF TypeOK, MemberInv
<1>4. /\ asks'[m] \subseteq asks[m] /\ (\A n \in Members \ {m} : asks'[n] = asks[n])
      /\ asks' \in [Members -> SUBSET Query]
  BY <1>1, <1>2 DEF TypeOK
<1>5. /\ part'[m] = IF Fresh(m, a) THEN Settled(part[m], a, epochs[m]) ELSE part[m]
      /\ \A n \in Members \ {m} : part'[n] = part[n] /\ epochs'[n] = epochs[n]
      /\ epochs'[m] = IF part[m] # NoPart /\ part'[m].epoch # part[m].epoch THEN epochs[m] + 1
                      ELSE epochs[m]
      /\ epochs' \in [Members -> Nat]
  BY <1>1, <1>2 DEF TypeOK
<1>6. Grown /\ committed' = committed /\ (\A n \in Members \ {m} : Frame(n)) /\ group' = group
      /\ Good' = Good
  BY <1>2, <1>4, <1>5 DEF Grown, broker, Frame, Good, LogEnd
<1>7. CASE ~Fresh(m, a)
  <2>1. part'[m] = part[m] /\ epochs'[m] = epochs[m] /\ part' = part
    BY <1>1, <1>2, <1>5, <1>7 DEF TypeOK
  <2>2. TypeOK'
    BY <1>1, <1>2, <1>4, <1>5, <2>1 DEF TypeOK, broker
  <2>3. MemberInv(m)'
    BY <1>1, <1>2, <1>4, <2>1 DEF MemberInv, PlaceInv, Fetching
  <2>4. m \in group'.members => MemberGood(m)'
    BY <1>1, <1>2, <1>4, <1>6, <2>1, GoodStays DEF IInv
  <2> QED
    BY <1>6, <2>2, <2>3, <2>4, MemberStep, BelowStays
<1>8. CASE Fresh(m, a)
  <2> DEFINE p == part[m]
             q == Settled(part[m], a, epochs[m])
             next == IF q.epoch # p.epoch THEN epochs[m] + 1 ELSE epochs[m]
  <2>1. p # NoPart /\ p.buffer = Nothing /\ a.kind = p.kind /\ a.at = p.at /\ a.epoch = shared[m]
    BY <1>8 DEF Fresh
  <2>2. ReadInv(p, epochs[m], out[m])
    BY <1>1, <2>1 DEF MemberInv
  <2>3. /\ q \in Part /\ ReadInv(q, next, out[m])
        /\ CoverInv(p, out[m]) => CoverInv(q, out[m])
        /\ GoodInv(p, out[m], Good, log) /\ AnswerGood(a, Good, log) => GoodInv(q, out[m], Good, log)
    <3> HIDE DEF p
    <3> QED
      BY <1>3, <2>1, <2>2, SettledFacts DEF p
  <2>4. part'[m] = q /\ epochs'[m] = next /\ part' \in [Members -> Part \union {NoPart}]
    <3>1. part'[m] = q
      BY <1>5, <1>8
    <3>2. epochs'[m] = next
      BY <1>5, <2>1, <3>1
    <3> HIDE DEF q
    <3>3. part' = [part EXCEPT ![m] = q]
      BY <1>2, <1>8 DEF q
    <3> QED
      BY <1>1, <2>3, <3>1, <3>2, <3>3 DEF TypeOK
  <2> HIDE DEF p, q, next
  <2>5. TypeOK'
    BY <1>1, <1>2, <1>4, <1>5, <2>4 DEF TypeOK, broker
  <2>6. q # NoPart
    BY <2>3, NotNothing
  <2>7. MemberInv(m)'
    <3>1. PlaceInv(m)'
      BY <1>1, <1>2, <2>1, <2>4, <2>6 DEF MemberInv, PlaceInv, p
    <3>2. Fetching(m)' /\ signal'[m] = "none" => CoverInv(part'[m], out'[m])
      BY <1>1, <1>2, <2>1, <2>3, <2>4 DEF MemberInv, Fetching, p
    <3> QED
      BY <1>1, <1>2, <1>4, <2>3, <2>4, <3>1, <3>2 DEF MemberInv
  <2>8. m \in group'.members => MemberGood(m)'
    <3> HAVE m \in group'.members
    <3>1. MemberGood(m)
      BY <1>6 DEF IInv
    <3>2. GoodInv(q, out[m], Good, log)
      BY <2>1, <2>3, <3>1 DEF MemberGood, p
    <3>3. \A x \in asks'[m] : x.epoch = shared'[m] => AnswerGood(x, Good, log)
      BY <1>2, <1>4, <2>1, <3>1 DEF MemberGood, p
    <3> QED
      BY <1>2, <1>6, <2>4, <3>1, <3>2, <3>3 DEF MemberGood, Grown
  <2> QED
    BY <1>6, <2>5, <2>7, <2>8, MemberStep, BelowStays
<1> QED
  BY <1>7, <1>8

\* Stopped drops the buffer and nothing else.
LEMMA StoppedFacts ==
  ASSUME NEW p \in Part
  PROVE  SameTracker(p, Stopped(p)) /\ Stopped(p).buffer = Nothing /\ Stopped(p).kind = p.kind
<1>1. Stopped(p) = [p EXCEPT !.buffer = Nothing]
  BY NotNothing DEF Stopped
<1> QED
  BY <1>1 DEF SameTracker, Part

\* Take keeps the invariant.
LEMMA TakeStep ==
  ASSUME IInv, NEW m \in Members, Take(m)
  PROVE  IInv'
<1>1. TypeOK /\ MemberInv(m)
  BY DEF IInv
<1>2. /\ pc[m] = "run" /\ part[m] # NoPart /\ part[m].buffer # Nothing
      /\ out'  = [out EXCEPT ![m] = part[m].buffer]
      /\ part' = [part EXCEPT ![m] = Stopped(part[m])]
      /\ pc'   = [pc EXCEPT ![m] = "deliver"]
      /\ UNCHANGED <<broker, group, committed, gen, signal, revoking, ending, epochs,
                     shared, asks, request, accepted>>
  BY DEF Take
<1> DEFINE p == part[m]
           q == Stopped(p)
<1>3. p \in Part /\ p.buffer \in Span /\ out[m] = Nothing /\ ReadInv(p, epochs[m], Nothing)
  BY <1>1, <1>2 DEF TypeOK, Part, MemberInv, PlaceInv
<1>4. /\ q \in Part /\ ReadInv(q, epochs[m], p.buffer)
      /\ GoodInv(p, Nothing, Good, log) => GoodInv(q, p.buffer, Good, log)
      /\ CoverInv(p, Nothing) => CoverInv(q, p.buffer)
  <2> HIDE DEF p
  <2> QED
    BY <1>2, <1>3, TakeFacts DEF p
<1>5. q # NoPart
  BY <1>4, NotNothing
<1>6. part'[m] = q /\ out'[m] = p.buffer /\ pc'[m] = "deliver"
      /\ \A n \in Members \ {m} : part'[n] = part[n] /\ out'[n] = out[n] /\ pc'[n] = pc[n]
  BY <1>1, <1>2 DEF TypeOK
<1> HIDE DEF q
<1>7. TypeOK'
  <2>1. "deliver" \in Places
    BY DEF Places
  <2>2. part' \in [Members -> Part \union {NoPart}] /\ out' \in [Members -> Span \union {Nothing}]
        /\ pc' \in [Members -> Places]
    BY <1>1, <1>2, <1>3, <1>4, <2>1 DEF TypeOK, q
  <2> QED
    BY <1>1, <1>2, <2>2 DEF TypeOK, broker
<1>8. Grown /\ committed' = committed /\ (\A n \in Members \ {m} : Frame(n)) /\ group' = group
      /\ Good' = Good
  BY <1>2, <1>6 DEF Grown, broker, Frame, Good, LogEnd
<1>9. MemberInv(m)'
  <2>1. PlaceInv(m)'
    BY <1>1, <1>2, <1>5, <1>6 DEF MemberInv, PlaceInv
  <2>2. Fetching(m)' /\ signal'[m] = "none" => CoverInv(part'[m], out'[m])
    BY <1>1, <1>2, <1>3, <1>4, <1>6 DEF MemberInv, Fetching
  <2> QED
    BY <1>1, <1>2, <1>4, <1>6, <2>1, <2>2 DEF MemberInv
<1>10. m \in group'.members => MemberGood(m)'
  <2> HAVE m \in group'.members
  <2>1. MemberGood(m)
    BY <1>8 DEF IInv
  <2> QED
    BY <1>2, <1>3, <1>4, <1>6, <1>8, <2>1 DEF MemberGood, Grown
<1> QED
  BY <1>7, <1>8, <1>9, <1>10, MemberStep, BelowStays

\* Accept keeps the invariant.
LEMMA AcceptStep ==
  ASSUME IInv, NEW m \in Members, Accept(m)
  PROVE  IInv'
<1>1. TypeOK /\ MemberInv(m)
  BY DEF IInv
<1> DEFINE p == part[m]
           g == out[m]
<1>2. PICK end \in {n \in CutEnds(g) : n > g.from} :
        /\ accepted' = accepted \union {r \in g.records : r[1] \in g.from .. end - 1}
        /\ part' = [part EXCEPT ![m] = AcceptIn(p, g.epoch, g.from, end)]
        /\ IF end = g.to
           THEN out' = [out EXCEPT ![m] = Nothing] /\ pc' = [pc EXCEPT ![m] = "run"]
           ELSE out' = [out EXCEPT ![m].from = end] /\ UNCHANGED pc
  BY DEF Accept
<1>3. pc[m] = "deliver" /\ UNCHANGED <<broker, group, committed, gen, signal, revoking, ending, epochs,
                 shared, asks, request>>
  BY DEF Accept
<1>4. /\ g # Nothing /\ g \in Span /\ p # NoPart /\ p \in Part /\ ReadInv(p, epochs[m], g)
      /\ request[m] = Nothing
  BY <1>1, <1>3 DEF TypeOK, MemberInv, PlaceInv
<1>5. end \in Nat /\ g.from < end /\ end <= g.to /\ g.from \in Nat /\ g.to \in Nat
  <2>1. g.from \in Nat /\ g.to \in Nat /\ g.records \in SUBSET Pairs
    BY <1>4 DEF Span
  <2>2. end \in CutEnds(g) /\ end > g.from
    BY <1>2
  <2>3. \A r \in g.records : r[1] < g.to /\ r[1] \in Nat
    BY <1>4, <2>1 DEF ReadInv, SpanOf, Pairs
  <2>4. end = g.to \/ \E r \in g.records : end = r[1] + 1
    BY <2>2 DEF CutEnds
  <2> QED
    BY <2>1, <2>2, <2>3, <2>4
<1> DEFINE q == AcceptIn(p, g.epoch, g.from, end)
           kept == IF end = g.to THEN Nothing ELSE [g EXCEPT !.from = end]
<1>6. /\ part'[m] = q /\ out'[m] = kept /\ pc'[m] = IF end = g.to THEN "run" ELSE "deliver"
      /\ \A n \in Members \ {m} : part'[n] = part[n] /\ out'[n] = out[n] /\ pc'[n] = pc[n]
  <2> HIDE DEF q
  <2>1. part'[m] = q /\ \A n \in Members \ {m} : part'[n] = part[n]
    BY <1>1, <1>2 DEF TypeOK, q
  <2>2. CASE end = g.to
    BY <1>1, <1>2, <1>3, <2>1, <2>2 DEF TypeOK
  <2>3. CASE end # g.to
    BY <1>1, <1>2, <1>3, <2>1, <2>3 DEF TypeOK
  <2> QED
    BY <2>2, <2>3
<1>7. \/ end = g.to /\ kept = Nothing
      \/ end < g.to /\ kept = [g EXCEPT !.from = end]
  BY <1>5
<1>8. end # g.to => kept \in Span
  BY <1>4, <1>5 DEF Span
<1>9. Grown /\ committed' = committed /\ group' = group
  BY <1>2, <1>3 DEF Grown, broker
<1>10. /\ Good \subseteq Good'
       /\ \A o \in g.from .. end - 1 : <<o, log[o + 1]>> \in g.records => o \in Good'
  <2>1. Good \subseteq Good'
    BY <1>9, GrownKeeps
  <2>2. ASSUME NEW o \in g.from .. end - 1, <<o, log[o + 1]>> \in g.records
        PROVE  o \in Good'
    <3>1. <<o, log[o + 1]>> \in accepted'
      BY <1>2, <2>2
    <3>2. o \in Nat /\ log' = log
      BY <1>5, <1>9 DEF Grown
    <3> QED
      BY <3>1, <3>2 DEF Good
  <2> QED
    BY <2>1, <2>2
<1>11. /\ q \in Part /\ ReadInv(q, epochs[m], kept)
       /\ CoverInv(p, g) => CoverInv(q, kept)
       /\ GoodInv(p, g, Good, log) => GoodInv(q, kept, Good', log)
  <2> HIDE DEF p, g, kept
  <2> QED
    BY <1>4, <1>5, <1>7, <1>10, AcceptKeeps DEF g, p
<1>12. q # NoPart
  BY <1>11, NotNothing
<1> HIDE DEF q
<1>13. TypeOK'
  <2>1. "run" \in Places /\ "deliver" \in Places
    BY DEF Places
  <2>2. part' \in [Members -> Part \union {NoPart}]
    BY <1>1, <1>2, <1>11 DEF TypeOK, q
  <2>3. pc' \in [Members -> Places] /\ out' \in [Members -> Span \union {Nothing}]
    <3>1. CASE end = g.to
      BY <1>1, <1>2, <2>1, <3>1 DEF TypeOK
    <3>2. CASE end # g.to
      <4>1. out' = [out EXCEPT ![m] = [g EXCEPT !.from = end]] /\ pc' = pc
        BY <1>2, <3>2
      <4>2. [g EXCEPT !.from = end] \in Span
        BY <1>4, <1>5 DEF Span
      <4> QED
        BY <1>1, <4>1, <4>2 DEF TypeOK
    <3> QED
      BY <3>1, <3>2
  <2> QED
    BY <1>1, <1>3, <2>2, <2>3 DEF TypeOK, broker
<1>14. \A n \in Members \ {m} : Frame(n)
  BY <1>3, <1>6 DEF Frame
<1>15. MemberInv(m)'
  <2>1. PlaceInv(m)'
    <3>1. kept # Nothing <=> end # g.to
      <4>1. end # g.to => kept # Nothing
        BY <1>8, NotNothing
      <4> QED
        BY <4>1
    <3> HIDE DEF kept
    <3> QED
      BY <1>1, <1>3, <1>4, <1>6, <1>12, <3>1 DEF MemberInv, PlaceInv
  <2>2. Fetching(m)' /\ signal'[m] = "none" => CoverInv(part'[m], out'[m])
    <3>1. Fetching(m) /\ signal[m] = "none" => CoverInv(p, g)
      BY <1>1 DEF MemberInv
    <3>2. Fetching(m)
      BY <1>3, <1>4 DEF Fetching
    <3> QED
      BY <1>3, <1>6, <1>11, <3>1, <3>2
  <2> QED
    BY <1>1, <1>3, <1>6, <1>11, <2>1, <2>2 DEF MemberInv
<1>16. m \in group'.members => MemberGood(m)'
  <2> HAVE m \in group'.members
  <2>1. MemberGood(m)
    BY <1>9 DEF IInv
  <2>2. GoodInv(q, kept, Good', log)
    BY <1>4, <1>11, <2>1 DEF MemberGood
  <2>3. \A a \in asks[m] : a.epoch = shared[m] => AnswerGood(a, Good', log')
    <3>1. \A u : Keeps(Good, log, Good', log', u)
      BY <1>9, GrownKeeps
    <3> TAKE a \in asks[m]
    <3> HAVE a.epoch = shared[m]
    <3>2. a \in Query /\ AnswerForm(a) /\ AnswerGood(a, Good, log)
      BY <1>1, <1>4, <2>1 DEF MemberInv, MemberGood, TypeOK
    <3> QED
      BY <3>1, <3>2, KeepsAnswer
  <2>4. request'[m] = Nothing /\ asks' = asks /\ shared' = shared /\ log' = log
    BY <1>3, <1>4 DEF broker
  <2> HIDE DEF kept
  <2> QED
    BY <1>6, <2>2, <2>3, <2>4 DEF MemberGood
<1> QED
  BY <1>9, <1>13, <1>14, <1>15, <1>16, MemberStep, BelowStays

\* Defer keeps the invariant.
LEMMA DeferStep ==
  ASSUME IInv, NEW m \in Members, Defer(m)
  PROVE  IInv'
<1>1. TypeOK /\ MemberInv(m)
  BY DEF IInv
<1>2. /\ pc[m] = "deliver" /\ signal[m] # "none"
      /\ out' = [out EXCEPT ![m] = Nothing] /\ pc' = [pc EXCEPT ![m] = "run"]
      /\ UNCHANGED <<broker, group, committed, gen, signal, revoking, ending, part, epochs,
                     shared, asks, request, accepted>>
  BY DEF Defer, DrainDue
<1>3. out'[m] = Nothing /\ pc'[m] = "run" /\ \A n \in Members \ {m} : out'[n] = out[n] /\ pc'[n] = pc[n]
  BY <1>1, <1>2 DEF TypeOK
<1>4. TypeOK'
  <2>1. "run" \in Places
    BY DEF Places
  <2>2. out' \in [Members -> Span \union {Nothing}] /\ pc' \in [Members -> Places]
    BY <1>1, <1>2, <2>1 DEF TypeOK
  <2> QED
    BY <1>1, <1>2, <2>2 DEF TypeOK, broker
<1>5. Grown /\ committed' = committed /\ (\A n \in Members \ {m} : Frame(n)) /\ group' = group
      /\ Good' = Good
  BY <1>2, <1>3 DEF Grown, broker, Frame, Good, LogEnd
<1>6. part[m] # NoPart /\ request[m] = Nothing /\ ReadInv(part[m], epochs[m], out[m]) /\ part[m] \in Part
  BY <1>1, <1>2 DEF MemberInv, PlaceInv, TypeOK
<1>7. SameTracker(part[m], part[m])
  BY <1>6 DEF SameTracker
<1>8. /\ ReadInv(part[m], epochs[m], Nothing)
      /\ GoodInv(part[m], out[m], Good, log) => GoodInv(part[m], Nothing, Good, log)
  BY <1>6, <1>7, KeepTracker
<1>9. MemberInv(m)'
  BY <1>1, <1>2, <1>3, <1>6, <1>8 DEF MemberInv, PlaceInv
<1>10. m \in group'.members => MemberGood(m)'
  <2> HAVE m \in group'.members
  <2>1. MemberGood(m)
    BY <1>5 DEF IInv
  <2> QED
    BY <1>2, <1>3, <1>5, <1>6, <1>8, <2>1 DEF MemberGood, Grown
<1> QED
  BY <1>4, <1>5, <1>9, <1>10, MemberStep, BelowStays

\* Fetching stops: the member's part without its buffer, answers of an older epoch only,
\* and nothing held by deliver.
LEMMA StopStep ==
  ASSUME IInv, NEW m \in Members, NEW place \in {"revoked", "rejoin"},
         pc' = [pc EXCEPT ![m] = place],
         shared' = [shared EXCEPT ![m] = shared[m] + 1],
         part' = [part EXCEPT ![m] = Stopped(part[m])],
         asks' = asks \/ asks' = [asks EXCEPT ![m] = {}],
         out' = [out EXCEPT ![m] = Nothing], request' = [request EXCEPT ![m] = Nothing],
         UNCHANGED <<broker, group, committed, signal, epochs, accepted>>
  PROVE  IInv'
<1>1. TypeOK /\ MemberInv(m)
  BY DEF IInv
<1>2. /\ pc'[m] = place /\ shared'[m] = shared[m] + 1 /\ part'[m] = Stopped(part[m])
      /\ asks'[m] \subseteq asks[m] /\ out'[m] = Nothing /\ request'[m] = Nothing
      /\ \A n \in Members \ {m} : /\ pc'[n] = pc[n] /\ shared'[n] = shared[n] /\ part'[n] = part[n]
                                  /\ asks'[n] = asks[n] /\ out'[n] = out[n] /\ request'[n] = request[n]
  BY <1>1 DEF TypeOK
<1>3. part[m] # NoPart =>
        /\ SameTracker(part[m], Stopped(part[m])) /\ Stopped(part[m]).buffer = Nothing
        /\ Stopped(part[m]).kind = part[m].kind /\ Stopped(part[m]) \in Part
  BY <1>1, StoppedFacts DEF TypeOK, SameTracker
<1>4. part[m] = NoPart => Stopped(part[m]) = NoPart
  BY DEF Stopped
<1> DEFINE q == Stopped(part[m])
<1> HIDE DEF q
<1>5. TypeOK'
  <2>1. place \in Places
    BY DEF Places
  <2>2. q \in Part \union {NoPart}
    BY <1>3, <1>4 DEF q
  <2>3. pc' \in [Members -> Places] /\ shared' \in [Members -> Nat]
    BY <1>1, <2>1 DEF TypeOK
  <2>5. asks' \in [Members -> SUBSET Query]
    BY <1>1 DEF TypeOK
  <2>6. out' \in [Members -> Span \union {Nothing}] /\ request' \in [Members -> Commit \union {Nothing}]
    BY <1>1 DEF TypeOK
  <2>4. part' \in [Members -> Part \union {NoPart}]
    BY <1>1, <2>2 DEF TypeOK, q
  <2> QED
    BY <1>1, <2>3, <2>4, <2>5, <2>6 DEF TypeOK, broker
<1>6. Grown /\ committed' = committed /\ (\A n \in Members \ {m} : Frame(n)) /\ group' = group
      /\ Good' = Good
  BY <1>2 DEF Grown, broker, Frame, Good, LogEnd
<1>7. ASSUME part[m] # NoPart
      PROVE  /\ ReadInv(q, epochs[m], Nothing)
             /\ GoodInv(part[m], out[m], Good, log) => GoodInv(q, Nothing, Good, log)
  <2>1. ReadInv(part[m], epochs[m], out[m])
    BY <1>1, <1>7 DEF MemberInv
  <2>2. SameTracker(part[m], q) /\ q.buffer = Nothing /\ q.kind = part[m].kind
    BY <1>3, <1>7 DEF q
  <2> QED
    BY <2>1, <2>2, KeepTracker
<1>8. part'[m] # NoPart => part[m] # NoPart
  BY <1>2, <1>4
<1>9. MemberInv(m)'
  <2>1. PlaceInv(m)'
    BY <1>2 DEF PlaceInv
  <2>2. ~Fetching(m)'
    BY <1>2 DEF Fetching
  <2>3. \A a \in asks'[m] : a.epoch <= shared'[m] /\ AnswerForm(a)
    <3>1. \A a \in asks[m] : a.epoch \in Nat /\ shared[m] \in Nat
      BY <1>1 DEF TypeOK, Query
    <3> QED
      BY <1>1, <1>2, <3>1 DEF MemberInv
  <2>4. part'[m] # NoPart => ReadInv(part'[m], epochs'[m], out'[m])
    BY <1>2, <1>7, <1>8 DEF q
  <2> QED
    BY <2>1, <2>2, <2>3, <2>4 DEF MemberInv
<1>10. m \in group'.members => MemberGood(m)'
  <2> HAVE m \in group'.members
  <2>1. MemberGood(m)
    BY <1>6 DEF IInv
  <2>2. \A a \in asks'[m] : a.epoch # shared'[m]
    <3>1. \A a \in asks[m] : a.epoch \in Nat /\ shared[m] \in Nat /\ a.epoch <= shared[m]
      BY <1>1 DEF TypeOK, Query, MemberInv
    <3> QED
      BY <1>2, <3>1
  <2>3. part'[m] # NoPart => GoodInv(part'[m], out'[m], Good', log')
    BY <1>2, <1>6, <1>7, <1>8, <2>1 DEF MemberGood, Grown, q
  <2> QED
    BY <1>2, <2>2, <2>3 DEF MemberGood
<1> QED
  BY <1>5, <1>6, <1>9, <1>10, MemberStep, BelowStays

\* Revoke keeps the invariant.
LEMMA RevokeStep ==
  ASSUME IInv, NEW m \in Members, Revoke(m)
  PROVE  IInv'
<1>1. TypeOK /\ MemberInv(m)
  BY DEF IInv
<1>2. /\ pc[m] = "run" /\ pc' = [pc EXCEPT ![m] = "revoked"]
      /\ asks' = asks \/ asks' = [asks EXCEPT ![m] = {}]
      /\ shared' = [shared EXCEPT ![m] = shared[m] + 1]
      /\ part' = [part EXCEPT ![m] = Stopped(part[m])]
      /\ UNCHANGED <<broker, group, committed, signal, epochs, accepted, out, request>>
  BY DEF Revoke, StopFetching, AbortLoops
<1>3. out[m] = Nothing /\ request[m] = Nothing
  BY <1>1, <1>2 DEF MemberInv, PlaceInv
<1>4. out' = [out EXCEPT ![m] = Nothing] /\ request' = [request EXCEPT ![m] = Nothing]
  BY <1>1, <1>2, <1>3 DEF TypeOK
<1>5. "revoked" \in {"revoked", "rejoin"} /\ UNCHANGED <<broker, group, committed, signal, epochs, accepted>>
  BY <1>2
<1> QED
  BY <1>2, <1>4, <1>5, StopStep

\* Shutdown keeps the invariant.
LEMMA ShutdownStep ==
  ASSUME IInv, NEW m \in Members, Shutdown(m)
  PROVE  IInv'
<1> DEFINE place == IF Installed(m) THEN "revoked" ELSE "rejoin"
<1>1. /\ pc' = [pc EXCEPT ![m] = place] /\ asks' = [asks EXCEPT ![m] = {}]
      /\ shared' = [shared EXCEPT ![m] = shared[m] + 1]
      /\ part' = [part EXCEPT ![m] = Stopped(part[m])]
      /\ out' = [out EXCEPT ![m] = Nothing] /\ request' = [request EXCEPT ![m] = Nothing]
      /\ UNCHANGED <<broker, group, committed, signal, epochs, accepted>>
  BY DEF Shutdown
<1>2. place \in {"revoked", "rejoin"}
  OBVIOUS
<1> HIDE DEF place
<1> QED
  BY <1>1, <1>2, StopStep

\* SendCommit keeps the invariant.
LEMMA SendCommitStep ==
  ASSUME IInv, NEW m \in Members, SendCommit(m)
  PROVE  IInv'
<1>1. TypeOK /\ MemberInv(m)
  BY DEF IInv
<1> DEFINE c == [offset |-> part[m].candidate, answer |-> "sent"]
<1>2. /\ part[m] # NoPart /\ request' = [request EXCEPT ![m] = c]
      /\ \/ pc[m] = "run" /\ pc' = [pc EXCEPT ![m] = "commit"]
         \/ pc[m] = "revoked" /\ pc' = [pc EXCEPT ![m] = "finalCommit"]
      /\ UNCHANGED <<broker, group, committed, gen, signal, revoking, ending, part, epochs,
                     shared, asks, out, accepted>>
  BY DEF SendCommit, HasCommit
<1>3. part[m] \in Part /\ part[m].candidate \in Offset
  BY <1>1, <1>2 DEF TypeOK, Part
<1>4. c \in Commit /\ c # Nothing /\ c.offset = part[m].candidate
  BY <1>3, NotNothing DEF Commit
<1> HIDE DEF c
<1>5. /\ request'[m] = c /\ \A n \in Members \ {m} : request'[n] = request[n] /\ pc'[n] = pc[n]
      /\ \/ pc[m] = "run" /\ pc'[m] = "commit"
         \/ pc[m] = "revoked" /\ pc'[m] = "finalCommit"
  BY <1>1, <1>2 DEF TypeOK
<1>6. TypeOK'
  <2>1. "commit" \in Places /\ "finalCommit" \in Places
    BY DEF Places
  <2>2. request' \in [Members -> Commit \union {Nothing}]
    BY <1>1, <1>2, <1>4 DEF TypeOK
  <2>3. pc' \in [Members -> Places]
    BY <1>1, <1>2, <2>1 DEF TypeOK
  <2> QED
    BY <1>1, <1>2, <2>2, <2>3 DEF TypeOK, broker
<1>7. Grown /\ committed' = committed /\ (\A n \in Members \ {m} : Frame(n)) /\ group' = group
      /\ Good' = Good
  BY <1>2, <1>5 DEF Grown, broker, Frame, Good, LogEnd
<1>8. MemberInv(m)'
  <2>1. PlaceInv(m)'
    BY <1>1, <1>2, <1>4, <1>5 DEF MemberInv, PlaceInv
  <2>2. Fetching(m)' => Fetching(m)
    BY <1>2, <1>5 DEF Fetching
  <2> QED
    BY <1>1, <1>2, <2>1, <2>2 DEF MemberInv
<1>9. m \in group'.members => MemberGood(m)'
  <2> HAVE m \in group'.members
  <2>1. MemberGood(m)
    BY <1>7 DEF IInv
  <2>2. \A o \in Done(part[m]) : o \in Good
    BY <1>2, <2>1 DEF MemberGood, GoodInv
  <2>3. Below(part[m].candidate, Good)
    BY <1>3, <2>2, KafkaConstants DEF Below, Done, Offset
  <2> QED
    BY <1>2, <1>4, <1>5, <1>7, <2>1, <2>3 DEF MemberGood, Grown
<1> QED
  BY <1>6, <1>7, <1>8, <1>9, MemberStep, BelowStays

\* ServeCommit keeps the invariant: what a member in standing commits is good.
LEMMA ServeCommitStep ==
  ASSUME IInv, NEW m \in Members, ServeCommit(m)
  PROVE  IInv'
<1>1. TypeOK /\ MemberInv(m)
  BY DEF IInv
<1>2. /\ request[m] # Nothing
      /\ \E code \in {"ok", "rebalance", "fenced"} : request' = [request EXCEPT ![m].answer = code]
      /\ committed' = committed \/ (m \in group.members /\ committed' = request[m].offset)
      /\ UNCHANGED <<broker, group, pc, gen, signal, revoking, ending, part, epochs, shared,
                     asks, out, accepted>>
  BY DEF ServeCommit, Answered, Standing
<1>3. request[m] \in Commit /\ request[m].offset \in Offset
  BY <1>1, <1>2 DEF TypeOK, Commit
<1>4. PICK code \in {"ok", "rebalance", "fenced"} : request' = [request EXCEPT ![m] = [request[m] EXCEPT !.answer = code]]
  BY <1>1, <1>2 DEF TypeOK
<1> DEFINE c == [request[m] EXCEPT !.answer = code]
<1>5. c \in Commit /\ c # Nothing /\ c.offset = request[m].offset
  BY <1>3, NotNothing DEF Commit
<1> HIDE DEF c
<1>6. request'[m] = c /\ (\A n \in Members \ {m} : request'[n] = request[n])
      /\ request' \in [Members -> Commit \union {Nothing}]
  BY <1>1, <1>4, <1>5 DEF TypeOK, c
<1>7. TypeOK'
  BY <1>1, <1>2, <1>3, <1>6 DEF TypeOK, broker
<1>8. Grown /\ (\A n \in Members \ {m} : Frame(n)) /\ group' = group /\ Good' = Good
  BY <1>2, <1>6 DEF Grown, broker, Frame, Good, LogEnd
<1>9. Below(committed', Good')
  BY <1>2, <1>8 DEF IInv, MemberGood
<1>10. MemberInv(m)'
  BY <1>1, <1>2, <1>5, <1>6 DEF MemberInv, PlaceInv, Fetching
<1>11. m \in group'.members => MemberGood(m)'
  <2> HAVE m \in group'.members
  <2>1. MemberGood(m)
    BY <1>8 DEF IInv
  <2> QED
    BY <1>2, <1>5, <1>6, <1>8, <2>1 DEF MemberGood, Grown
<1> QED
  BY <1>7, <1>8, <1>9, <1>10, <1>11, MemberStep

\* CommitAnswered keeps the invariant.
LEMMA CommitAnsweredStep ==
  ASSUME IInv, NEW m \in Members, CommitAnswered(m)
  PROVE  IInv'
<1>1. TypeOK /\ MemberInv(m)
  BY DEF IInv
<1>2. PICK code \in Heard(m) :
        /\ part' = [part EXCEPT ![m].last = IF code = "ok" THEN request[m].offset ELSE @]
        /\ signal' = [signal EXCEPT ![m] =
                        IF code = "fenced" THEN Raise(m, "lost")
                        ELSE IF code = "rebalance" THEN Raise(m, "rebalance") ELSE signal[m]]
        /\ \E next \in AfterCommit(m, code) : pc' = [pc EXCEPT ![m] = next]
  BY DEF CommitAnswered
<1>3. /\ request[m] # Nothing /\ request' = [request EXCEPT ![m] = Nothing]
      /\ UNCHANGED <<broker, group, committed, gen, revoking, ending, epochs, shared, asks,
                     out, accepted>>
  BY DEF CommitAnswered
<1>4. /\ pc[m] \in {"commit", "finalCommit"} /\ part[m] # NoPart /\ part[m] \in Part /\ out[m] = Nothing
      /\ ReadInv(part[m], epochs[m], out[m]) /\ request[m] \in Commit
  BY <1>1, <1>3 DEF MemberInv, PlaceInv, TypeOK
<1> DEFINE last == IF code = "ok" THEN request[m].offset ELSE part[m].last
           q == [part[m] EXCEPT !.last = last]
<1>5. last \in Int
  BY <1>4 DEF Part, Commit, Offset
<1> HIDE DEF last
<1>6. SameTracker(part[m], q) /\ q.buffer = part[m].buffer /\ q.kind = part[m].kind /\ q \in Part
  BY <1>4, <1>5 DEF SameTracker, Part
<1>7. part' = [part EXCEPT ![m] = q]
  BY <1>1, <1>2 DEF TypeOK, last
<1> HIDE DEF q
<1>8. PICK next \in {"run", "revoked", "rejoin"} :
        /\ pc' = [pc EXCEPT ![m] = next]
        /\ pc[m] = "commit" \/ next # "run"
  BY <1>2, <1>4 DEF AfterCommit
<1>9. /\ part'[m] = q /\ pc'[m] = next /\ request'[m] = Nothing
      /\ (signal'[m] = "none" => signal[m] = "none") /\ signal' \in [Members -> {"none", "lost", "rebalance"}]
      /\ \A n \in Members \ {m} : /\ part'[n] = part[n] /\ pc'[n] = pc[n]
                                  /\ request'[n] = request[n] /\ signal'[n] = signal[n]
  <2>1. /\ part'[m] = q /\ pc'[m] = next /\ request'[m] = Nothing
        /\ \A n \in Members \ {m} : part'[n] = part[n] /\ pc'[n] = pc[n] /\ request'[n] = request[n]
    BY <1>1, <1>3, <1>7, <1>8 DEF TypeOK
  <2>2. PICK v \in {signal[m], "lost", "rebalance"} : signal' = [signal EXCEPT ![m] = v]
    BY <1>1, <1>2 DEF Raise
  <2>3. /\ (signal'[m] = "none" => signal[m] = "none") /\ signal' \in [Members -> {"none", "lost", "rebalance"}]
        /\ \A n \in Members \ {m} : signal'[n] = signal[n]
    BY <1>1, <2>2 DEF TypeOK
  <2> QED
    BY <2>1, <2>3
<1>10. TypeOK'
  <2>1. next \in Places
    BY DEF Places
  <2>2. /\ request' \in [Members -> Commit \union {Nothing}] /\ pc' \in [Members -> Places]
        /\ part' \in [Members -> Part \union {NoPart}]
    BY <1>1, <1>3, <1>6, <1>7, <1>8, <2>1 DEF TypeOK
  <2> QED
    BY <1>1, <1>3, <1>9, <2>2 DEF TypeOK, broker
<1>11. Grown /\ committed' = committed /\ (\A n \in Members \ {m} : Frame(n)) /\ group' = group
      /\ Good' = Good
  BY <1>3, <1>9 DEF Grown, broker, Frame, Good, LogEnd
<1>12. /\ ReadInv(q, epochs[m], out[m]) /\ q # NoPart
       /\ GoodInv(part[m], out[m], Good, log) => GoodInv(q, out[m], Good, log)
       /\ CoverInv(part[m], out[m]) => CoverInv(q, out[m])
  BY <1>4, <1>6, KeepTracker, NotNothing
<1>13. MemberInv(m)'
  <2>1. PlaceInv(m)'
    BY <1>3, <1>4, <1>9, <1>12 DEF PlaceInv
  <2>2. Fetching(m)' => Fetching(m)
    BY <1>4, <1>8, <1>9 DEF Fetching
  <2> QED
    BY <1>1, <1>3, <1>9, <1>12, <2>1, <2>2 DEF MemberInv
<1>14. m \in group'.members => MemberGood(m)'
  <2> HAVE m \in group'.members
  <2>1. MemberGood(m)
    BY <1>11 DEF IInv
  <2> QED
    BY <1>3, <1>4, <1>9, <1>11, <1>12, <2>1 DEF MemberGood, Grown
<1> QED
  BY <1>10, <1>11, <1>13, <1>14, MemberStep, BelowStays

\* A member without a part has nothing to answer for.
LEMMA GoneStep ==
  ASSUME IInv, TypeOK', Grown, committed' = committed, NEW m \in Members,
         \A n \in Members \ {m} : Frame(n), group'.members \ {m} \subseteq group.members,
         part'[m] = NoPart, request'[m] = Nothing, out'[m] = Nothing,
         pc'[m] \notin {"deliver", "commit", "finalCommit"},
         \A a \in asks'[m] : a.epoch <= shared'[m] /\ AnswerForm(a)
  PROVE  IInv'
<1>1. MemberInv(m)'
  BY DEF MemberInv, PlaceInv, Fetching
<1>2. MemberGood(m)'
  BY DEF MemberGood
<1> QED
  BY <1>1, <1>2, MemberStep, BelowStays

\* JoinGroup adds the member.
LEMMA JoinGroupFacts ==
  ASSUME TypeOK, NEW m \in Members, JoinGroup(m)
  PROVE  /\ group' \in [gen : Nat, members : SUBSET Members, joined : SUBSET Members,
                        owner : Members \union {Peer}, rebalancing : BOOLEAN]
         /\ group'.members \ {m} \subseteq group.members
         /\ pc' = [pc EXCEPT ![m] = "wait"] /\ pc' \in [Members -> Places] /\ pc'[m] = "wait"
         /\ \A n \in Members \ {m} : pc'[n] = pc[n]
<1>1. "wait" \in Places
  BY DEF Places
<1>2. group' = [group EXCEPT !.members = group.members \union {m},
                             !.joined = group.joined \union {m}, !.rebalancing = TRUE]
  BY DEF JoinGroup
<1>3. /\ group' \in [gen : Nat, members : SUBSET Members, joined : SUBSET Members,
                      owner : Members \union {Peer}, rebalancing : BOOLEAN]
      /\ group'.members \ {m} \subseteq group.members
  BY <1>2 DEF TypeOK
<1> QED
  BY <1>1, <1>3 DEF TypeOK, JoinGroup

\* WithoutMember takes the member out.
LEMMA WithoutFacts ==
  ASSUME TypeOK, NEW m \in Members
  PROVE  /\ WithoutMember(m) \in [gen : Nat, members : SUBSET Members, joined : SUBSET Members,
                                  owner : Members \union {Peer}, rebalancing : BOOLEAN]
         /\ WithoutMember(m).members = group.members \ {m}
BY DEF TypeOK, WithoutMember

\* Rejoin keeps the invariant.
LEMMA RejoinStep ==
  ASSUME IInv, NEW m \in Members, Rejoin(m)
  PROVE  IInv'
<1>1. TypeOK /\ MemberInv(m)
  BY DEF IInv
<1>2. /\ pc[m] \in {"rejoin", "revoked"} /\ JoinGroup(m)
      /\ shared'   = [shared EXCEPT ![m] = shared[m] + 1]
      /\ part'     = [part EXCEPT ![m] = NoPart]
      /\ signal'   = [signal EXCEPT ![m] = "none"]
      /\ UNCHANGED <<broker, committed, epochs, asks, out, request, accepted>>
  BY DEF Rejoin, Committed
<1>3. out[m] = Nothing /\ request[m] = Nothing
  BY <1>1, <1>2 DEF MemberInv, PlaceInv
<1>4. /\ group' \in [gen : Nat, members : SUBSET Members, joined : SUBSET Members,
                      owner : Members \union {Peer}, rebalancing : BOOLEAN]
      /\ group'.members \ {m} \subseteq group.members
      /\ pc' \in [Members -> Places] /\ pc'[m] = "wait"
      /\ \A n \in Members \ {m} : pc'[n] = pc[n]
  BY <1>1, <1>2, JoinGroupFacts
<1>5. /\ shared'[m] = shared[m] + 1 /\ part'[m] = NoPart
      /\ \A n \in Members \ {m} : shared'[n] = shared[n] /\ part'[n] = part[n] /\ signal'[n] = signal[n]
  BY <1>1, <1>2 DEF TypeOK
<1>6. TypeOK'
  <2>1. /\ shared' \in [Members -> Nat] /\ part' \in [Members -> Part \union {NoPart}]
        /\ signal' \in [Members -> {"none", "lost", "rebalance"}]
    BY <1>1, <1>2 DEF TypeOK
  <2> QED
    BY <1>1, <1>2, <1>4, <2>1 DEF TypeOK, broker
<1>7. Grown /\ committed' = committed /\ \A n \in Members \ {m} : Frame(n)
  BY <1>2, <1>4, <1>5 DEF Grown, broker, Frame
<1>8. \A a \in asks'[m] : a.epoch <= shared'[m] /\ AnswerForm(a)
  <2>1. \A a \in asks[m] : a.epoch \in Nat /\ shared[m] \in Nat
    BY <1>1 DEF TypeOK, Query
  <2> QED
    BY <1>1, <1>2, <1>5, <2>1 DEF MemberInv
<1>9. pc'[m] \notin {"deliver", "commit", "finalCommit"} /\ out'[m] = Nothing /\ request'[m] = Nothing
  BY <1>2, <1>3, <1>4
<1> QED
  BY <1>4, <1>5, <1>6, <1>7, <1>8, <1>9, GoneStep

\* Leave keeps the invariant.
LEMMA LeaveStep ==
  ASSUME IInv, NEW m \in Members, Leave(m)
  PROVE  IInv'
<1>1. TypeOK /\ MemberInv(m)
  BY DEF IInv
<1>2. /\ pc[m] \in {"rejoin", "revoked"}
      /\ part'  = [part EXCEPT ![m] = NoPart] /\ pc' = [pc EXCEPT ![m] = "left"]
      /\ group' = IF m \in group.members THEN WithoutMember(m) ELSE group
      /\ UNCHANGED <<broker, committed, signal, epochs, shared, asks, out, request, accepted>>
  BY DEF Leave, Committed
<1>3. out[m] = Nothing /\ request[m] = Nothing
  BY <1>1, <1>2 DEF MemberInv, PlaceInv
<1>4. /\ group' \in [gen : Nat, members : SUBSET Members, joined : SUBSET Members,
                      owner : Members \union {Peer}, rebalancing : BOOLEAN]
      /\ group'.members \ {m} \subseteq group.members
  <2>1. CASE m \in group.members
    BY <1>1, <1>2, <2>1, WithoutFacts
  <2>2. CASE m \notin group.members
    BY <1>1, <1>2, <2>2 DEF TypeOK
  <2> QED
    BY <2>1, <2>2
<1>5. /\ part'[m] = NoPart /\ pc'[m] = "left"
      /\ \A n \in Members \ {m} : part'[n] = part[n] /\ pc'[n] = pc[n]
  BY <1>1, <1>2 DEF TypeOK
<1>6. TypeOK'
  <2>1. "left" \in Places
    BY DEF Places
  <2>2. pc' \in [Members -> Places] /\ part' \in [Members -> Part \union {NoPart}]
    BY <1>1, <1>2, <2>1 DEF TypeOK
  <2> QED
    BY <1>1, <1>2, <1>4, <2>2 DEF TypeOK, broker
<1>7. Grown /\ committed' = committed /\ \A n \in Members \ {m} : Frame(n)
  BY <1>2, <1>5 DEF Grown, broker, Frame
<1>8. \A a \in asks'[m] : a.epoch <= shared'[m] /\ AnswerForm(a)
  BY <1>1, <1>2 DEF MemberInv
<1>9. pc'[m] \notin {"deliver", "commit", "finalCommit"} /\ out'[m] = Nothing /\ request'[m] = Nothing
  BY <1>2, <1>3, <1>5
<1> QED
  BY <1>4, <1>5, <1>6, <1>7, <1>8, <1>9, GoneStep

\* Join, JoinRefused and Abandon keep the invariant.
LEMMA JoinStep ==
  ASSUME IInv, NEW m \in Members, Join(m) \/ JoinRefused(m) \/ Abandon(m)
  PROVE  IInv'
<1>1. TypeOK /\ MemberInv(m)
  BY DEF IInv
<1>2. /\ pc[m] \in {"join", "wait", "assigned", "spare"} /\ JoinGroup(m)
      /\ signal' = signal \/ signal' = [signal EXCEPT ![m] = "none"]
      /\ UNCHANGED <<broker, committed, part, epochs, shared, asks, out, request, accepted>>
  BY DEF Join, JoinRefused, Abandon, local
<1>3. out[m] = Nothing /\ request[m] = Nothing /\ part[m] = NoPart
  BY <1>1, <1>2 DEF MemberInv, PlaceInv
<1>4. /\ group' \in [gen : Nat, members : SUBSET Members, joined : SUBSET Members,
                      owner : Members \union {Peer}, rebalancing : BOOLEAN]
      /\ group'.members \ {m} \subseteq group.members
      /\ pc' \in [Members -> Places] /\ pc'[m] = "wait"
      /\ \A n \in Members \ {m} : pc'[n] = pc[n]
  BY <1>1, <1>2, JoinGroupFacts
<1>5. /\ signal' \in [Members -> {"none", "lost", "rebalance"}]
      /\ \A n \in Members \ {m} : signal'[n] = signal[n]
  BY <1>1, <1>2 DEF TypeOK
<1>6. TypeOK'
  BY <1>1, <1>2, <1>4, <1>5 DEF TypeOK, broker
<1>7. Grown /\ committed' = committed /\ \A n \in Members \ {m} : Frame(n)
  BY <1>2, <1>4, <1>5 DEF Grown, broker, Frame
<1>8. \A a \in asks'[m] : a.epoch <= shared'[m] /\ AnswerForm(a)
  BY <1>1, <1>2 DEF MemberInv
<1>9. /\ pc'[m] \notin {"deliver", "commit", "finalCommit"} /\ out'[m] = Nothing /\ request'[m] = Nothing
      /\ part'[m] = NoPart
  BY <1>2, <1>3, <1>4
<1> QED
  BY <1>4, <1>6, <1>7, <1>8, <1>9, GoneStep

\* Restart keeps the invariant.
LEMMA RestartStep ==
  ASSUME IInv, NEW m \in Members, Restart(m)
  PROVE  IInv'
<1>1. TypeOK /\ MemberInv(m)
  BY DEF IInv
<1>2. /\ pc'       = [pc EXCEPT ![m] = "join"]
      /\ group'    = IF m \in group.members THEN WithoutMember(m) ELSE group
      /\ signal'   = [signal EXCEPT ![m] = "none"]
      /\ part'     = [part EXCEPT ![m] = NoPart]
      /\ epochs'   = [epochs EXCEPT ![m] = 1]
      /\ shared'   = [shared EXCEPT ![m] = 0]
      /\ asks'     = [asks EXCEPT ![m] = {}]
      /\ out'      = [out EXCEPT ![m] = Nothing]
      /\ request'  = [request EXCEPT ![m] = Nothing]
      /\ UNCHANGED <<broker, committed, accepted>>
  BY DEF Restart
<1>3. /\ group' \in [gen : Nat, members : SUBSET Members, joined : SUBSET Members,
                      owner : Members \union {Peer}, rebalancing : BOOLEAN]
      /\ group'.members \ {m} \subseteq group.members
  <2>1. CASE m \in group.members
    BY <1>1, <1>2, <2>1, WithoutFacts
  <2>2. CASE m \notin group.members
    BY <1>1, <1>2, <2>2 DEF TypeOK
  <2> QED
    BY <2>1, <2>2
<1>4. /\ part'[m] = NoPart /\ pc'[m] = "join" /\ out'[m] = Nothing /\ request'[m] = Nothing /\ asks'[m] = {}
      /\ \A n \in Members \ {m} : /\ part'[n] = part[n] /\ pc'[n] = pc[n] /\ signal'[n] = signal[n]
                                  /\ epochs'[n] = epochs[n] /\ shared'[n] = shared[n]
                                  /\ asks'[n] = asks[n] /\ out'[n] = out[n] /\ request'[n] = request[n]
  BY <1>1, <1>2 DEF TypeOK
<1>5. TypeOK'
  <2>1. "join" \in Places
    BY DEF Places
  <2>2. pc' \in [Members -> Places] /\ part' \in [Members -> Part \union {NoPart}]
    BY <1>1, <1>2, <2>1 DEF TypeOK
  <2>3. signal' \in [Members -> {"none", "lost", "rebalance"}] /\ asks' \in [Members -> SUBSET Query]
    BY <1>1, <1>2 DEF TypeOK
  <2>4. epochs' \in [Members -> Nat] /\ shared' \in [Members -> Nat]
    BY <1>1, <1>2 DEF TypeOK
  <2>5. out' \in [Members -> Span \union {Nothing}] /\ request' \in [Members -> Commit \union {Nothing}]
    BY <1>1, <1>2 DEF TypeOK
  <2> QED
    BY <1>1, <1>2, <1>3, <2>2, <2>3, <2>4, <2>5 DEF TypeOK, broker
<1>6. Grown /\ committed' = committed /\ \A n \in Members \ {m} : Frame(n)
  BY <1>2, <1>4 DEF Grown, broker, Frame
<1>7. pc'[m] \notin {"deliver", "commit", "finalCommit"} /\ \A a \in asks'[m] : a.epoch <= shared'[m] /\ AnswerForm(a)
  BY <1>4
<1> QED
  BY <1>3, <1>4, <1>5, <1>6, <1>7, GoneStep

\* Install keeps the invariant: a new part is at the committed offset, and no answer on
\* its way is of its assignment.
LEMMA InstallStep ==
  ASSUME IInv, NEW m \in Members, Install(m)
  PROVE  IInv'
<1>1. TypeOK /\ MemberInv(m)
  BY DEF IInv
<1> DEFINE q == IF committed = None THEN NewPart(epochs[m], "start", 0, None)
                ELSE NewPart(epochs[m], "at", committed, committed)
<1>2. /\ pc[m] \in {"assigned", "spare"}
      /\ shared' = [shared EXCEPT ![m] = shared[m] + 1] /\ pc' = [pc EXCEPT ![m] = "run"]
      /\ \/ /\ pc[m] = "assigned" /\ part' = [part EXCEPT ![m] = q]
            /\ epochs' = [epochs EXCEPT ![m] = epochs[m] + 1]
         \/ pc[m] # "assigned" /\ UNCHANGED <<part, epochs>>
      /\ UNCHANGED <<broker, group, committed, signal, asks, out, request, accepted>>
  BY DEF Install
<1>3. out[m] = Nothing /\ request[m] = Nothing /\ part[m] = NoPart /\ epochs[m] \in Nat /\ shared[m] \in Nat
  BY <1>1, <1>2 DEF MemberInv, PlaceInv, TypeOK
<1>4. /\ shared'[m] = shared[m] + 1 /\ pc'[m] = "run"
      /\ \A n \in Members \ {m} : shared'[n] = shared[n] /\ pc'[n] = pc[n]
  BY <1>1, <1>2 DEF TypeOK
<1>5. \A a \in asks[m] : a.epoch <= shared[m] + 1 /\ a.epoch # shared[m] + 1 /\ AnswerForm(a)
  <2>1. \A a \in asks[m] : a.epoch \in Nat
    BY <1>1 DEF TypeOK, Query
  <2> QED
    BY <1>1, <1>3, <2>1 DEF MemberInv
<1>6. pc' \in [Members -> Places] /\ shared' \in [Members -> Nat]
  <2>1. "run" \in Places
    BY DEF Places
  <2> QED
    BY <1>1, <1>2, <1>3, <2>1 DEF TypeOK
<1>7. Grown /\ committed' = committed /\ group' = group /\ Good' = Good
  BY <1>2 DEF Grown, broker, Good, LogEnd
<1>8. CASE pc[m] # "assigned"
  <2>1. UNCHANGED <<part, epochs>>
    BY <1>2, <1>8
  <2>2. TypeOK'
    BY <1>1, <1>2, <1>6, <2>1 DEF TypeOK, broker
  <2>3. \A n \in Members \ {m} : Frame(n)
    BY <1>2, <1>4, <2>1 DEF Frame
  <2>4. /\ part'[m] = NoPart /\ request'[m] = Nothing /\ out'[m] = Nothing
        /\ pc'[m] \notin {"deliver", "commit", "finalCommit"}
        /\ \A a \in asks'[m] : a.epoch <= shared'[m] /\ AnswerForm(a)
    BY <1>2, <1>3, <1>4, <1>5, <2>1
  <2> QED
    BY <1>7, <2>2, <2>3, <2>4, GoneStep
<1>9. CASE pc[m] = "assigned"
  <2>1. part' = [part EXCEPT ![m] = q] /\ epochs' = [epochs EXCEPT ![m] = epochs[m] + 1]
    BY <1>2, <1>9
  <2>2. /\ q \in Part /\ ReadInv(q, epochs[m] + 1, Nothing) /\ CoverInv(q, Nothing)
        /\ GoodInv(q, Nothing, Good, log)
    <3>1. CASE committed = None
      <4>1. 0 \in Offset /\ None \in Int /\ "start" \in {"at", "start"} /\ Below(0, Good)
        BY KafkaConstants DEF Offset, None, Below
      <4> QED
        BY <1>3, <3>1, <4>1, NewPartFacts
    <3>2. CASE committed # None
      <4>1. committed \in Offset /\ committed \in Int /\ "at" \in {"at", "start"} /\ Below(committed, Good)
        BY <1>1, <3>2 DEF TypeOK, Offset, IInv
      <4> QED
        BY <1>3, <3>2, <4>1, NewPartFacts
    <3> QED
      BY <3>1, <3>2
  <2> HIDE DEF q
  <2>3. q # NoPart
    BY <2>2, NotNothing
  <2>4. /\ part'[m] = q /\ epochs'[m] = epochs[m] + 1
        /\ \A n \in Members \ {m} : part'[n] = part[n] /\ epochs'[n] = epochs[n]
    BY <1>1, <2>1 DEF TypeOK
  <2>5. TypeOK'
    <3>1. part' \in [Members -> Part \union {NoPart}] /\ epochs' \in [Members -> Nat]
      BY <1>1, <1>3, <2>1, <2>2 DEF TypeOK
    <3> QED
      BY <1>1, <1>2, <1>6, <3>1 DEF TypeOK, broker
  <2>6. \A n \in Members \ {m} : Frame(n)
    BY <1>2, <1>4, <2>4 DEF Frame
  <2>7. MemberInv(m)'
    <3>1. PlaceInv(m)'
      BY <1>2, <1>3, <1>4, <2>3, <2>4 DEF PlaceInv
    <3> QED
      BY <1>2, <1>3, <1>4, <1>5, <2>2, <2>4, <3>1 DEF MemberInv
  <2>8. MemberGood(m)'
    BY <1>2, <1>3, <1>4, <1>5, <1>7, <2>2, <2>4 DEF MemberGood, Grown
  <2> QED
    BY <1>7, <2>5, <2>6, <2>7, <2>8, MemberStep, BelowStays
<1> QED
  BY <1>8, <1>9

\* Assign keeps the invariant: a member that hears of it was waiting, without a part.
LEMMA AssignStep ==
  ASSUME IInv, Assign
  PROVE  IInv'
<1>1. TypeOK
  BY DEF IInv
<1>2. /\ \E o \in group.members \union {Peer} :
           group' = [gen |-> group.gen + 1, members |-> group.members, joined |-> {},
                     owner |-> o, rebalancing |-> FALSE]
      /\ pc' = [m \in Members |-> IF ~Waiting(m) THEN pc[m]
                                  ELSE IF m = group'.owner THEN "assigned" ELSE "spare"]
      /\ UNCHANGED <<broker, committed, signal, part, epochs, shared, asks, out, request, accepted>>
  BY DEF Assign
<1>3. /\ group' \in [gen : Nat, members : SUBSET Members, joined : SUBSET Members,
                      owner : Members \union {Peer}, rebalancing : BOOLEAN]
      /\ group'.members = group.members
  BY <1>1, <1>2 DEF TypeOK
<1>4. \A n \in Members :
        pc'[n] = pc[n] \/ (pc[n] = "wait" /\ pc'[n] \in {"assigned", "spare"})
  BY <1>2 DEF Waiting
<1>5. pc' \in [Members -> Places]
  <2>1. "assigned" \in Places /\ "spare" \in Places
    BY DEF Places
  <2> QED
    BY <1>1, <1>2, <2>1 DEF TypeOK
<1>6. TypeOK'
  BY <1>1, <1>2, <1>3, <1>5 DEF TypeOK, broker
<1>7. Grown /\ committed' = committed
  BY <1>2 DEF Grown, broker
<1>8. ASSUME NEW n \in Members PROVE MemberInv(n)'
  <2>1. MemberInv(n)
    BY DEF IInv
  <2> QED
    BY <1>2, <1>4, <2>1 DEF MemberInv, PlaceInv, Fetching
<1>9. ASSUME NEW n \in group'.members PROVE MemberGood(n)'
  <2>1. n \in Members /\ MemberInv(n) /\ MemberGood(n)
    BY <1>1, <1>3 DEF IInv, TypeOK
  <2> QED
    BY <1>1, <1>2, <1>7, <2>1, GoodStays
<1>10. Below(committed', Good')
  BY <1>7, BelowStays
<1> QED
  BY <1>6, <1>8, <1>9, <1>10 DEF IInv

\* PeerCommits keeps the invariant: what it commits past it has accepted.
LEMMA PeerCommitsStep ==
  ASSUME IInv, PeerCommits
  PROVE  IInv'
<1>0. MaxOffset \in Nat
  BY KafkaConstants
<1>1. TypeOK /\ Below(committed, Good)
  BY DEF IInv
<1> DEFINE from == IF committed < logStart THEN logStart ELSE Lower(committed, LogEnd)
<1>2. PICK n \in from .. LogEnd : committed' = n /\ accepted' = accepted \union Records(from, n)
  BY DEF PeerCommits
<1>3. UNCHANGED <<broker, group, pc, local>>
  BY DEF PeerCommits
<1>4. LogEnd \in Nat /\ LogEnd <= MaxOffset /\ logStart \in Nat /\ logStart <= LogEnd /\ committed \in Int
  BY <1>0, <1>1 DEF TypeOK, LogEnd, Offset, None
<1>5. from \in Nat /\ from <= LogEnd /\ \A o \in Nat : o < from => o < logStart \/ o < committed
  BY <1>4 DEF Lower
<1> HIDE DEF from
<1>6. n \in Nat /\ n <= LogEnd /\ n \in Offset
  BY <1>0, <1>2, <1>4, <1>5 DEF Offset
<1>7. Grown /\ group' = group /\ \A m \in Members : Frame(m)
  BY <1>2, <1>3 DEF Grown, broker, local, Frame
<1>8. TypeOK'
  BY <1>1, <1>2, <1>3, <1>6 DEF TypeOK, broker, local
<1>9. Below(committed', Good')
  <2> SUFFICES ASSUME NEW o \in Nat, o < n PROVE o \in Good'
    BY <1>2 DEF Below
  <2>1. CASE o < from
    <3>1. o \in Good
      BY <1>1, <1>5, <2>1 DEF Below, Good
    <3> QED
      BY <1>7, <3>1, GrownKeeps
  <2>2. CASE ~(o < from)
    <3>1. o \in from .. n - 1
      BY <1>5, <1>6, <2>2
    <3>2. o \in Silent \/ <<o, log[o + 1]>> \in Records(from, n)
      BY <1>1, <1>5, <1>6, <3>1, RecordsFacts
    <3>3. log' = log
      BY <1>7 DEF Grown
    <3> QED
      BY <1>2, <3>2, <3>3 DEF Good
  <2> QED
    BY <2>1, <2>2
<1> QED
  BY <1>7, <1>8, <1>9, QuietStep

-----------------------------------------------------------------------------
(* The steps of the log.                                                   *)

\* A step of the log keeps the invariant if it keeps every offset a reader has passed.
LEMMA LogStep ==
  ASSUME IInv, TypeOK', UNCHANGED <<group, committed, pc, local>>,
         Keeps(Good, log, Good', log', committed),
         \A m \in group.members :
           /\ part[m] # NoPart => Keeps(Good, log, Good', log', part[m].at)
           /\ request[m] # Nothing => Keeps(Good, log, Good', log', request[m].offset)
           /\ \A a \in asks[m] : Keeps(Good, log, Good', log', a.to)
  PROVE  IInv'
<1>1. UNCHANGED <<group, committed, pc, signal, part, epochs, shared, asks, out, request>>
  BY DEF local
<1>2. TypeOK
  BY DEF IInv
<1>3. ASSUME NEW n \in Members PROVE MemberInv(n)'
  <2>1. MemberInv(n)
    BY DEF IInv
  <2> QED
    BY <1>1, <2>1 DEF MemberInv, PlaceInv, Fetching
<1>4. Below(committed', Good')
  BY <1>1 DEF IInv, Below, Keeps
<1>5. ASSUME NEW n \in group'.members PROVE MemberGood(n)'
  <2>1. n \in group.members /\ n \in Members /\ MemberInv(n) /\ MemberGood(n)
    BY <1>1, <1>2 DEF IInv, TypeOK
  <2>2. request[n] # Nothing => Below(request[n].offset, Good')
    BY <2>1 DEF MemberGood, Below, Keeps
  <2>3. ASSUME part[n] # NoPart PROVE GoodInv(part[n], out[n], Good', log')
    <3>1. /\ ReadInv(part[n], epochs[n], out[n]) /\ GoodInv(part[n], out[n], Good, log)
          /\ Keeps(Good, log, Good', log', part[n].at)
      BY <2>1, <2>3 DEF MemberInv, MemberGood
    <3> QED
      BY <3>1, KeepsPart
  <2>4. ASSUME part[n] # NoPart, NEW a \in asks[n], a.epoch = shared[n]
        PROVE  AnswerGood(a, Good', log')
    <3>1. /\ a \in Query /\ AnswerForm(a) /\ AnswerGood(a, Good, log)
          /\ Keeps(Good, log, Good', log', a.to)
      BY <1>2, <2>1, <2>4 DEF MemberInv, MemberGood, TypeOK
    <3> QED
      BY <3>1, KeepsAnswer
  <2> QED
    BY <1>1, <2>2, <2>3, <2>4 DEF MemberGood
<1> QED
  BY <1>3, <1>4, <1>5 DEF IInv

\* Produce keeps the invariant: a record written behind a reader is overtaken.
LEMMA ProduceStep ==
  ASSUME IInv, Produce
  PROVE  IInv'
<1>0. MaxOffset \in Nat
  BY KafkaConstants
<1>1. TypeOK
  BY DEF IInv
<1>2. /\ LogEnd < MaxOffset /\ log' = Append(log, truncated)
      /\ overtaken' = IF \E o \in ReadUpTo : o > LogEnd
                      THEN overtaken \union {<<LogEnd, truncated>>} ELSE overtaken
      /\ UNCHANGED <<logStart, truncated, group, committed, pc, local, accepted>>
  BY DEF Produce
<1>3. log \in Seq(Nat) /\ truncated \in Nat /\ logStart \in Nat /\ logStart <= Len(log) /\ Len(log) \in Nat
  BY <1>1 DEF TypeOK, Offset
<1>4. /\ log' \in Seq(Nat) /\ Len(log') = Len(log) + 1 /\ log'[Len(log) + 1] = truncated
      /\ \A o \in Nat : o < Len(log) => log'[o + 1] = log[o + 1]
  BY <1>2, <1>3
<1>5. TypeOK'
  <2>1. Len(log') <= MaxOffset /\ logStart' <= Len(log')
    BY <1>0, <1>2, <1>3, <1>4 DEF LogEnd
  <2> QED
    BY <1>1, <1>2, <1>4, <2>1 DEF TypeOK, local
<1>6. ASSUME NEW u \in ReadUpTo, u \in Int PROVE Keeps(Good, log, Good', log', u)
  <2> SUFFICES ASSUME NEW o \in Nat, o < u
               PROVE  (o \in Good => o \in Good') /\ (o \in Good' \/ log'[o + 1] = log[o + 1])
    BY DEF Keeps
  <2>1. CASE o < Len(log)
    <3>1. log'[o + 1] = log[o + 1] /\ ~(o >= Len(log))
      BY <1>3, <1>4, <2>1
    <3>2. overtaken \subseteq overtaken' /\ accepted' = accepted /\ logStart' = logStart
      BY <1>2
    <3> QED
      BY <3>1, <3>2 DEF Good, LogEnd
  <2>2. CASE o = Len(log)
    <3>1. u > LogEnd
      BY <1>3, <1>6, <2>2 DEF LogEnd
    <3>2. <<o, log'[o + 1]>> \in overtaken'
      BY <1>2, <1>4, <2>2, <3>1 DEF LogEnd
    <3> QED
      BY <3>2 DEF Good
  <2>3. CASE o > Len(log)
    <3>1. o >= Len(log')
      BY <1>3, <1>4, <2>3
    <3> QED
      BY <3>1 DEF Good, LogEnd
  <2> QED
    BY <1>3, <2>1, <2>2, <2>3
<1>7. Keeps(Good, log, Good', log', committed)
  <2>1. committed \in ReadUpTo /\ committed \in Int
    BY <1>1 DEF ReadUpTo, TypeOK, Offset, None
  <2> QED
    BY <1>6, <2>1
<1>8. ASSUME NEW m \in group.members
      PROVE  /\ part[m] # NoPart => Keeps(Good, log, Good', log', part[m].at)
             /\ request[m] # Nothing => Keeps(Good, log, Good', log', request[m].offset)
             /\ \A a \in asks[m] : Keeps(Good, log, Good', log', a.to)
  <2>1. m \in Members
    BY <1>1 DEF TypeOK
  <2>2. part[m] # NoPart => part[m].at \in ReadUpTo /\ part[m].at \in Int
    BY <1>1, <2>1 DEF ReadUpTo, TypeOK, Part, Offset
  <2>3. request[m] # Nothing => request[m].offset \in ReadUpTo /\ request[m].offset \in Int
    BY <1>1, <2>1 DEF ReadUpTo, TypeOK, Commit, Offset
  <2>4. \A a \in asks[m] : a.to \in ReadUpTo /\ a.to \in Int
    <3> TAKE a \in asks[m]
    <3>1. a \in UNION {asks[n] : n \in group.members}
      OBVIOUS
    <3>2. a.to \in Int
      BY <1>1, <2>1 DEF TypeOK, Query, Offset
    <3> QED
      BY <3>1, <3>2 DEF ReadUpTo
  <2> QED
    BY <1>6, <2>2, <2>3, <2>4
<1>9. UNCHANGED <<group, committed, pc, local>>
  BY <1>2
<1> QED
  BY <1>5, <1>7, <1>8, <1>9, LogStep

\* Truncate and Retain keep the invariant: what the log loses is good.
LEMMA LoseStep ==
  ASSUME IInv, Truncate \/ Retain
  PROVE  IInv'
<1>0. MaxOffset \in Nat
  BY KafkaConstants
<1>1. TypeOK
  BY DEF IInv
<1>2. UNCHANGED <<group, committed, pc, local>> /\ overtaken' = overtaken /\ accepted' = accepted
  BY DEF Truncate, Retain
<1>3. log \in Seq(Nat) /\ truncated \in Nat /\ logStart \in Nat /\ logStart <= Len(log) /\ Len(log) \in Nat
      /\ Len(log) <= MaxOffset
  BY <1>1 DEF TypeOK, Offset
<1>4. /\ log' \in Seq(Nat) /\ Len(log') \in Nat /\ Len(log') <= Len(log) /\ truncated' \in Nat
      /\ logStart' \in Nat /\ logStart <= logStart' /\ logStart' <= Len(log')
      /\ \A o \in Nat : o < Len(log') => log'[o + 1] = log[o + 1]
  <2>1. CASE Truncate
    <3>1. PICK n \in logStart .. LogEnd - 1 : log' = SubSeq(log, 1, n)
      BY <2>1 DEF Truncate
    <3>2. n \in Nat /\ n < Len(log) /\ logStart <= n
      BY <1>3, <3>1 DEF LogEnd
    <3>3. log' \in Seq(Nat) /\ Len(log') = n /\ \A i \in 1 .. n : log'[i] = log[i]
      BY <1>3, <3>1, <3>2
    <3>4. logStart' = logStart /\ truncated' = truncated + 1
      BY <2>1 DEF Truncate
    <3>5. \A o \in Nat : o < n => o + 1 \in 1 .. n
      BY <3>2
    <3> QED
      BY <1>3, <3>2, <3>3, <3>4, <3>5
  <2>2. CASE Retain
    BY <1>3, <2>2 DEF Retain, LogEnd
  <2> QED
    BY <2>1, <2>2
<1>5. TypeOK'
  <2>1. Len(log') <= MaxOffset /\ logStart' \in Offset
    BY <1>0, <1>3, <1>4 DEF Offset
  <2> QED
    BY <1>1, <1>2, <1>4, <2>1 DEF TypeOK, local
<1>6. \A u : Keeps(Good, log, Good', log', u)
  <2> SUFFICES ASSUME NEW o \in Nat
               PROVE  (o \in Good => o \in Good') /\ (o \in Good' \/ log'[o + 1] = log[o + 1])
    BY DEF Keeps
  <2>1. CASE o < Len(log')
    <3>1. log'[o + 1] = log[o + 1] /\ ~(o >= Len(log))
      BY <1>3, <1>4, <2>1
    <3>2. o < logStart => o < logStart'
      BY <1>3, <1>4
    <3> QED
      BY <1>2, <3>1, <3>2 DEF Good, LogEnd
  <2>2. CASE ~(o < Len(log'))
    <3>1. o >= Len(log')
      BY <1>4, <2>2
    <3> QED
      BY <3>1 DEF Good, LogEnd
  <2> QED
    BY <2>1, <2>2
<1> QED
  BY <1>2, <1>5, <1>6, LogStep

-----------------------------------------------------------------------------

\* A step that changes nothing of a member, the log or the group.
LEMMA StutterStep ==
  ASSUME IInv, UNCHANGED vars
  PROVE  IInv'
<1>1. UNCHANGED <<broker, group, committed, pc, local, accepted>>
  BY DEF vars
<1>2. TypeOK'
  BY <1>1 DEF IInv, TypeOK, broker, local
<1>3. Grown /\ committed' = committed /\ group' = group /\ \A n \in Members : Frame(n)
  BY <1>1 DEF Grown, broker, local, Frame
<1> QED
  BY <1>2, <1>3, QuietStep, BelowStays

\* The initial state satisfies the invariant.
LEMMA InitHolds == Init => IInv
<1> SUFFICES ASSUME Init PROVE IInv
  OBVIOUS
<1>0. MaxOffset \in Nat
  BY KafkaConstants
<1>1. log \in Seq(Nat) /\ Len(log) = MaxOffset
  <2>1. log = [i \in 1 .. MaxOffset |-> 0] /\ 0 \in Nat
    BY DEF Init
  <2> QED
    BY <1>0, <2>1
<1>2. TypeOK
  <2>1. /\ group \in [gen : Nat, members : SUBSET Members, joined : SUBSET Members,
                       owner : Members \union {Peer}, rebalancing : BOOLEAN]
        /\ logStart \in Offset /\ logStart <= Len(log) /\ truncated \in Nat /\ committed \in Offset \union {None}
        /\ Len(log) <= MaxOffset
    BY <1>0, <1>1 DEF Init, Offset
  <2>2. "join" \in Places
    BY DEF Places
  <2>3. /\ pc \in [Members -> Places] /\ signal \in [Members -> {"none", "lost", "rebalance"}]
        /\ part \in [Members -> Part \union {NoPart}]
    BY <2>2 DEF Init
  <2>4. /\ epochs \in [Members -> Nat] /\ shared \in [Members -> Nat] /\ asks \in [Members -> SUBSET Query]
        /\ out \in [Members -> Span \union {Nothing}] /\ request \in [Members -> Commit \union {Nothing}]
    BY DEF Init
  <2> QED
    BY <1>1, <2>1, <2>3, <2>4 DEF TypeOK
<1>3. \A m \in Members : MemberInv(m)
  BY DEF Init, MemberInv, PlaceInv, Fetching
<1>4. Below(committed, Good)
  BY DEF Init, Below, None
<1>5. group.members = {}
  BY DEF Init
<1> QED
  BY <1>2, <1>3, <1>4, <1>5 DEF IInv

\* The invariant is inductive: every step of the group, of the log and of a member keeps
\* what is committed, asked to be committed and done within what is delivered, and what
\* the position has passed within what is done or on its way.
THEOREM KafkaInductive == Spec => []IInv
<1>1. Init => IInv
  BY InitHolds
<1>2. IInv /\ [Next]_vars => IInv'
  <2> SUFFICES ASSUME IInv, [Next]_vars PROVE IInv'
    OBVIOUS
  <2>1. CASE Produce
    BY <2>1, ProduceStep
  <2>2. CASE Truncate \/ Retain
    BY <2>2, LoseStep
  <2>3. CASE Assign
    BY <2>3, AssignStep
  <2>4. CASE PeerMoves
    BY <2>4, PeerMovesStep
  <2>5. CASE PeerCommits
    BY <2>5, PeerCommitsStep
  <2>6. ASSUME NEW m \in Members,
               \/ Expel(m) \/ Heartbeat(m) \/ TopicChanged(m)
               \/ Ask(m) \/ Answer(m) \/ AskFails(m)
        PROVE  IInv'
    BY <2>6, ExpelStep, SignalStep, AskStep, AnswerStep, AskFailsStep
  <2>7. ASSUME NEW m \in Members,
               \/ Take(m) \/ Accept(m) \/ Defer(m) \/ Revoke(m) \/ Shutdown(m)
               \/ SendCommit(m) \/ ServeCommit(m) \/ CommitAnswered(m)
        PROVE  IInv'
    BY <2>7, TakeStep, AcceptStep, DeferStep, RevokeStep, ShutdownStep, SendCommitStep,
       ServeCommitStep, CommitAnsweredStep
  <2>8. ASSUME NEW m \in Members,
               \/ Rejoin(m) \/ Leave(m) \/ Join(m) \/ JoinRefused(m) \/ Install(m) \/ Abandon(m)
               \/ Restart(m)
        PROVE  IInv'
    BY <2>8, RejoinStep, LeaveStep, JoinStep, InstallStep, RestartStep
  <2>9. CASE UNCHANGED vars
    BY <2>9, StutterStep
  <2> QED
    BY <2>1, <2>2, <2>3, <2>4, <2>5, <2>6, <2>7, <2>8, <2>9 DEF Next
<1> QED
  BY <1>1, <1>2, PTL DEF Spec

-----------------------------------------------------------------------------
(* Before the first truncation nobody stands past the log end, so nothing  *)
(* is written behind a reader.                                             *)

WithinLog(m) ==
  /\ part[m] # NoPart => part[m].at <= LogEnd
  /\ \A a \in asks[m] : a.to <= LogEnd
  /\ request[m] # Nothing => request[m].offset <= LogEnd

LateInv ==
  /\ truncated = 0 => committed <= LogEnd /\ \A m \in Members : WithinLog(m)
  /\ \A r \in overtaken : r[2] > 0

\* An answer moves a position over offsets that it names, or not forwards.
LEMMA SettledAt ==
  ASSUME NEW p, NEW next \in Nat, NEW held, NEW a \in Query,
         ReadInv(p, next, held), p.buffer = Nothing, a.kind = p.kind, a.at = p.at,
         AnswerForm(a), NEW end \in Nat, p.at <= end, a.to <= end
  PROVE  Settled(p, a, next).at <= end
<1> DEFINE b == a.answer
<1>1. PartInv(p) /\ p.epoch < next /\ p \in Part /\ p.at \in Nat /\ p.at \in Offset
  BY DEF ReadInv, PartInv, Part, Offset
<1>2. /\ a.to \in Offset /\ b.code \in {"ok", "outOfRange", "range"}
      /\ b.code = "ok" => b.to \in Offset
      /\ b.code = "range" => b.from \in Offset /\ b.to \in Offset
  BY DEF Query, Fetched, Listed
<1>3. MaxOffset \in Nat /\ a.to \in Nat
      /\ (b.code = "ok" => b.to \in Nat /\ b.to = a.to)
      /\ (b.code = "range" => b.from \in Nat /\ b.to \in Nat /\ b.from <= end)
  BY <1>2, KafkaConstants DEF Offset, AnswerForm
<1> HIDE DEF b
<1>4. ASSUME NEW n \in Offset, p.at <= n
      PROVE  [Mark(p, p.at, n) EXCEPT !.at = n].at = n
             /\ [Mark(p, p.at, n) EXCEPT !.kind = "at", !.at = n].at = n
  <2>1. n \in Nat /\ n <= n
    BY <1>3, <1>4 DEF Offset
  <2>2. PICK c, d : /\ Mark(p, p.at, n) = [p EXCEPT !.candidate = c, !.done = d]
                    /\ Tracked(c, d, n)
                    /\ \A o \in Offset : (o < c \/ o \in d)
                         <=> (o \in Done(p) \/ o \in p.at .. n - 1)
    BY <1>1, <1>4, <2>1, MarkFacts
  <2> QED
    BY <1>1, <2>2 DEF Part
<1>5. CASE b.code = "outOfRange"
  <2>1. Settled(p, a, next) = [p EXCEPT !.kind = "outOfRange"]
    BY <1>5 DEF Settled, AnswerForm, b
  <2> QED
    BY <1>1, <2>1 DEF Part
<1>6. CASE b.code = "ok"
  <2>1. Settled(p, a, next) = Buffered(p, b)
    BY <1>6 DEF Settled, AnswerForm, b
  <2>2. p.at < b.to
    BY <1>6 DEF AnswerForm, b
  <2>3. CASE b.records = {}
    <3>1. b.to \in Offset /\ p.at <= b.to
      BY <1>1, <1>2, <1>3, <1>6, <2>2
    <3>2. Settled(p, a, next) = [Mark(p, p.at, b.to) EXCEPT !.at = b.to]
      BY <2>1, <2>3 DEF Buffered
    <3>3. Settled(p, a, next).at = b.to
      BY <1>4, <3>1, <3>2
    <3> QED
      BY <1>3, <1>6, <3>3
  <2>4. CASE b.records # {}
    <3> DEFINE g == [epoch |-> p.epoch, from |-> p.at, to |-> b.to, records |-> b.records]
    <3>1. Settled(p, a, next) = [p EXCEPT !.at = b.to, !.buffer = g]
      BY <2>1, <2>4 DEF Buffered
    <3> HIDE DEF g
    <3>2. Settled(p, a, next).at = b.to
      BY <1>1, <3>1 DEF Part
    <3> QED
      BY <1>3, <1>6, <3>2
  <2> QED
    BY <2>3, <2>4
<1>7. CASE b.code = "range" /\ a.kind = "start"
  <2>1. Settled(p, a, next) = [p EXCEPT !.kind = "at", !.at = b.from, !.candidate = b.from,
                                        !.done = {}, !.last = None]
    BY <1>7 DEF Settled, b
  <2>2. Settled(p, a, next).at = b.from
    BY <1>1, <2>1 DEF Part
  <2> QED
    BY <1>3, <1>7, <2>2
<1>8. CASE b.code = "range" /\ a.kind # "start"
  <2>1. Settled(p, a, next) = Resolved(p, b.from, b.to, next)
    BY <1>8 DEF Settled, b
  <2>2. CASE p.at < b.from
    <3>1. b.from \in Offset /\ p.at <= b.from
      BY <1>1, <1>2, <1>3, <1>8, <2>2
    <3>2. Settled(p, a, next) = [Mark(p, p.at, b.from) EXCEPT !.kind = "at", !.at = b.from]
      BY <2>1, <2>2 DEF Resolved
    <3>3. Settled(p, a, next).at = b.from
      BY <1>4, <3>1, <3>2
    <3> QED
      BY <1>3, <1>8, <3>3
  <2>3. CASE ~(p.at < b.from) /\ p.at > b.to
    <3>1. Settled(p, a, next) = ResetTo(p, b.to, next)
      BY <2>1, <2>3 DEF Resolved, ResetTo
    <3>2. b.to < p.at
      BY <1>1, <1>3, <1>8, <2>3
    <3>3. Settled(p, a, next).at = b.to
      BY <1>1, <1>2, <1>8, <3>1, <3>2, ResetFacts
    <3> QED
      BY <1>1, <1>3, <1>8, <3>2, <3>3
  <2>4. CASE ~(p.at < b.from) /\ ~(p.at > b.to)
    <3>1. Settled(p, a, next) = [p EXCEPT !.kind = "at"]
      BY <2>1, <2>4 DEF Resolved
    <3> QED
      BY <1>1, <3>1 DEF Part
  <2> QED
    BY <2>2, <2>3, <2>4
<1> QED
  BY <1>2, <1>5, <1>6, <1>7, <1>8

\* A step of member m, or of nobody, that leaves the log alone.
LEMMA LateStep ==
  ASSUME IInv, LateInv, log' = log, truncated' = truncated, overtaken' = overtaken,
         NEW m \in Members,
         \A n \in Members \ {m} :
           part'[n] = part[n] /\ asks'[n] = asks[n] /\ request'[n] = request[n],
         committed <= LogEnd /\ WithinLog(m) => committed' <= LogEnd /\ WithinLog(m)'
  PROVE  LateInv'
<1>1. ASSUME truncated' = 0, NEW n \in Members
      PROVE  committed' <= LogEnd' /\ WithinLog(n)'
  <2>1. committed <= LogEnd /\ WithinLog(n) /\ WithinLog(m) /\ LogEnd' = LogEnd
    BY <1>1 DEF LateInv, LogEnd
  <2>2. CASE n = m
    BY <2>1, <2>2
  <2>3. CASE n # m
    BY <2>1, <2>3 DEF WithinLog
  <2> QED
    BY <2>2, <2>3
<1>2. truncated' = 0 => committed' <= LogEnd'
  <2>1. truncated = 0 => committed <= LogEnd /\ WithinLog(m)
    BY DEF LateInv
  <2> QED
    BY <2>1 DEF LogEnd
<1> QED
  BY <1>1, <1>2 DEF LateInv

\* The steps of the log.
LEMMA LateLog ==
  ASSUME IInv, LateInv, Produce \/ Truncate \/ Retain
  PROVE  LateInv'
<1>1. TypeOK
  BY DEF IInv
<1>2. log \in Seq(Nat) /\ truncated \in Nat /\ Len(log) \in Nat /\ committed \in Int
  BY <1>1 DEF TypeOK, Offset, None
<1>3. CASE Produce
  <2>1. /\ log' = Append(log, truncated) /\ truncated' = truncated /\ committed' = committed
        /\ part' = part /\ asks' = asks /\ request' = request
        /\ overtaken' = IF \E o \in ReadUpTo : o > LogEnd
                        THEN overtaken \union {<<LogEnd, truncated>>} ELSE overtaken
    BY <1>3 DEF Produce, local
  <2>2. LogEnd' = LogEnd + 1 /\ LogEnd \in Nat
    BY <1>2, <2>1 DEF LogEnd
  <2>3. ASSUME truncated = 0, NEW m \in Members
        PROVE  WithinLog(m)'
    <3>1. WithinLog(m)
      BY <2>3 DEF LateInv
    <3>2. /\ part[m] # NoPart => part[m].at \in Int
          /\ \A a \in asks[m] : a.to \in Int
          /\ request[m] # Nothing => request[m].offset \in Int
      BY <1>1 DEF TypeOK, Part, Query, Commit, Offset
    <3> QED
      BY <2>1, <2>2, <3>1, <3>2 DEF WithinLog
  <2>4. truncated = 0 => committed <= LogEnd + 1
    BY <1>2, <2>2 DEF LateInv
  <2>5. ASSUME truncated = 0, NEW o \in ReadUpTo PROVE ~(o > LogEnd)
    <3>1. o \in Int
      BY <1>1, <1>2 DEF ReadUpTo, TypeOK, Part, Query, Commit, Offset
    <3>2. o <= LogEnd
      BY <1>1, <2>5 DEF ReadUpTo, LateInv, WithinLog, TypeOK
    <3> QED
      BY <2>2, <3>1, <3>2
  <2>6. \A r \in overtaken' : r[2] > 0
    <3>1. CASE truncated = 0
      BY <2>1, <2>5, <3>1 DEF LateInv
    <3>2. CASE truncated # 0
      BY <1>2, <2>1, <3>2 DEF LateInv
    <3> QED
      BY <3>1, <3>2
  <2> QED
    BY <2>1, <2>2, <2>3, <2>4, <2>6 DEF LateInv
<1>4. CASE Truncate
  <2>1. truncated' # 0 /\ overtaken' = overtaken
    BY <1>2, <1>4 DEF Truncate
  <2> QED
    BY <2>1 DEF LateInv
<1>5. CASE Retain
  BY <1>5 DEF Retain, LateInv, WithinLog, LogEnd, local
<1> QED
  BY <1>3, <1>4, <1>5

\* The fetch loop's steps: an answer speaks of offsets the log has.
LEMMA LateFetch ==
  ASSUME IInv, LateInv, NEW m \in Members, Ask(m) \/ Answer(m) \/ AskFails(m)
  PROVE  LateInv'
<1>1. TypeOK /\ MemberInv(m)
  BY DEF IInv
<1>2. LogEnd \in Nat /\ LogEnd' = LogEnd /\ log' = log /\ truncated' = truncated
      /\ overtaken' = overtaken /\ committed' = committed /\ request' = request
  BY <1>1 DEF TypeOK, LogEnd, Ask, Answer, AskFails, broker
<1>3. CASE Ask(m)
  <2>1. PICK b \in IF part[m].kind = "at" THEN FetchAnswers(part[m].at) ELSE ListAnswers :
          asks' = [asks EXCEPT ![m] = asks[m] \union
                    {[epoch |-> shared[m], kind |-> part[m].kind, at |-> part[m].at,
                      to |-> b.to, answer |-> b]}]
    BY <1>3 DEF Ask
  <2>2. part' = part /\ part[m] # NoPart
    BY <1>3 DEF Ask, Fetching
  <2>3. part[m].at <= LogEnd => b.to <= LogEnd
    <3>1. part[m].at \in Int
      BY <1>1, <2>2 DEF TypeOK, Part, Offset
    <3>2. CASE part[m].kind = "at"
      BY <1>2, <2>1, <3>1, <3>2 DEF FetchAnswers
    <3>3. CASE part[m].kind # "at"
      BY <1>2, <2>1, <3>3 DEF ListAnswers
    <3> QED
      BY <3>2, <3>3
  <2>4. \A a \in asks'[m] : a \in asks[m] \/ a.to = b.to
    BY <1>1, <2>1 DEF TypeOK
  <2>5. \A n \in Members \ {m} : asks'[n] = asks[n]
    BY <1>1, <2>1 DEF TypeOK
  <2>6. WithinLog(m) => WithinLog(m)'
    BY <1>2, <2>2, <2>3, <2>4 DEF WithinLog
  <2> QED
    BY <1>2, <2>2, <2>5, <2>6, LateStep
<1>4. CASE Answer(m)
  <2>1. PICK a \in asks[m] :
          /\ asks' = [asks EXCEPT ![m] = asks[m] \ {a}]
          /\ part' = [part EXCEPT ![m] = IF Fresh(m, a) THEN Settled(part[m], a, epochs[m]) ELSE part[m]]
    BY <1>4 DEF Answer
  <2>2. a \in Query /\ AnswerForm(a) /\ epochs[m] \in Nat
    BY <1>1 DEF TypeOK, MemberInv
  <2>3. /\ asks'[m] \subseteq asks[m]
        /\ \A n \in Members \ {m} : asks'[n] = asks[n] /\ part'[n] = part[n]
        /\ part'[m] = IF Fresh(m, a) THEN Settled(part[m], a, epochs[m]) ELSE part[m]
    BY <1>1, <2>1 DEF TypeOK
  <2>4. ASSUME Fresh(m, a), WithinLog(m) PROVE part'[m].at <= LogEnd
    <3>1. /\ part[m] # NoPart /\ part[m].buffer = Nothing /\ a.kind = part[m].kind /\ a.at = part[m].at
          /\ ReadInv(part[m], epochs[m], out[m])
      BY <1>1, <2>4 DEF Fresh, MemberInv
    <3>2. part[m].at <= LogEnd /\ a.to <= LogEnd
      BY <2>4, <3>1 DEF WithinLog
    <3>3. Settled(part[m], a, epochs[m]).at <= LogEnd
      BY <1>2, <2>2, <3>1, <3>2, SettledAt
    <3> QED
      BY <2>3, <2>4, <3>3
  <2>5. WithinLog(m) => WithinLog(m)'
    BY <1>2, <2>3, <2>4 DEF WithinLog
  <2> QED
    BY <1>2, <2>3, <2>5, LateStep
<1>5. CASE AskFails(m)
  <2>1. part' = part /\ asks'[m] \subseteq asks[m] /\ \A n \in Members \ {m} : asks'[n] = asks[n]
    BY <1>1, <1>5 DEF AskFails, TypeOK
  <2>2. WithinLog(m) => WithinLog(m)'
    BY <1>2, <2>1 DEF WithinLog
  <2> QED
    BY <1>2, <2>1, <2>2, LateStep
<1> QED
  BY <1>3, <1>4, <1>5

\* A step that keeps the member's position or drops its part.
LEMMA LateKeeps ==
  ASSUME IInv, LateInv, NEW m \in Members, UNCHANGED <<broker, committed>>,
         part'[m] = NoPart \/ (part[m] # NoPart /\ part'[m].at = part[m].at) \/ part'[m] = part[m],
         asks'[m] \subseteq asks[m],
         request'[m] = request[m] \/ request'[m] = Nothing,
         \A n \in Members \ {m} :
           part'[n] = part[n] /\ asks'[n] = asks[n] /\ request'[n] = request[n]
  PROVE  LateInv'
<1>1. log' = log /\ truncated' = truncated /\ overtaken' = overtaken /\ committed' = committed
      /\ LogEnd' = LogEnd
  BY DEF broker, LogEnd
<1>2. WithinLog(m) => WithinLog(m)'
  BY <1>1 DEF WithinLog
<1> QED
  BY <1>1, <1>2, LateStep

\* The other steps of a member.
LEMMA LateMember ==
  ASSUME IInv, LateInv, NEW m \in Members,
         \/ Take(m) \/ Accept(m) \/ Defer(m) \/ Revoke(m) \/ Shutdown(m)
         \/ SendCommit(m) \/ ServeCommit(m) \/ CommitAnswered(m)
         \/ Rejoin(m) \/ Leave(m) \/ Install(m) \/ Restart(m)
  PROVE  LateInv'
<1>1. TypeOK /\ MemberInv(m)
  BY DEF IInv
<1>2. LogEnd \in Nat /\ committed \in Int
  BY <1>1 DEF TypeOK, LogEnd, Offset, None
<1>3. \A n \in Members : part[n] # NoPart => part[n] \in Part /\ Stopped(part[n]).at = part[n].at
  <2> SUFFICES ASSUME NEW n \in Members, part[n] # NoPart
               PROVE  part[n] \in Part /\ Stopped(part[n]).at = part[n].at
    OBVIOUS
  <2>1. part[n] \in Part
    BY <1>1 DEF TypeOK
  <2> QED
    BY <2>1, StoppedFacts DEF SameTracker
<1>4. CASE Take(m) \/ Revoke(m) \/ Shutdown(m)
  <2>1. /\ UNCHANGED <<broker, committed>> /\ part' = [part EXCEPT ![m] = Stopped(part[m])]
        /\ asks' = asks \/ asks' = [asks EXCEPT ![m] = {}]
        /\ request' = request \/ request' = [request EXCEPT ![m] = Nothing]
    BY <1>4 DEF Take, Revoke, Shutdown, StopFetching, AbortLoops
  <2>2. /\ part'[m] = Stopped(part[m]) /\ asks'[m] \subseteq asks[m]
        /\ request'[m] = request[m] \/ request'[m] = Nothing
        /\ \A n \in Members \ {m} :
             part'[n] = part[n] /\ asks'[n] = asks[n] /\ request'[n] = request[n]
    BY <1>1, <2>1 DEF TypeOK
  <2>3. part[m] = NoPart => part'[m] = NoPart
    BY <2>2 DEF Stopped
  <2>4. part[m] # NoPart => part'[m].at = part[m].at
    BY <1>3, <2>2
  <2> QED
    BY <2>1, <2>2, <2>3, <2>4, LateKeeps
<1>5. CASE Accept(m)
  <2> DEFINE p == part[m]
             g == out[m]
  <2>1. PICK end \in {n \in CutEnds(g) : n > g.from} :
          part' = [part EXCEPT ![m] = AcceptIn(p, g.epoch, g.from, end)]
    BY <1>5 DEF Accept
  <2>2. pc[m] = "deliver" /\ UNCHANGED <<broker, committed, asks, request>>
    BY <1>5 DEF Accept
  <2>3. g # Nothing /\ g \in Span /\ p # NoPart /\ p \in Part /\ ReadInv(p, epochs[m], g)
    BY <1>1, <2>2 DEF TypeOK, MemberInv, PlaceInv
  <2>4. g.from \in Nat /\ g.to \in Nat /\ g.records \in SUBSET Pairs
    BY <2>3 DEF Span
  <2>5. \A r \in g.records : r[1] < g.to /\ r[1] \in Nat
    BY <2>3, <2>4 DEF ReadInv, SpanOf, Pairs
  <2>6. end = g.to \/ \E r \in g.records : end = r[1] + 1
    BY <2>1 DEF CutEnds
  <2>7. end \in Nat /\ g.from < end /\ end <= g.to
    BY <2>1, <2>4, <2>5, <2>6
  <2>8. PICK c, d : /\ AcceptIn(p, g.epoch, g.from, end) = [p EXCEPT !.candidate = c, !.done = d]
                    /\ Tracked(c, d, p.at)
                    /\ \A o \in Offset :
                         (o < c \/ o \in d)
                           <=> (o \in Done(p) \/ (o \in g.from .. end - 1 /\ Stands(p, g.epoch, o)))
    <3>1. /\ PartInv(p) /\ EpochOf(p, g.epoch)
          /\ \A o \in g.from .. end - 1 : Stands(p, g.epoch, o) => o < p.at
      BY <2>3, <2>4, <2>7 DEF ReadInv, SpanOf
    <3> HIDE DEF p, g
    <3> QED
      BY <2>4, <2>7, <3>1, AcceptFacts
  <2>9. part'[m] = AcceptIn(p, g.epoch, g.from, end) /\ \A n \in Members \ {m} : part'[n] = part[n]
    BY <1>1, <2>1 DEF TypeOK
  <2>10. part'[m].at = p.at
    BY <2>3, <2>8, <2>9 DEF Part
  <2> QED
    BY <2>2, <2>3, <2>9, <2>10, LateKeeps
<1>6. CASE Defer(m)
  BY <1>6, LateKeeps DEF Defer
<1>7. CASE SendCommit(m)
  <2>1. /\ part[m] # NoPart /\ UNCHANGED <<broker, committed, part, asks>>
        /\ request' = [request EXCEPT ![m] = [offset |-> part[m].candidate, answer |-> "sent"]]
    BY <1>7 DEF SendCommit, HasCommit
  <2>2. part[m].candidate <= part[m].at /\ part[m].candidate \in Int /\ part[m].at \in Int
    BY <1>1, <1>3, <2>1 DEF MemberInv, ReadInv, PartInv, Tracked, Part, Offset
  <2>3. /\ request'[m].offset = part[m].candidate
        /\ \A n \in Members \ {m} : request'[n] = request[n]
    BY <1>1, <2>1 DEF TypeOK
  <2>4. WithinLog(m) => WithinLog(m)'
    BY <1>2, <2>1, <2>2, <2>3 DEF WithinLog, broker, LogEnd
  <2> QED
    BY <2>1, <2>3, <2>4, LateStep DEF broker
<1>8. CASE ServeCommit(m)
  <2>1. /\ UNCHANGED <<broker, part, asks>> /\ request[m] # Nothing
        /\ committed' = committed \/ committed' = request[m].offset
    BY <1>8 DEF ServeCommit
  <2>2. \E code : request' = [request EXCEPT ![m].answer = code]
    BY <1>8 DEF ServeCommit, Answered
  <2>3. request[m] \in Commit
    BY <1>1, <2>1 DEF TypeOK
  <2>4. request'[m].offset = request[m].offset /\ \A n \in Members \ {m} : request'[n] = request[n]
    BY <1>1, <2>2, <2>3 DEF TypeOK, Commit
  <2>5. committed <= LogEnd /\ WithinLog(m) => committed' <= LogEnd /\ WithinLog(m)'
    BY <2>1, <2>4 DEF WithinLog, broker, LogEnd
  <2> QED
    BY <2>1, <2>4, <2>5, LateStep DEF broker
<1>9. CASE CommitAnswered(m)
  <2>1. /\ UNCHANGED <<broker, committed, asks>> /\ request' = [request EXCEPT ![m] = Nothing]
        /\ request[m] # Nothing
    BY <1>9 DEF CommitAnswered
  <2>2. PICK code \in Heard(m) :
          part' = [part EXCEPT ![m].last = IF code = "ok" THEN request[m].offset ELSE part[m].last]
    BY <1>9 DEF CommitAnswered
  <2>3. part[m] # NoPart /\ part[m] \in Part
    BY <1>1, <2>1 DEF MemberInv, PlaceInv, TypeOK
  <2> DEFINE last == IF code = "ok" THEN request[m].offset ELSE part[m].last
  <2>4. part' = [part EXCEPT ![m] = [part[m] EXCEPT !.last = last]]
    BY <1>1, <2>2 DEF TypeOK
  <2> HIDE DEF last
  <2>5. /\ part'[m].at = part[m].at /\ request'[m] = Nothing
        /\ \A n \in Members \ {m} : part'[n] = part[n] /\ request'[n] = request[n]
    BY <1>1, <2>1, <2>3, <2>4 DEF TypeOK, Part
  <2> QED
    BY <2>1, <2>3, <2>5, LateKeeps
<1>10. CASE Rejoin(m) \/ Leave(m) \/ Restart(m)
  <2>1. /\ UNCHANGED <<broker, committed>> /\ part' = [part EXCEPT ![m] = NoPart]
        /\ asks' = asks \/ asks' = [asks EXCEPT ![m] = {}]
        /\ request' = request \/ request' = [request EXCEPT ![m] = Nothing]
    BY <1>10 DEF Rejoin, Leave, Restart
  <2>2. /\ part'[m] = NoPart /\ asks'[m] \subseteq asks[m]
        /\ request'[m] = request[m] \/ request'[m] = Nothing
        /\ \A n \in Members \ {m} :
             part'[n] = part[n] /\ asks'[n] = asks[n] /\ request'[n] = request[n]
    BY <1>1, <2>1 DEF TypeOK
  <2> QED
    BY <2>1, <2>2, LateKeeps
<1>11. CASE Install(m)
  <2>1. UNCHANGED <<broker, committed, asks, request>>
    BY <1>11 DEF Install
  <2>2. CASE pc[m] # "assigned"
    <3>1. part' = part
      BY <1>11, <2>2 DEF Install
    <3> QED
      BY <2>1, <3>1, LateKeeps
  <2>3. CASE pc[m] = "assigned"
    <3> DEFINE q == IF committed = None THEN NewPart(epochs[m], "start", 0, None)
                    ELSE NewPart(epochs[m], "at", committed, committed)
    <3>1. part' = [part EXCEPT ![m] = q]
      BY <1>11, <2>3 DEF Install
    <3>2. q.at = 0 \/ q.at = committed
      BY DEF NewPart
    <3> HIDE DEF q
    <3>3. part'[m] = q /\ \A n \in Members \ {m} : part'[n] = part[n]
      BY <1>1, <3>1 DEF TypeOK
    <3>4. committed <= LogEnd /\ WithinLog(m) => committed' <= LogEnd /\ WithinLog(m)'
      BY <1>2, <2>1, <3>2, <3>3 DEF WithinLog, broker, LogEnd
    <3> QED
      BY <2>1, <3>3, <3>4, LateStep DEF broker
  <2> QED
    BY <2>2, <2>3
<1> QED
  BY <1>4, <1>5, <1>6, <1>7, <1>8, <1>9, <1>10, <1>11

\* The coordinator's and the peer's steps, and those of a member that touch no position.
LEMMA LateGroup ==
  ASSUME IInv, LateInv,
         \/ Assign \/ PeerMoves \/ PeerCommits \/ UNCHANGED vars
         \/ \E m \in Members : \/ Expel(m) \/ Heartbeat(m) \/ TopicChanged(m)
                               \/ Join(m) \/ JoinRefused(m) \/ Abandon(m)
  PROVE  LateInv'
<1>1. TypeOK
  BY DEF IInv
<1>2. LogEnd \in Nat /\ committed \in Int /\ logStart \in Nat /\ logStart <= LogEnd
  BY <1>1 DEF TypeOK, LogEnd, Offset, None
<1>3. CASE PeerCommits
  <2>1. UNCHANGED <<broker, part, asks, request>> /\ committed' <= LogEnd
    BY <1>2, <1>3 DEF PeerCommits, local, Lower
  <2> QED
    BY <2>1 DEF LateInv, WithinLog, broker, LogEnd
<1>4. CASE ~PeerCommits
  <2>1. UNCHANGED <<broker, committed, part, asks, request>>
    BY <1>4 DEF Assign, PeerMoves, Expel, Heartbeat, TopicChanged, Join, JoinRefused,
       Abandon, local, vars
  <2> QED
    BY <2>1 DEF LateInv, WithinLog, broker, LogEnd
<1> QED
  BY <1>3, <1>4

\* Nothing is written behind a reader before the first truncation.
THEOREM OvertakenLate == Spec => []LateInv
<1>1. Init => LateInv
  <2> SUFFICES ASSUME Init PROVE LateInv
    OBVIOUS
  <2>1. LogEnd \in Nat /\ committed <= LogEnd
    <3>1. log = [i \in 1 .. MaxOffset |-> 0] /\ 0 \in Nat /\ MaxOffset \in Nat
      BY KafkaConstants DEF Init
    <3>2. Len(log) = MaxOffset
      BY <3>1
    <3> QED
      BY <3>1, <3>2 DEF Init, LogEnd, None
  <2>2. \A m \in Members : part[m] = NoPart /\ asks[m] = {} /\ request[m] = Nothing
    BY DEF Init
  <2>3. overtaken = {}
    BY DEF Init
  <2> QED
    BY <2>1, <2>2, <2>3 DEF LateInv, WithinLog
<1>2. IInv /\ LateInv /\ [Next]_vars => LateInv'
  <2> SUFFICES ASSUME IInv, LateInv, [Next]_vars PROVE LateInv'
    OBVIOUS
  <2> QED
    BY LateLog, LateFetch, LateMember, LateGroup DEF Next
<1> QED
  BY <1>1, <1>2, KafkaInductive, PTL DEF Spec

\* The group never commits past a record it has not delivered, whichever member held the
\* partition and however the log and the group changed under it; the one exception are
\* records written after a truncation while a reader stood past the log end, which resolve
\* moves it over.  In a log that was never truncated there is no exception.
THEOREM CommitsAccepted == Spec => []CommittedIsAccepted
<1>1. IInv /\ LateInv => CommittedIsAccepted
  <2> SUFFICES ASSUME IInv, LateInv, NEW o \in logStart .. Lower(committed, LogEnd) - 1
               PROVE  \/ o \in Silent \/ <<o, log[o + 1]>> \in accepted
                      \/ <<o, log[o + 1]>> \in overtaken /\ log[o + 1] > 0
    BY DEF CommittedIsAccepted
  <2>1. TypeOK /\ Below(committed, Good)
    BY DEF IInv
  <2>2. logStart \in Nat /\ LogEnd \in Nat /\ committed \in Int
    BY <2>1, KafkaConstants DEF TypeOK, LogEnd, Offset, None
  <2>3. o \in Nat /\ ~(o < logStart) /\ o < committed /\ ~(o >= LogEnd)
    BY <2>2 DEF Lower
  <2>4. o \in Good
    BY <2>1, <2>3 DEF Below
  <2>5. o \in Silent \/ <<o, log[o + 1]>> \in accepted \union overtaken
    BY <2>3, <2>4 DEF Good
  <2>6. <<o, log[o + 1]>> \in overtaken => log[o + 1] > 0
    BY DEF LateInv
  <2> QED
    BY <2>5, <2>6
<1> QED
  BY <1>1, KafkaInductive, OvertakenLate, PTL

\* Accepting what a member has in hand takes its candidate to its position.
LEMMA OnceDeliveredFacts ==
  ASSUME IInv, NEW m \in Members, Fetching(m), signal[m] = "none"
  PROVE  OnceDelivered(m).candidate = part[m].at
<1>0. MaxOffset \in Nat
  BY KafkaConstants
<1> DEFINE p == part[m]
           g == out[m]
           b == part[m].buffer
<1>1. /\ p # NoPart /\ p \in Part /\ ReadInv(p, epochs[m], g) /\ CoverInv(p, g)
      /\ g = Nothing \/ g \in Span
  BY DEF IInv, MemberInv, Fetching, TypeOK
<1>2. PartInv(p) /\ p.at \in Offset /\ p.at \in Nat /\ (b = Nothing \/ b \in Span)
      /\ (g # Nothing => SpanOf(p, g)) /\ (b # Nothing => SpanOf(p, b) /\ b.epoch = p.epoch)
  BY <1>1 DEF ReadInv, PartInv, Part, Offset
<1>3. ASSUME NEW x, PartInv(x), x.at = p.at, x.epoch = p.epoch, x.first = p.first, x.resets = p.resets,
             NEW s, s # Nothing, SpanOf(p, s)
      PROVE  LET y == AcceptIn(x, s.epoch, s.from, s.to) IN
             /\ PartInv(y) /\ y.at = p.at /\ y.epoch = p.epoch /\ y.first = p.first
             /\ y.resets = p.resets
             /\ \A o \in Offset : o \in Done(x) \/ Covers(p, s, o) => o \in Done(y)
  <2> DEFINE y == AcceptIn(x, s.epoch, s.from, s.to)
  <2>1. /\ \A e : EpochOf(x, e) <=> EpochOf(p, e)
        /\ \A e, o : Stands(x, e, o) <=> Stands(p, e, o)
    BY <1>3, StandsSame
  <2>2. s.from \in Nat /\ s.to \in Nat /\ s.from < s.to /\ EpochOf(x, s.epoch)
    BY <1>3, <2>1 DEF SpanOf, Span
  <2>3. \A o \in s.from .. s.to - 1 : Stands(x, s.epoch, o) => o < x.at
    BY <1>3, <2>1 DEF SpanOf
  <2>4. PICK c, d : /\ y = [x EXCEPT !.candidate = c, !.done = d]
                    /\ Tracked(c, d, x.at)
                    /\ \A o \in Offset :
                         (o < c \/ o \in d)
                           <=> (o \in Done(x) \/ (o \in s.from .. s.to - 1 /\ Stands(x, s.epoch, o)))
    BY <1>3, <2>2, <2>3, AcceptFacts
  <2>5. c \in Offset /\ d \in SUBSET Offset /\ x \in Part
    BY <1>3, <2>4 DEF Tracked, PartInv
  <2> HIDE DEF y
  <2>6. /\ y \in Part /\ y.epoch = x.epoch /\ y.first = x.first /\ y.resets = x.resets
        /\ y.at = x.at /\ y.candidate = c /\ y.done = d
    BY <2>4, <2>5 DEF Part
  <2>7. PartInv(y)
    BY <1>3, <2>4, <2>6 DEF PartInv, Rising
  <2>8. \A o \in Offset : o \in Done(x) \/ Covers(p, s, o) => o \in Done(y)
    BY <2>1, <2>4, <2>6 DEF Done, Covers
  <2> QED
    BY <1>3, <2>6, <2>7, <2>8 DEF y
<1> DEFINE x == IF g = Nothing THEN p ELSE AcceptIn(p, g.epoch, g.from, g.to)
           y == OnceDelivered(m)
<1>4. y = IF b = Nothing THEN x ELSE AcceptIn(x, b.epoch, b.from, b.to)
  BY DEF OnceDelivered
<1> HIDE DEF p, g, b, y
<1>5. /\ PartInv(x) /\ x.at = p.at /\ x.epoch = p.epoch /\ x.first = p.first /\ x.resets = p.resets
      /\ \A o \in Offset : o \in Done(p) \/ Covers(p, g, o) => o \in Done(x)
  <2>1. CASE g = Nothing
    BY <1>2, <2>1 DEF Covers
  <2>2. CASE g # Nothing
    BY <1>2, <1>3, <2>2
  <2> QED
    BY <2>1, <2>2
<1> HIDE DEF x
<1>6. /\ PartInv(y) /\ y.at = p.at
      /\ \A o \in Offset : o \in Done(x) \/ Covers(p, b, o) => o \in Done(y)
  <2>1. CASE b = Nothing
    BY <1>4, <1>5, <2>1 DEF Covers
  <2>2. CASE b # Nothing
    BY <1>2, <1>3, <1>4, <1>5, <2>2
  <2> QED
    BY <2>1, <2>2
<1>7. \A o \in Offset : o < p.at => o \in Done(y)
  BY <1>1, <1>5, <1>6 DEF CoverInv, p, b, g
<1>8. y.candidate \in Offset /\ y.candidate <= p.at /\ ~(y.candidate < y.candidate)
      /\ (\A o \in y.done : y.candidate < o) /\ y.candidate \in Int
  <2>1. y.candidate \in Offset /\ y.candidate <= p.at /\ \A o \in y.done : y.candidate < o
    BY <1>6 DEF PartInv, Tracked
  <2> QED
    BY <2>1 DEF Offset
<1>9. y.candidate \notin Done(y)
  BY <1>8 DEF Done
<1> QED
  BY <1>2, <1>7, <1>8, <1>9 DEF y, p

\* No hole holds the commit for ever: accepting what a member has in hand takes its
\* candidate to the position it fetches from next.
THEOREM NoHoleStays == Spec => []NothingHoldsTheCommit
<1>1. IInv => NothingHoldsTheCommit
  BY OnceDeliveredFacts DEF NothingHoldsTheCommit
<1> QED
  BY <1>1, KafkaInductive, PTL
=============================================================================
