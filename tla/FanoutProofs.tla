---------------------------- MODULE FanoutProofs ----------------------------
(***************************************************************************)
(* Proofs about Fanout, for any finite set of senders, any capacities and    *)
(* any edges.  A slot of an inbox changes hands and is never lost or made:   *)
(* each operation of the channel moves a known number of slots (Slots), and  *)
(* each step of a sender changes what it holds by as many.                   *)
(***************************************************************************)
EXTENDS Fanout, SequenceFacts

-----------------------------------------------------------------------------
(* The inductive invariant. *)

\* A waiter asked for as many slots as its call carries batches.
Waiter == {w \in [s : Senders, need : Int, got : Int] : w.need = Count[w.s]}
Chan == [len : Int, free : Int, line : Seq(Waiter), open : BOOLEAN]

TypeOK ==
  /\ chan \in [Nodes -> Chan]
  /\ pc \in [Senders -> {"idle", "run", "parked"}]
  /\ DOMAIN got = Senders
  /\ \A s \in Senders : got[s] \in [DOMAIN Edges[s] -> {"no", "held", "closed", "sent"}]

\* A reserving send holds nothing outside a call, and sends nothing before
\* it has reached every edge.
Reserving(s) ==
  Reserves(s) =>
    /\ pc[s] # "run" => \A i \in DOMAIN Edges[s] : got[s][i] = "no"
    /\ Unreached(s) # {} => \A i \in DOMAIN Edges[s] : got[s][i] # "sent"

\* The slots of an inbox that no reservation holds.
Lined(ch) == SumFunction([i \in DOMAIN ch.line |-> ch.line[i].got])
Slots(ch) == ch.len + ch.free + Lined(ch)

\* The slots of n that reservations hold, and the conservation law at n.
Reserved(n) == SumFunction([s \in Senders |-> Holds(s, n)])
Conserved(n) == chan[n].open => Cap[n] = Slots(chan[n]) + Reserved(n)

\* What every step of the channel and of a send keeps.
IInv ==
  /\ TypeOK
  /\ \A s \in Senders : Reserving(s)
  /\ \A n \in Nodes : Conserved(n)

-----------------------------------------------------------------------------
(* The constants. *)

\* A call carries a number of batches.
LEMMA CountInt == \A s \in Senders : Count[s] \in Int /\ Count[s] > 0
<1> TAKE s \in Senders
<1> DEFINE M == {Cap[n] : n \in Range(Edges[s])}
<1>1. Edges[s] \in Seq(Nodes) /\ Edges[s] # <<>> /\ Count[s] \in 1..Min(M)
  BY FanoutAssumption
<1>2. Cap \in [Nodes -> Nat \ {0}]
  BY FanoutAssumption
<1>3. M \in SUBSET Nat /\ M # {}
  <2>1. Range(Edges[s]) \subseteq Nodes /\ 1 \in DOMAIN Edges[s]
    BY <1>1 DEF Range
  <2>2. Edges[s][1] \in Range(Edges[s])
    BY <2>1 DEF Range
  <2> QED BY <1>2, <2>1, <2>2
<1> HIDE DEF M
<1>4. \E m \in M : \A k \in M : m <= k
  BY <1>3, LeastNat
<1>5. Min(M) \in M
  BY <1>4 DEF Min
<1>6. Min(M) \in Int
  <2>1. \A m \in M : m \in Int
    BY <1>3
  <2> QED BY <1>5, <2>1, Zenon
<1> QED BY <1>1, <1>6

\* An edge leads to a node, and no two edges of a sender to the same one.
LEMMA EdgesDistinct ==
  ASSUME NEW s \in Senders
  PROVE  /\ \A i \in DOMAIN Edges[s] : Edges[s][i] \in Nodes
         /\ \A i, j \in DOMAIN Edges[s] : Edges[s][i] = Edges[s][j] => i = j
<1>1. Edges[s] \in Seq(Nodes) /\ IsInjective(Edges[s])
  BY FanoutAssumption
<1> QED BY <1>1 DEF IsInjective

-----------------------------------------------------------------------------
(* The channel. *)

\* What a channel's record is made of.
LEMMA ChanFields ==
  ASSUME NEW ch \in Chan
  PROVE  /\ ch.len \in Int /\ ch.free \in Int /\ ch.line \in Seq(Waiter) /\ ch.open \in BOOLEAN
         /\ DOMAIN ch.line = 1..Len(ch.line) /\ Len(ch.line) \in Nat
         /\ \A i \in DOMAIN ch.line : ch.line[i] \in Waiter
  BY DEF Chan

\* A waiter names its sender, what it needs and what it was handed.
LEMMA WaiterFields ==
  ASSUME NEW w \in Waiter
  PROVE  w.s \in Senders /\ w.need \in Int /\ w.got \in Int /\ w.need = Count[w.s]
  BY DEF Waiter

\* The slots handed to the waiters of a line, as a sum over its places.
LEMMA LinedIs ==
  ASSUME NEW line \in Seq(Waiter), NEW f, f = [i \in DOMAIN line |-> line[i].got]
  PROVE  /\ SumFunction(f) = SumFunctionOnSet(f, 1..Len(line))
         /\ IsFiniteSet(1..Len(line)) /\ Len(line) \in Nat
         /\ \A i \in 1..Len(line) : f[i] = line[i].got /\ f[i] \in Int
         /\ SumFunction(f) \in Int
<1>1. DOMAIN f = 1..Len(line) /\ Len(line) \in Nat
  OBVIOUS
<1>2. IsFiniteSet(1..Len(line))
  BY <1>1, FS_Interval
<1>3. \A i \in 1..Len(line) : f[i] = line[i].got /\ f[i] \in Int
  BY <1>1, WaiterFields
<1>4. SumFunction(f) = SumFunctionOnSet(f, 1..Len(line))
  BY <1>1 DEF SumFunction
<1>5. SumFunctionOnSet(f, 1..Len(line)) \in Int
  BY <1>2, <1>3, TotalInt
<1> QED BY <1>1, <1>2, <1>3, <1>4, <1>5

\* A waiter's share of the slots that come back is a number.
LEMMA ShareInt ==
  ASSUME NEW line \in Seq(Waiter), NEW i \in DOMAIN line, NEW slots \in Int
  PROVE  Share(line, i, slots) \in Int
<1>1. DOMAIN line = 1..Len(line) /\ Len(line) \in Nat
  OBVIOUS
<1>2. \A j \in DOMAIN line : Deficit(line[j]) \in Int
  BY WaiterFields DEF Deficit
<1>3. Ahead(line, i) \in Int
  <2> DEFINE f == [j \in 1..(i - 1) |-> Deficit(line[j])]
  <2>1. DOMAIN f = 1..(i - 1) /\ \A j \in 1..(i - 1) : f[j] \in Int
    BY <1>1, <1>2
  <2>2. IsFiniteSet(1..(i - 1))
    BY <1>1, FS_Interval
  <2>3. Ahead(line, i) = SumFunctionOnSet(f, 1..(i - 1))
    BY <2>1 DEF Ahead, SumFunction
  <2> HIDE DEF f
  <2> QED BY <2>1, <2>2, <2>3, TotalInt
<1>4. \A a, b \in Int : Min({a, b}) \in Int
  <2> TAKE a, b \in Int
  <2>1. \E x \in {a, b} : \A y \in {a, b} : x <= y
    OBVIOUS
  <2>2. Min({a, b}) \in {a, b}
    BY <2>1 DEF Min
  <2> QED BY <2>2
<1>5. slots - Ahead(line, i) \in Int /\ Deficit(line[i]) \in Int
  BY <1>2, <1>3
<1>6. Min({slots - Ahead(line, i), Deficit(line[i])}) \in Int
  BY <1>4, <1>5
<1> QED BY <1>6 DEF Share

\* Slots that come back go to the waiters and the rest is free: none is lost.
LEMMA GrantSlots ==
  ASSUME NEW ch \in Chan, NEW n \in Int
  PROVE  /\ Grant(ch, n) \in Chan /\ Grant(ch, n).open = ch.open
         /\ Slots(Grant(ch, n)) = Slots(ch) + n /\ Slots(ch) \in Int
<1> DEFINE line == ch.line
           slots == ch.free + n
           give == [i \in DOMAIN line |-> Share(line, i, slots)]
           new == [i \in DOMAIN line |-> [line[i] EXCEPT !.got = @ + Share(line, i, slots)]]
           rest == slots - SumFunction(give)
           f == [i \in DOMAIN line |-> line[i].got]
           h == [i \in DOMAIN new |-> new[i].got]
<1>1. ch.len \in Int /\ ch.free \in Int /\ line \in Seq(Waiter) /\ ch.open \in BOOLEAN
  BY ChanFields
<1>2. DOMAIN line = 1..Len(line) /\ Len(line) \in Nat /\ slots \in Int
  BY <1>1
<1>3. \A i \in DOMAIN line : Share(line, i, slots) \in Int
  <2> HIDE DEF line, slots
  <2> QED BY <1>1, <1>2, ShareInt
<1>4. \A i \in DOMAIN line : new[i] \in Waiter /\ new[i].got = line[i].got + Share(line, i, slots)
  <2> TAKE i \in DOMAIN line
  <2>1. line[i] \in Waiter /\ Share(line, i, slots) \in Int
    BY <1>1, <1>3
  <2> DEFINE w == line[i]
             k == Share(line, i, slots)
  <2>2. new[i] = [w EXCEPT !.got = @ + k]
    OBVIOUS
  <2> HIDE DEF w, k, new
  <2>3. w \in Waiter /\ k \in Int
    BY <2>1 DEF w, k
  <2>4. [w EXCEPT !.got = @ + k] \in Waiter /\ [w EXCEPT !.got = @ + k].got = w.got + k
    BY <2>3 DEF Waiter
  <2> QED BY <2>2, <2>4 DEF w, k
<1>5. new \in Seq(Waiter) /\ Len(new) = Len(line) /\ DOMAIN new = DOMAIN line
  <2>1. new = [i \in 1..Len(line) |-> new[i]]
    BY <1>2
  <2>2. \A i \in 1..Len(line) : new[i] \in Waiter
    BY <1>2, <1>4
  <2> HIDE DEF new, line
  <2>3. new \in Seq(Waiter) /\ Len(new) = Len(line)
    BY <1>2, <2>1, <2>2
  <2> QED BY <1>2, <2>3
<1>6. Grant(ch, n) = [ch EXCEPT !.line = new, !.free = rest]
  BY DEF Grant
<1>7. /\ SumFunction(f) = SumFunctionOnSet(f, 1..Len(line)) /\ SumFunction(f) \in Int
      /\ IsFiniteSet(1..Len(line))
      /\ \A i \in 1..Len(line) : f[i] = line[i].got /\ f[i] \in Int
  <2> HIDE DEF line, f
  <2>1. f = [i \in DOMAIN line |-> line[i].got]
    BY DEF f
  <2> QED BY <1>1, <2>1, LinedIs
<1>8. /\ SumFunction(h) = SumFunctionOnSet(h, 1..Len(line)) /\ SumFunction(h) \in Int
      /\ \A i \in 1..Len(line) : h[i] = new[i].got /\ h[i] \in Int
  <2> HIDE DEF line, h, new
  <2>1. h = [i \in DOMAIN new |-> new[i].got]
    BY DEF h
  <2> QED BY <1>5, <2>1, LinedIs
<1>9. /\ SumFunction(give) = SumFunctionOnSet(give, 1..Len(line))
      /\ \A i \in 1..Len(line) : give[i] = Share(line, i, slots) /\ give[i] \in Int
  BY <1>2, <1>3 DEF SumFunction
<1>10. SumFunction(give) \in Int
  <2> HIDE DEF give, line
  <2> QED BY <1>7, <1>9, TotalInt
<1>11. SumFunction(h) = SumFunction(f) + SumFunction(give)
  <2>1. \A i \in 1..Len(line) : f[i] \in Int /\ give[i] \in Int /\ h[i] = f[i] + give[i]
    BY <1>2, <1>4, <1>7, <1>8, <1>9
  <2> HIDE DEF f, give, h, line
  <2> QED BY <1>7, <1>8, <1>9, <2>1, TotalSum
<1>12. rest \in Int
  BY <1>2, <1>10
<1> DEFINE c == [ch EXCEPT !.line = new, !.free = rest]
<1>13. c \in Chan /\ c.len = ch.len /\ c.line = new /\ c.free = rest /\ c.open = ch.open
  <2> HIDE DEF new, rest
  <2> QED BY <1>5, <1>12 DEF Chan
<1>14. Slots(ch) = ch.len + ch.free + SumFunction(f)
  BY DEF Slots, Lined
<1>15. Slots(c) = ch.len + rest + SumFunction(h)
  <2> HIDE DEF c, new
  <2> QED BY <1>13 DEF Slots, Lined
<1>16. rest = slots - SumFunction(give) /\ slots = ch.free + n
  <2> HIDE DEF give
  <2> QED BY Zenon DEF rest, slots
<1> HIDE DEF c, rest, f, h, give, new, line, slots
<1>17. Slots(c) = Slots(ch) + n /\ Slots(ch) \in Int
  <2>1. slots \in Int
    BY <1>2
  <2>2. \A a, b, x, y, z \in Int :
          /\ a + b + x \in Int
          /\ a + ((b + n) - y) + (x + y) = (a + b + x) + n
    OBVIOUS
  <2>3. Slots(c) = ch.len + ((ch.free + n) - SumFunction(give)) + (SumFunction(f) + SumFunction(give))
    BY <1>11, <1>15, <1>16
  <2> QED BY <1>1, <1>7, <1>10, <1>14, <2>2, <2>3
<1>18. Grant(ch, n) = c
  BY <1>6 DEF c
<1> QED BY <1>13, <1>17, <1>18

\* A line with one waiter taken out.
LEMMA RemoveAtIs ==
  ASSUME NEW S, NEW q \in Seq(S), NEW p \in 1..Len(q)
  PROVE  /\ RemoveAt(q, p) \in Seq(S) /\ Len(RemoveAt(q, p)) = Len(q) - 1
         /\ \A i \in 1..(Len(q) - 1) : RemoveAt(q, p)[i] = IF i < p THEN q[i] ELSE q[i + 1]
<1> DEFINE a == SubSeq(q, 1, p - 1)
           b == SubSeq(q, p + 1, Len(q))
<1>1. a \in Seq(S) /\ Len(a) = p - 1 /\ \A i \in 1..(p - 1) : a[i] = q[i]
  OBVIOUS
<1>2. b \in Seq(S) /\ Len(b) = Len(q) - p /\ \A i \in 1..(Len(q) - p) : b[i] = q[p + i]
  OBVIOUS
<1>3. RemoveAt(q, p) = a \o b
  BY DEF RemoveAt
<1> HIDE DEF a, b
<1>4. a \o b \in Seq(S) /\ Len(a \o b) = Len(q) - 1
  <2>1. Len(q) \in Nat
    OBVIOUS
  <2>2. a \o b \in Seq(S) /\ Len(a \o b) = Len(a) + Len(b)
    BY <1>1, <1>2, ConcatProperties
  <2> QED BY <1>1, <1>2, <2>1, <2>2
<1>5. ASSUME NEW i \in 1..(Len(q) - 1) PROVE (a \o b)[i] = IF i < p THEN q[i] ELSE q[i + 1]
  <2>1. CASE i < p
    BY <1>1, <1>2, <2>1
  <2>2. CASE ~(i < p)
    <3> DEFINE k == i - (p - 1)
    <3>1. k \in 1..(Len(q) - p) /\ i = k + Len(a) /\ p + k = i + 1
      BY <1>1, <2>2
    <3>2. (a \o b)[i] = b[k]
      BY <1>1, <1>2, <3>1
    <3> HIDE DEF k
    <3>3. b[k] = q[p + k]
      BY <1>2, <3>1
    <3> QED BY <2>2, <3>1, <3>2, <3>3
  <2> QED BY <2>1, <2>2
<1> QED BY <1>3, <1>4, <1>5

\* A waiter that leaves the line takes with it the slots it was handed.
LEMMA OutOfLine ==
  ASSUME NEW ch \in Chan, NEW p \in DOMAIN ch.line,
         NEW c, c = [ch EXCEPT !.line = RemoveAt(@, p)]
  PROVE  /\ c \in Chan /\ c.open = ch.open /\ ch.line[p].got \in Int
         /\ Slots(c) = Slots(ch) - ch.line[p].got
<1> DEFINE q == ch.line
           r == RemoveAt(q, p)
           f == [i \in DOMAIN q |-> q[i].got]
           h == [i \in DOMAIN r |-> r[i].got]
<1>1. ch.len \in Int /\ ch.free \in Int /\ q \in Seq(Waiter) /\ p \in 1..Len(q) /\ Len(q) \in Nat
  BY ChanFields
<1>2. /\ r \in Seq(Waiter) /\ Len(r) = Len(q) - 1
      /\ \A i \in 1..(Len(q) - 1) : r[i] = IF i < p THEN q[i] ELSE q[i + 1]
  <2> HIDE DEF q
  <2> QED BY <1>1, RemoveAtIs
<1>3. c \in Chan /\ c.len = ch.len /\ c.free = ch.free /\ c.line = r /\ c.open = ch.open
  <2>1. c = [ch EXCEPT !.line = r]
    OBVIOUS
  <2> HIDE DEF r
  <2> QED BY <1>2, <2>1 DEF Chan
<1>4. /\ SumFunction(f) = SumFunctionOnSet(f, 1..Len(q)) /\ SumFunction(f) \in Int
      /\ \A i \in 1..Len(q) : f[i] = q[i].got /\ f[i] \in Int
  <2> HIDE DEF q, f
  <2>1. f = [i \in DOMAIN q |-> q[i].got]
    BY DEF f
  <2> QED BY <1>1, <2>1, LinedIs
<1>5. /\ SumFunction(h) = SumFunctionOnSet(h, 1..Len(r))
      /\ \A i \in 1..Len(r) : h[i] = r[i].got /\ h[i] \in Int
  <2> HIDE DEF r, h
  <2>1. h = [i \in DOMAIN r |-> r[i].got]
    BY DEF h
  <2> QED BY <1>2, <2>1, LinedIs
<1>6. Slots(ch) = ch.len + ch.free + SumFunction(f)
  BY DEF Slots, Lined
<1>7. Slots(c) = ch.len + ch.free + SumFunction(h)
  <2> HIDE DEF r
  <2> QED BY <1>3 DEF Slots, Lined
<1> HIDE DEF f, h, r, q
<1>8. \A i \in 1..(Len(q) - 1) : h[i] = IF i < p THEN f[i] ELSE f[i + 1]
  <2> TAKE i \in 1..(Len(q) - 1)
  <2>1. h[i] = r[i].got /\ i \in 1..Len(q) /\ i + 1 \in 1..Len(q)
    BY <1>1, <1>2, <1>5
  <2>2. r[i] = IF i < p THEN q[i] ELSE q[i + 1]
    BY <1>2
  <2>3. f[i] = q[i].got /\ f[i + 1] = q[i + 1].got
    BY <1>4, <2>1
  <2> QED BY <2>1, <2>2, <2>3
<1>9. SumFunctionOnSet(h, 1..(Len(q) - 1)) = SumFunctionOnSet(f, 1..Len(q)) - f[p]
  <2>1. \A i \in 1..Len(q) : f[i] \in Int
    BY <1>4
  <2> QED BY <1>1, <1>8, <2>1, TotalWithout
<1>10. f[p] = q[p].got /\ f[p] \in Int
  BY <1>1, <1>4
<1>11. SumFunction(h) = SumFunction(f) - q[p].got
  BY <1>2, <1>4, <1>5, <1>9, <1>10
<1>12. q[p].got = ch.line[p].got
  BY DEF q
<1> QED BY <1>1, <1>3, <1>4, <1>6, <1>7, <1>10, <1>11, <1>12

\* The place of a waiter is one of the line's.
LEMMA PlaceIn ==
  ASSUME NEW ch, NEW s, InLine(ch, s)
  PROVE  Place(ch, s) \in DOMAIN ch.line /\ ch.line[Place(ch, s)].s = s
  BY DEF InLine, Place

\* A dropped wait returns what it was handed.
LEMMA LeaveSlots ==
  ASSUME NEW ch \in Chan, NEW s
  PROVE  Leave(ch, s) \in Chan /\ Leave(ch, s).open = ch.open /\ Slots(Leave(ch, s)) = Slots(ch)
<1>1. CASE ~InLine(ch, s)
  BY <1>1 DEF Leave
<1>2. CASE InLine(ch, s)
  <2> DEFINE p == Place(ch, s)
             c == [ch EXCEPT !.line = RemoveAt(@, p)]
             g == ch.line[p].got
  <2>1. p \in DOMAIN ch.line
    BY <1>2, PlaceIn
  <2>2. Leave(ch, s) = Grant(c, g)
    BY <1>2 DEF Leave
  <2>3. c \in Chan /\ c.open = ch.open /\ g \in Int /\ Slots(c) = Slots(ch) - g
    <3> HIDE DEF p, c
    <3>1. c = [ch EXCEPT !.line = RemoveAt(@, p)]
      BY DEF c
    <3> QED BY <2>1, <3>1, OutOfLine
  <2>4. Slots(ch) \in Int
    <3>1. 0 \in Int
      OBVIOUS
    <3> QED BY <3>1, GrantSlots
  <2> HIDE DEF c, g, p
  <2>5. Grant(c, g) \in Chan /\ Grant(c, g).open = c.open /\ Slots(Grant(c, g)) = Slots(c) + g
    BY <2>3, GrantSlots
  <2> QED BY <2>2, <2>3, <2>4, <2>5
<1> QED BY <1>1, <1>2

\* A wait begun takes what is free with it.
LEMMA QueueSlots ==
  ASSUME NEW ch \in Chan, NEW s \in Senders
  PROVE  Queue(ch, s) \in Chan /\ Queue(ch, s).open = ch.open /\ Slots(Queue(ch, s)) = Slots(ch)
<1> DEFINE q == ch.line
           w == [s |-> s, need |-> Count[s], got |-> ch.free]
           r == Append(q, w)
           f == [i \in DOMAIN q |-> q[i].got]
           h == [i \in DOMAIN r |-> r[i].got]
           c == [ch EXCEPT !.line = r, !.free = 0]
<1>1. ch.len \in Int /\ ch.free \in Int /\ q \in Seq(Waiter) /\ Len(q) \in Nat
  BY ChanFields
<1>2. w \in Waiter /\ w.got = ch.free
  BY <1>1, CountInt DEF Waiter
<1>3. /\ r \in Seq(Waiter) /\ Len(r) = Len(q) + 1 /\ r[Len(q) + 1] = w
      /\ \A i \in 1..Len(q) : r[i] = q[i]
  <2> HIDE DEF w, q
  <2> QED BY <1>1, <1>2
<1>4. c \in Chan /\ c.len = ch.len /\ c.free = 0 /\ c.line = r /\ c.open = ch.open
  <2>1. c = [[ch EXCEPT !.line = r] EXCEPT !.free = 0]
    OBVIOUS
  <2> HIDE DEF r, c
  <2>2. DOMAIN ch = {"len", "free", "line", "open"}
    BY DEF Chan
  <2>3. c.len = ch.len /\ c.free = 0 /\ c.line = r /\ c.open = ch.open
    BY <2>1, <2>2
  <2>4. c = [len |-> ch.len, free |-> 0, line |-> r, open |-> ch.open]
    BY <2>1, <2>2 DEF Chan
  <2>5. ch.open \in BOOLEAN
    BY ChanFields
  <2>6. 0 \in Int
    OBVIOUS
  <2> QED BY <1>1, <1>3, <2>3, <2>4, <2>5, <2>6 DEF Chan
<1>5. Queue(ch, s) = c
  BY DEF Queue
<1>6. /\ SumFunction(f) = SumFunctionOnSet(f, 1..Len(q)) /\ SumFunction(f) \in Int
      /\ IsFiniteSet(1..Len(q))
      /\ \A i \in 1..Len(q) : f[i] = q[i].got /\ f[i] \in Int
  <2> HIDE DEF q, f
  <2>1. f = [i \in DOMAIN q |-> q[i].got]
    BY DEF f
  <2> QED BY <1>1, <2>1, LinedIs
<1>7. /\ SumFunction(h) = SumFunctionOnSet(h, 1..Len(r))
      /\ \A i \in 1..Len(r) : h[i] = r[i].got /\ h[i] \in Int
  <2> HIDE DEF r, h
  <2>1. h = [i \in DOMAIN r |-> r[i].got]
    BY DEF h
  <2> QED BY <1>3, <2>1, LinedIs
<1>8. Slots(ch) = ch.len + ch.free + SumFunction(f)
  BY DEF Slots, Lined
<1>9. Slots(c) = ch.len + 0 + SumFunction(h)
  <2> HIDE DEF r, c
  <2> QED BY <1>4 DEF Slots, Lined
<1> HIDE DEF f, h, r, q, w, c
<1>10. \A i \in 1..(Len(q) + 1) : h[i] \in Int
  BY <1>3, <1>7
<1>11. SumFunctionOnSet(h, 1..(Len(q) + 1)) = SumFunctionOnSet(h, 1..Len(q)) + h[Len(q) + 1]
  BY <1>1, <1>10, TotalNext
<1>12. SumFunctionOnSet(h, 1..Len(q)) = SumFunctionOnSet(f, 1..Len(q))
  <2>1. \A i \in 1..Len(q) : h[i] = f[i]
    BY <1>1, <1>3, <1>6, <1>7
  <2> QED BY <1>6, <2>1, TotalSame
<1>13. h[Len(q) + 1] = ch.free
  BY <1>1, <1>2, <1>3, <1>7
<1>14. SumFunction(h) = SumFunction(f) + ch.free
  BY <1>3, <1>6, <1>7, <1>11, <1>12, <1>13
<1> QED BY <1>1, <1>4, <1>5, <1>6, <1>8, <1>9, <1>14

-----------------------------------------------------------------------------
(* What the senders hold. *)

\* The sum over the senders is a number.
LEMMA ReservedIs ==
  ASSUME NEW n
  PROVE  Reserved(n) = SumFunctionOnSet([s \in Senders |-> Holds(s, n)], Senders)
  BY DEF Reserved, SumFunction

\* What a sender holds of an inbox is a number ...
LEMMA HoldsInt ==
  ASSUME NEW s \in Senders, NEW n
  PROVE  Holds(s, n) \in Int
  BY CountInt DEF Holds

\* ... and stays one.
LEMMA HoldsIntNext ==
  ASSUME NEW s \in Senders, NEW n
  PROVE  Holds(s, n)' \in Int
  BY CountInt DEF Holds

\* So is what all senders hold of it.
LEMMA ReservedInt == \A n : Reserved(n) \in Int
<1> TAKE n
<1> DEFINE f == [s \in Senders |-> Holds(s, n)]
<1>1. IsFiniteSet(Senders) /\ \A s \in Senders : f[s] \in Int
  BY FanoutAssumption, HoldsInt
<1>2. Reserved(n) = SumFunctionOnSet(f, Senders)
  BY ReservedIs
<1> HIDE DEF f
<1> QED BY <1>1, <1>2, TotalInt

\* What one sender gains or gives up is what all of them hold more or less.
LEMMA ReservedChange ==
  ASSUME NEW s \in Senders, NEW n, \A t \in Senders \ {s} : got'[t] = got[t]
  PROVE  Reserved(n)' = Reserved(n) - Holds(s, n) + Holds(s, n)'
<1> DEFINE f == [t \in Senders |-> Holds(t, n)]
           h == [t \in Senders |-> Holds(t, n)']
<1>1. IsFiniteSet(Senders)
  BY FanoutAssumption
<1>2. \A t \in Senders : f[t] \in Int /\ h[t] \in Int
  BY HoldsInt, HoldsIntNext
<1>3. \A t \in Senders \ {s} : h[t] = f[t]
  BY DEF Holds, Held
<1>4. f[s] = Holds(s, n) /\ h[s] = Holds(s, n)'
  OBVIOUS
<1>5. Reserved(n) = SumFunctionOnSet(f, Senders)
  BY ReservedIs
<1>6. Reserved(n)' = SumFunctionOnSet(h, Senders)
  BY DEF Reserved, SumFunction
<1> HIDE DEF f, h
<1>7. SumFunctionOnSet(h, Senders) = SumFunctionOnSet(f, Senders) - f[s] + h[s]
  BY <1>1, <1>2, <1>3, TotalChange
<1> QED BY <1>4, <1>5, <1>6, <1>7

\* The law at every inbox is SlotsConserved.
LEMMA ConservedIs ==
  ASSUME chan \in [Nodes -> Chan]
  PROVE  SlotsConserved <=> \A n \in Nodes : Conserved(n)
<1>1. ASSUME NEW n \in Nodes
      PROVE  (chan[n].len + chan[n].free + SumFunction([s \in Senders |-> Holds(s, n)])
               + SumFunction([i \in DOMAIN chan[n].line |-> chan[n].line[i].got]))
             = Slots(chan[n]) + Reserved(n)
  <2>1. chan[n] \in Chan /\ chan[n].len \in Int /\ chan[n].free \in Int /\ chan[n].line \in Seq(Waiter)
    BY ChanFields
  <2>2. Lined(chan[n]) \in Int
    BY <2>1, LinedIs DEF Lined
  <2>3. Reserved(n) \in Int
    BY ReservedInt
  <2> DEFINE a == SumFunction([s \in Senders |-> Holds(s, n)])
             b == SumFunction([i \in DOMAIN chan[n].line |-> chan[n].line[i].got])
  <2>4. a = Reserved(n) /\ b = Lined(chan[n])
    BY DEF Reserved, Lined
  <2> HIDE DEF a, b
  <2>5. chan[n].len + chan[n].free + a + b = Slots(chan[n]) + Reserved(n)
    BY <2>1, <2>2, <2>3, <2>4 DEF Slots
  <2> QED BY <2>5 DEF a, b
<1> QED BY <1>1 DEF SlotsConserved, Conserved

\* A step of one sender conserves the slots if the inboxes gain what it gives up.
LEMMA Moves ==
  ASSUME TypeOK, TypeOK', \A n \in Nodes : Conserved(n), NEW s \in Senders,
         \A t \in Senders \ {s} : got'[t] = got[t],
         \A n \in Nodes : chan'[n].open =>
           chan[n].open /\ Slots(chan'[n]) + Holds(s, n)' = Slots(chan[n]) + Holds(s, n)
  PROVE  \A n \in Nodes : Conserved(n)'
<1> TAKE n \in Nodes
<1> SUFFICES ASSUME chan'[n].open PROVE Cap[n] = Slots(chan'[n]) + Reserved(n)'
  BY DEF Conserved
<1>1. chan[n].open /\ Slots(chan'[n]) + Holds(s, n)' = Slots(chan[n]) + Holds(s, n)
  OBVIOUS
<1>2. Cap[n] = Slots(chan[n]) + Reserved(n)
  BY <1>1 DEF Conserved
<1>3. Reserved(n)' = Reserved(n) - Holds(s, n) + Holds(s, n)'
  BY ReservedChange
<1>4. Holds(s, n) \in Int /\ Holds(s, n)' \in Int /\ Reserved(n) \in Int
  BY HoldsInt, HoldsIntNext, ReservedInt
<1>5. chan[n] \in Chan /\ chan'[n] \in Chan
  BY DEF TypeOK
<1>6. Slots(chan[n]) \in Int /\ Slots(chan'[n]) \in Int
  <2>1. 0 \in Int
    OBVIOUS
  <2> QED BY <1>5, <2>1, GrantSlots
<1> QED BY <1>1, <1>2, <1>3, <1>4, <1>6

\* A step that touches no sender's slots conserves them if the inboxes do.
LEMMA Stays ==
  ASSUME \A n \in Nodes : Conserved(n), UNCHANGED got,
         \A n \in Nodes : chan'[n].open => chan[n].open /\ Slots(chan'[n]) = Slots(chan[n])
  PROVE  \A n \in Nodes : Conserved(n)'
<1> TAKE n \in Nodes
<1>1. Reserved(n)' = Reserved(n)
  BY DEF Reserved, Holds, Held
<1> QED BY <1>1 DEF Conserved

-----------------------------------------------------------------------------
(* The steps. *)

\* A call begins or is attempted again.
LEMMA StartStep ==
  ASSUME IInv, NEW s \in Senders, Begin(s) \/ Retry(s)
  PROVE  IInv'
<1>1. UNCHANGED <<chan, got>> /\ pc' = [pc EXCEPT ![s] = "run"]
  BY DEF Begin, Retry
<1>2. TypeOK'
  BY <1>1 DEF IInv, TypeOK
<1>3. \A t \in Senders : Reserving(t)'
  <2> TAKE t \in Senders
  <2>1. Reserving(t) /\ Unreached(t)' = Unreached(t) /\ got'[t] = got[t]
    BY <1>1 DEF IInv, Unreached
  <2>2. pc'[t] # "run" => pc[t] # "run"
    BY <1>1 DEF IInv, TypeOK
  <2> QED BY <2>1, <2>2 DEF Reserving, Reserves
<1>4. \A n \in Nodes : Conserved(n)'
  BY <1>1, Stays DEF IInv
<1> QED BY <1>2, <1>3, <1>4 DEF IInv

\* A consumer takes a batch: the slot goes to the line.
LEMMA RecvStep ==
  ASSUME IInv, NEW n \in Nodes, Recv(n)
  PROVE  IInv'
<1> DEFINE ch == chan[n]
           c == [ch EXCEPT !.len = @ - 1]
<1>1. ch \in Chan /\ ch.len \in Int /\ ch.free \in Int
  BY ChanFields DEF IInv, TypeOK
<1>2. c \in Chan /\ c.len = ch.len - 1 /\ c.free = ch.free /\ c.line = ch.line /\ c.open = ch.open
  <2> HIDE DEF ch
  <2> QED BY <1>1 DEF Chan
<1>3. chan' = [chan EXCEPT ![n] = Grant(c, 1)] /\ UNCHANGED got
  BY DEF Recv
<1>4. Lined(c) = Lined(ch)
  BY <1>2 DEF Lined
<1> HIDE DEF c, ch
<1>5. Lined(ch) \in Int
  <2>1. ch.line \in Seq(Waiter)
    BY <1>1, ChanFields
  <2> QED BY <2>1, LinedIs DEF Lined
<1>6. Grant(c, 1) \in Chan /\ Grant(c, 1).open = ch.open /\ Slots(Grant(c, 1)) = Slots(c) + 1
  BY <1>2, GrantSlots
<1>7. Slots(Grant(c, 1)) = Slots(ch)
  BY <1>1, <1>2, <1>4, <1>5, <1>6 DEF Slots
<1>8. /\ chan' \in [Nodes -> Chan] /\ chan'[n] = Grant(c, 1)
      /\ \A m \in Nodes \ {n} : chan'[m] = chan[m]
  BY <1>3, <1>6 DEF IInv, TypeOK
<1>9. TypeOK'
  <2>1. pc' \in [Senders -> {"idle", "run", "parked"}]
    BY DEF Recv, IInv, TypeOK
  <2> QED BY <1>3, <1>8, <2>1 DEF IInv, TypeOK
<1>10. \A t \in Senders : Reserving(t)'
  <2> TAKE t \in Senders
  <2>1. Reserving(t) /\ Unreached(t)' = Unreached(t) /\ got'[t] = got[t]
    BY <1>3 DEF IInv, Unreached
  <2>2. pc'[t] # "run" => pc[t] # "run"
    BY DEF IInv, TypeOK, Recv
  <2> QED BY <2>1, <2>2 DEF Reserving, Reserves
<1>11. \A m \in Nodes : chan'[m].open => chan[m].open /\ Slots(chan'[m]) = Slots(chan[m])
  BY <1>6, <1>7, <1>8 DEF ch
<1>12. \A m \in Nodes : Conserved(m)'
  BY <1>3, <1>11, Stays DEF IInv
<1> QED BY <1>9, <1>10, <1>12 DEF IInv

\* A consumer goes away with its inbox.
LEMMA CloseStep ==
  ASSUME IInv, NEW n \in Nodes, Close(n)
  PROVE  IInv'
<1> DEFINE ch == chan[n]
           c == [ch EXCEPT !.open = FALSE, !.len = 0, !.line = <<>>]
<1>1. ch \in Chan
  BY DEF IInv, TypeOK
<1>2. c \in Chan /\ c.open = FALSE
  <2>1. ch.free \in Int
    BY <1>1, ChanFields
  <2> DEFINE e == <<>>
             x == [ch EXCEPT !.open = FALSE]
             y == [x EXCEPT !.len = 0]
             z == [y EXCEPT !.line = e]
  <2>2. c = z
    OBVIOUS
  <2>3. e \in Seq(Waiter)
    OBVIOUS
  <2> HIDE DEF ch, e, c
  <2>4. x \in Chan /\ x.open = FALSE
    BY <1>1 DEF Chan
  <2> HIDE DEF x
  <2>5. y \in Chan /\ y.open = x.open
    BY <2>4 DEF Chan
  <2> HIDE DEF y
  <2>6. z \in Chan /\ z.open = y.open
    BY <2>3, <2>5 DEF Chan
  <2> QED BY <2>2, <2>4, <2>5, <2>6
<1>3. chan' = [chan EXCEPT ![n] = c] /\ UNCHANGED <<pc, got>>
  BY DEF Close
<1> HIDE DEF c
<1>4. chan' \in [Nodes -> Chan] /\ chan'[n] = c /\ \A m \in Nodes \ {n} : chan'[m] = chan[m]
  BY <1>2, <1>3 DEF IInv, TypeOK
<1>5. TypeOK'
  BY <1>3, <1>4 DEF IInv, TypeOK
<1>6. \A t \in Senders : Reserving(t)'
  BY <1>3 DEF IInv, Reserving, Reserves, Unreached
<1>7. \A m \in Nodes : chan'[m].open => chan[m].open /\ Slots(chan'[m]) = Slots(chan[m])
  BY <1>2, <1>4
<1>8. \A m \in Nodes : Conserved(m)'
  BY <1>3, <1>7, Stays DEF IInv
<1> QED BY <1>5, <1>6, <1>8 DEF IInv

\* What a mark on an edge stands for, in slots.
HeldAs(v, s) == IF v = "held" THEN Count[s] ELSE 0

Marks == {"no", "held", "closed", "sent"}

\* A sender holds the slots of a node its edge to that node says.
LEMMA HoldsAtEdge ==
  ASSUME NEW s \in Senders, NEW i \in DOMAIN Edges[s]
  PROVE  Holds(s, Edges[s][i]) = HeldAs(got[s][i], s)
<1>1. \A j \in DOMAIN Edges[s] : Edges[s][j] = Edges[s][i] => j = i
  BY EdgesDistinct
<1> QED BY <1>1 DEF Holds, Held, HeldAs

\* The same after a step.
LEMMA HoldsAtEdgeNext ==
  ASSUME NEW s \in Senders, NEW i \in DOMAIN Edges[s]
  PROVE  Holds(s, Edges[s][i])' = HeldAs(got'[s][i], s)
<1>1. \A j \in DOMAIN Edges[s] : Edges[s][j] = Edges[s][i] => j = i
  BY EdgesDistinct
<1> QED BY <1>1 DEF Holds, Held, HeldAs

\* An edge of a call is marked, and nothing else of what senders hold changes.
LEMMA MarkEdge ==
  ASSUME TypeOK, NEW s \in Senders, NEW i \in DOMAIN Edges[s], NEW v \in Marks,
         got' = [got EXCEPT ![s][i] = v]
  PROVE  /\ DOMAIN got' = Senders
         /\ \A t \in Senders : got'[t] \in [DOMAIN Edges[t] -> Marks]
         /\ \A t \in Senders \ {s} : got'[t] = got[t]
         /\ got'[s][i] = v
         /\ \A j \in DOMAIN Edges[s] \ {i} : got'[s][j] = got[s][j]
<1>1. got' = [got EXCEPT ![s] = [got[s] EXCEPT ![i] = v]]
  OBVIOUS
<1>2. DOMAIN got = Senders /\ \A t \in Senders : got[t] \in [DOMAIN Edges[t] -> Marks]
  BY DEF TypeOK, Marks
<1> DEFINE g == [got[s] EXCEPT ![i] = v]
<1>3. g \in [DOMAIN Edges[s] -> Marks] /\ g[i] = v /\ \A j \in DOMAIN Edges[s] \ {i} : g[j] = got[s][j]
  BY <1>2
<1> HIDE DEF g
<1>4. got' = [got EXCEPT ![s] = g]
  BY <1>1 DEF g
<1>5. DOMAIN got' = Senders /\ got'[s] = g /\ \A t \in Senders \ {s} : got'[t] = got[t]
  BY <1>2, <1>4
<1> QED BY <1>2, <1>3, <1>5

\* A step of a call at one edge: the inbox gives what the sender takes.
LEMMA EdgeStep ==
  ASSUME IInv, NEW s \in Senders, NEW i \in DOMAIN Edges[s], NEW v \in Marks \ {"no"},
         NEW n, n = Edges[s][i],
         pc[s] = "run", pc' = pc, got' = [got EXCEPT ![s][i] = v],
         Reserves(s) /\ v = "sent" => Unreached(s) = {},
         NEW c \in Chan, chan' = [chan EXCEPT ![n] = c],
         c.open => /\ chan[n].open
                   /\ Slots(c) + HeldAs(v, s) = Slots(chan[n]) + HeldAs(got[s][i], s)
  PROVE  IInv'
<1> DEFINE G == /\ DOMAIN got' = Senders
                /\ \A t \in Senders : got'[t] \in [DOMAIN Edges[t] -> Marks]
                /\ \A t \in Senders \ {s} : got'[t] = got[t]
                /\ got'[s][i] = v
                /\ \A j \in DOMAIN Edges[s] \ {i} : got'[s][j] = got[s][j]
<1>1. G
  BY MarkEdge DEF IInv
<1>2. n \in Nodes
  BY EdgesDistinct
<1>3. chan' \in [Nodes -> Chan] /\ chan'[n] = c /\ \A m \in Nodes \ {n} : chan'[m] = chan[m]
  BY <1>2 DEF IInv, TypeOK
<1>4. TypeOK'
  BY <1>1, <1>3 DEF IInv, TypeOK, Marks
<1>5. \A t \in Senders : Reserving(t)'
  <2> TAKE t \in Senders
  <2>1. Reserving(t)
    BY DEF IInv
  <2>2. CASE t # s
    <3>1. got'[t] = got[t] /\ pc' = pc
      BY <1>1, <2>2
    <3> QED BY <2>1, <3>1 DEF Reserving, Reserves, Unreached
  <2>3. CASE t = s
    <3> SUFFICES ASSUME Reserves(s), Unreached(s)' # {}, NEW j \in DOMAIN Edges[s]
                 PROVE  got'[s][j] # "sent"
      BY <2>3 DEF Reserving, Reserves
    <3>1. Unreached(s)' \subseteq Unreached(s)
      BY <1>1 DEF Unreached
    <3>2. Unreached(s) # {}
      BY <3>1
    <3>3. got[s][j] # "sent"
      BY <2>1, <2>3, <3>2 DEF Reserving
    <3> QED BY <1>1, <3>2, <3>3
  <2> QED BY <2>2, <2>3
<1>6. \A m \in Nodes : chan'[m].open =>
        chan[m].open /\ Slots(chan'[m]) + Holds(s, m)' = Slots(chan[m]) + Holds(s, m)
  <2> TAKE m \in Nodes
  <2> HAVE chan'[m].open
  <2>1. CASE m = n
    <3>1. Holds(s, m) = HeldAs(got[s][i], s)
      BY <2>1, HoldsAtEdge
    <3>2. Holds(s, m)' = HeldAs(v, s)
      BY <1>1, <2>1, HoldsAtEdgeNext
    <3> QED BY <1>3, <2>1, <3>1, <3>2
  <2>2. CASE m # n
    <3>1. Holds(s, m)' = Holds(s, m)
      <4>1. \A j \in DOMAIN Edges[s] : Edges[s][j] = m => j # i
        BY <2>2
      <4>2. \A j \in DOMAIN Edges[s] : Edges[s][j] = m => got'[s][j] = got[s][j]
        BY <1>1, <4>1
      <4>3. (\E j \in Held(s)' : Edges[s][j] = m) <=> (\E j \in Held(s) : Edges[s][j] = m)
        BY <4>2 DEF Held
      <4> QED BY <4>3 DEF Holds
    <3> QED BY <1>3, <2>2, <3>1
  <2> QED BY <2>1, <2>2
<1>7. \A m \in Nodes : Conserved(m)'
  <2>1. TypeOK /\ \A m \in Nodes : Conserved(m)
    BY DEF IInv
  <2>2. \A t \in Senders \ {s} : got'[t] = got[t]
    BY <1>1
  <2> HIDE DEF G
  <2> QED BY <1>4, <1>6, <2>1, <2>2, Moves
<1> QED BY <1>4, <1>5, <1>7 DEF IInv

\* A slot taken: with the batch in it for a plain send, held for the others.
LEMMA TakeSlots ==
  ASSUME NEW ch \in Chan, NEW s \in Senders, NEW k \in Int, Slots(ch) = k - Count[s], NEW c,
         c = Take(ch, s, Secured(s))
  PROVE  c \in Chan /\ c.open = ch.open /\ Slots(c) + HeldAs(Secured(s), s) = k
<1>1. ch.len \in Int /\ ch.free \in Int /\ ch.line \in Seq(Waiter) /\ Count[s] \in Int
  BY ChanFields, CountInt
<1>2. Lined(ch) \in Int
  BY <1>1, LinedIs DEF Lined
<1>3. CASE Secured(s) = "sent"
  <2>1. c = [ch EXCEPT !.len = @ + Count[s]]
    BY <1>3 DEF Take
  <2>2. /\ c \in Chan /\ c.len = ch.len + Count[s] /\ c.free = ch.free
        /\ c.line = ch.line /\ c.open = ch.open
    BY <1>1, <2>1 DEF Chan
  <2>3. Lined(c) = Lined(ch)
    BY <2>2 DEF Lined
  <2>4. Slots(c) = k
    BY <1>1, <1>2, <2>2, <2>3 DEF Slots
  <2> QED BY <1>3, <2>2, <2>4 DEF HeldAs
<1>4. CASE Secured(s) = "held"
  BY <1>1, <1>4 DEF Take, HeldAs
<1> QED BY <1>3, <1>4 DEF Secured

\* A call marks an edge with something, and with "sent" only when it sends at once.
LEMMA SecuredIn ==
  ASSUME NEW s \in Senders
  PROVE  Secured(s) \in Marks \ {"no"} /\ (Reserves(s) => Secured(s) # "sent")
  BY DEF Secured, Marks

\* The slots of an inbox, free and handed out, are a number.
LEMMA SlotsInt == \A ch \in Chan : Slots(ch) \in Int
<1>1. 0 \in Int
  OBVIOUS
<1> QED BY <1>1, GrantSlots

\* The first edge not reached is one of them.
LEMMA FirstUnreached ==
  ASSUME NEW s \in Senders, NEW S \in SUBSET DOMAIN Edges[s], S # {}
  PROVE  Min(S) \in S /\ Min(S) \in DOMAIN Edges[s]
<1>1. S \in SUBSET Nat
  <2>1. Edges[s] \in Seq(Nodes)
    BY FanoutAssumption
  <2> QED BY <2>1
<1>2. \E m \in S : \A k \in S : m <= k
  BY <1>1, LeastNat
<1> QED BY <1>2 DEF Min

\* offer and reserve_all at one edge: closed, room found, or a wait begun.
LEMMA ReachStep ==
  ASSUME IInv, NEW s \in Senders, Reach(s)
  PROVE  IInv'
<1> DEFINE i == Min(Unreached(s))
           n == Edges[s][i]
           ch == chan[n]
<1>1. i \in Unreached(s) /\ i \in DOMAIN Edges[s]
  <2>1. Unreached(s) \in SUBSET DOMAIN Edges[s] /\ Unreached(s) # {}
    BY DEF Reach, Unreached
  <2> QED BY <2>1, FirstUnreached
<1>2. got[s][i] = "no" /\ pc[s] = "run" /\ pc' = pc
  BY <1>1 DEF Reach, Unreached
<1>3. n \in Nodes /\ ch \in Chan
  BY <1>1, EdgesDistinct DEF IInv, TypeOK
<1>4. HeldAs("no", s) = 0 /\ HeldAs("closed", s) = 0 /\ Slots(ch) \in Int
  BY <1>3, SlotsInt DEF HeldAs
<1>5. \/ /\ ~ch.open
         /\ got' = [got EXCEPT ![s][i] = "closed"]
         /\ UNCHANGED chan
      \/ /\ ch.open
         /\ chan' = [chan EXCEPT ![n] = Take([ch EXCEPT !.free = @ - Count[s]], s, Secured(s))]
         /\ got' = [got EXCEPT ![s][i] = Secured(s)]
      \/ /\ ch.open
         /\ chan' = [chan EXCEPT ![n] = Queue(ch, s)]
         /\ UNCHANGED got
  BY DEF Reach
<1> HIDE DEF i
<1>6. CASE ~ch.open /\ got' = [got EXCEPT ![s][i] = "closed"] /\ UNCHANGED chan
  <2>1. chan' = [chan EXCEPT ![n] = ch]
    BY <1>3, <1>6 DEF IInv, TypeOK
  <2> DEFINE v == "closed"
  <2>2. v \in Marks \ {"no"} /\ v # "sent"
    BY DEF Marks
  <2>3. got' = [got EXCEPT ![s][i] = v]
    BY <1>6
  <2>4. ch.open => chan[n].open /\ Slots(ch) + HeldAs(v, s) = Slots(chan[n]) + HeldAs(got[s][i], s)
    BY <1>6
  <2> HIDE DEF n, v
  <2>5. n = Edges[s][i]
    BY DEF n
  <2> HIDE DEF ch
  <2> QED BY <1>1, <1>2, <1>3, <2>1, <2>2, <2>3, <2>4, <2>5, EdgeStep
<1>7. CASE /\ ch.open
           /\ chan' = [chan EXCEPT ![n] = Take([ch EXCEPT !.free = @ - Count[s]], s, Secured(s))]
           /\ got' = [got EXCEPT ![s][i] = Secured(s)]
  <2> DEFINE b == [ch EXCEPT !.free = @ - Count[s]]
             c == Take(b, s, Secured(s))
  <2>1. ch.len \in Int /\ ch.free \in Int /\ ch.line \in Seq(Waiter) /\ Count[s] \in Int
    BY <1>3, ChanFields, CountInt
  <2>2. /\ b \in Chan /\ b.len = ch.len /\ b.free = ch.free - Count[s]
        /\ b.line = ch.line /\ b.open = ch.open
    <3> HIDE DEF ch
    <3> QED BY <1>3, <2>1 DEF Chan
  <2> HIDE DEF b
  <2>3. Lined(b) = Lined(ch) /\ Lined(ch) \in Int
    BY <2>1, <2>2, LinedIs DEF Lined
  <2>4. Slots(b) = Slots(ch) - Count[s]
    BY <2>1, <2>2, <2>3 DEF Slots
  <2>5. c \in Chan /\ c.open = ch.open /\ Slots(c) + HeldAs(Secured(s), s) = Slots(ch)
    BY <1>4, <2>2, <2>4, TakeSlots
  <2>6. Secured(s) \in Marks \ {"no"} /\ (Reserves(s) => Secured(s) # "sent")
    BY SecuredIn
  <2>7. chan' = [chan EXCEPT ![n] = c] /\ got' = [got EXCEPT ![s][i] = Secured(s)] /\ ch.open
    BY <1>7 DEF b
  <2>8. Slots(c) + HeldAs(Secured(s), s) = Slots(chan[n]) + HeldAs(got[s][i], s)
    BY <1>2, <1>4, <2>5
  <2> HIDE DEF c, n
  <2>9. n = Edges[s][i]
    BY DEF n
  <2> QED BY <1>1, <1>2, <2>5, <2>6, <2>7, <2>8, <2>9, EdgeStep
<1>8. CASE ch.open /\ chan' = [chan EXCEPT ![n] = Queue(ch, s)] /\ UNCHANGED got
  <2> DEFINE c == Queue(ch, s)
  <2>1. c \in Chan /\ c.open = ch.open /\ Slots(c) = Slots(ch)
    BY <1>3, QueueSlots
  <2>2. chan' = [chan EXCEPT ![n] = c] /\ UNCHANGED <<pc, got>>
    BY <1>2, <1>8
  <2> HIDE DEF c
  <2>3. chan' \in [Nodes -> Chan] /\ chan'[n] = c /\ \A m \in Nodes \ {n} : chan'[m] = chan[m]
    BY <1>3, <2>1, <2>2 DEF IInv, TypeOK
  <2>4. TypeOK'
    BY <2>2, <2>3 DEF IInv, TypeOK
  <2>5. \A t \in Senders : Reserving(t)'
    BY <2>2 DEF IInv, Reserving, Reserves, Unreached
  <2>6. \A m \in Nodes : chan'[m].open => chan[m].open /\ Slots(chan'[m]) = Slots(chan[m])
    BY <2>1, <2>3
  <2>7. \A m \in Nodes : Conserved(m)'
    BY <2>2, <2>6, Stays DEF IInv
  <2> QED BY <2>4, <2>5, <2>7 DEF IInv
<1> QED BY <1>5, <1>6, <1>7, <1>8

\* A wait that ended: the slots the waiter was handed become the sender's.
LEMMA WakeStep ==
  ASSUME IInv, NEW s \in Senders, Wake(s)
  PROVE  IInv'
<1>1. PICK i \in Unreached(s) :
        /\ Ready(chan[Edges[s][i]], s)
        /\ chan' = [chan EXCEPT ![Edges[s][i]] =
             Take([chan[Edges[s][i]] EXCEPT !.line = RemoveAt(@, Place(chan[Edges[s][i]], s))],
                  s, Secured(s))]
        /\ got' = [got EXCEPT ![s][i] = Secured(s)]
  BY DEF Wake
<1> DEFINE n == Edges[s][i]
           ch == chan[n]
           p == Place(ch, s)
           b == [ch EXCEPT !.line = RemoveAt(@, p)]
           c == Take(b, s, Secured(s))
<1>2. i \in DOMAIN Edges[s] /\ got[s][i] = "no" /\ pc[s] = "run" /\ pc' = pc
  BY <1>1 DEF Wake, Unreached
<1>3. n \in Nodes /\ ch \in Chan
  BY <1>2, EdgesDistinct DEF IInv, TypeOK
<1>4. Ready(ch, s) /\ chan' = [chan EXCEPT ![n] = c]
  BY <1>1
<1>5. HeldAs("no", s) = 0 /\ Slots(ch) \in Int
  BY <1>3, SlotsInt DEF HeldAs
<1> HIDE DEF n, ch, p, b, c
<1>6. InLine(ch, s) /\ Deficit(ch.line[p]) = 0
  BY <1>4 DEF Ready, p
<1>7. p \in DOMAIN ch.line /\ ch.line[p].s = s
  BY <1>6, PlaceIn DEF p
<1>8. ch.line[p] \in Waiter
  BY <1>3, <1>7, ChanFields
<1>9. ch.line[p].got = Count[s]
  <2>1. ch.line[p].need \in Int /\ ch.line[p].got \in Int /\ ch.line[p].need = Count[s]
    BY <1>7, <1>8, WaiterFields
  <2> QED BY <1>6, <2>1 DEF Deficit
<1>10. b \in Chan /\ b.open = ch.open /\ Slots(b) = Slots(ch) - Count[s]
  <2>1. b = [ch EXCEPT !.line = RemoveAt(@, p)]
    BY DEF b
  <2> QED BY <1>3, <1>7, <1>9, <2>1, OutOfLine
<1>11. c \in Chan /\ c.open = ch.open /\ Slots(c) + HeldAs(Secured(s), s) = Slots(ch)
  <2>1. c = Take(b, s, Secured(s))
    BY DEF c
  <2> QED BY <1>5, <1>10, <2>1, TakeSlots
<1>12. Secured(s) \in Marks \ {"no"} /\ (Reserves(s) => Secured(s) # "sent")
  BY SecuredIn
<1>13. Slots(c) + HeldAs(Secured(s), s) = Slots(chan[n]) + HeldAs(got[s][i], s)
  BY <1>2, <1>5, <1>11 DEF ch
<1>14. n = Edges[s][i] /\ got' = [got EXCEPT ![s][i] = Secured(s)] /\ (c.open => chan[n].open)
  BY <1>1, <1>11 DEF n, ch
<1> QED BY <1>2, <1>4, <1>11, <1>12, <1>13, <1>14, EdgeStep

\* A held slot is filled, or dropped with the inbox.
LEMMA PutStep ==
  ASSUME IInv, NEW s \in Senders, Put(s)
  PROVE  IInv'
<1> DEFINE i == Min(Held(s))
           n == Edges[s][i]
           ch == chan[n]
           c == IF ch.open THEN [ch EXCEPT !.len = @ + Count[s]] ELSE ch
<1>1. i \in Held(s) /\ i \in DOMAIN Edges[s]
  <2>1. Held(s) \in SUBSET DOMAIN Edges[s] /\ Held(s) # {}
    BY DEF Put, Held
  <2> QED BY <2>1, FirstUnreached
<1>2. got[s][i] = "held" /\ pc[s] = "run" /\ pc' = pc /\ Unreached(s) = {}
  BY <1>1 DEF Put, Held
<1>3. n \in Nodes /\ ch \in Chan
  BY <1>1, EdgesDistinct DEF IInv, TypeOK
<1>4. /\ chan' = IF ch.open THEN [chan EXCEPT ![n].len = @ + Count[s]] ELSE chan
      /\ got' = [got EXCEPT ![s][i] = "sent"]
  BY DEF Put
<1>5. chan' = [chan EXCEPT ![n] = c]
  <2>1. CASE ch.open
    BY <1>4, <2>1
  <2>2. CASE ~ch.open
    BY <1>3, <1>4, <2>2 DEF IInv, TypeOK
  <2> QED BY <2>1, <2>2
<1>6. ch.len \in Int /\ ch.free \in Int /\ ch.line \in Seq(Waiter) /\ Count[s] \in Int
  BY <1>3, ChanFields, CountInt
<1>7. Lined(ch) \in Int
  BY <1>6, LinedIs DEF Lined
<1> HIDE DEF n, i, ch
<1>8. c \in Chan /\ (c.open => ch.open)
  BY <1>3, <1>6 DEF Chan
<1>9. ch.open => Slots(c) = Slots(ch) + Count[s]
  <2> SUFFICES ASSUME ch.open PROVE Slots(c) = Slots(ch) + Count[s]
    OBVIOUS
  <2>1. c.len = ch.len + Count[s] /\ c.free = ch.free /\ c.line = ch.line
    BY <1>3, <1>6 DEF Chan
  <2> HIDE DEF c
  <2>2. Lined(c) = Lined(ch)
    BY <2>1 DEF Lined
  <2> QED BY <1>6, <1>7, <2>1, <2>2 DEF Slots
<1>10. HeldAs("sent", s) = 0 /\ HeldAs("held", s) = Count[s] /\ "sent" \in Marks \ {"no"}
  BY DEF HeldAs, Marks
<1> HIDE DEF c
<1>11. Slots(c) \in Int
  BY <1>8, SlotsInt
<1>12. c.open => /\ chan[n].open
                 /\ Slots(c) + HeldAs("sent", s) = Slots(chan[n]) + HeldAs(got[s][i], s)
  BY <1>2, <1>8, <1>9, <1>10, <1>11 DEF ch
<1>13. n = Edges[s][i]
  BY DEF n
<1> DEFINE v == "sent"
<1>14. /\ v \in Marks \ {"no"} /\ got' = [got EXCEPT ![s][i] = v]
       /\ c.open => /\ chan[n].open
                    /\ Slots(c) + HeldAs(v, s) = Slots(chan[n]) + HeldAs(got[s][i], s)
  BY <1>4, <1>10, <1>12
<1> HIDE DEF v
<1> QED BY <1>1, <1>2, <1>5, <1>8, <1>13, <1>14, EdgeStep

\* A call ends with every edge reached and nothing held.
LEMMA ReturnStep ==
  ASSUME IInv, NEW s \in Senders, Return(s)
  PROVE  IInv'
<1>1. /\ pc' = [pc EXCEPT ![s] = "idle"] /\ got' = [got EXCEPT ![s] = NoEdge(s)]
      /\ UNCHANGED chan /\ Held(s) = {}
  BY DEF Return
<1>2. /\ DOMAIN got' = Senders /\ got'[s] = NoEdge(s) /\ \A t \in Senders \ {s} : got'[t] = got[t]
  BY <1>1 DEF IInv, TypeOK
<1>3. NoEdge(s) \in [DOMAIN Edges[s] -> Marks] /\ \A i \in DOMAIN Edges[s] : NoEdge(s)[i] = "no"
  BY DEF NoEdge, Marks
<1>4. TypeOK'
  BY <1>1, <1>2, <1>3 DEF IInv, TypeOK, Marks
<1>5. \A t \in Senders : Reserving(t)'
  <2> TAKE t \in Senders
  <2>1. CASE t = s
    BY <1>2, <1>3, <2>1 DEF Reserving
  <2>2. CASE t # s
    <3>1. got'[t] = got[t] /\ pc'[t] = pc[t] /\ Reserving(t)
      BY <1>1, <1>2, <2>2 DEF IInv, TypeOK
    <3> QED BY <3>1 DEF Reserving, Reserves, Unreached
  <2> QED BY <2>1, <2>2
<1>6. \A n \in Nodes : Holds(s, n) = 0 /\ Holds(s, n)' = 0
  <2>1. Held(s)' = {}
    BY <1>2, <1>3 DEF Held
  <2> QED BY <1>1, <2>1 DEF Holds
<1>7. \A n \in Nodes : chan'[n].open =>
        chan[n].open /\ Slots(chan'[n]) + Holds(s, n)' = Slots(chan[n]) + Holds(s, n)
  BY <1>1, <1>6
<1>8. \A n \in Nodes : Conserved(n)'
  <2>1. TypeOK /\ \A n \in Nodes : Conserved(n)
    BY DEF IInv
  <2> QED BY <1>2, <1>4, <1>7, <2>1, Moves
<1> QED BY <1>4, <1>5, <1>8 DEF IInv

\* What a cancelled reserve_all does to one inbox.
LEMMA ReleaseSlots ==
  ASSUME NEW ch \in Chan, NEW s \in Senders, NEW n
  PROVE  /\ Release(s, ch, n) \in Chan /\ Release(s, ch, n).open = ch.open
         /\ Slots(Release(s, ch, n)) = Slots(ch) + Holds(s, n)
<1>1. Count[s] \in Int /\ Slots(ch) \in Int
  BY CountInt, SlotsInt
<1>2. CASE \E i \in Held(s) : Edges[s][i] = n
  <2>1. Release(s, ch, n) = Grant(ch, Count[s]) /\ Holds(s, n) = Count[s]
    BY <1>2 DEF Release, Holds
  <2> QED BY <1>1, <2>1, GrantSlots
<1>3. CASE ~ \E i \in Held(s) : Edges[s][i] = n
  BY <1>1, <1>3 DEF Release, Holds
<1> QED BY <1>2, <1>3

\* The deadline passes: every slot goes back, the place too unless it is kept.
LEMMA TimeoutStep ==
  ASSUME IInv, NEW s \in Senders, Timeout(s)
  PROVE  IInv'
<1> DEFINE freed(n) == Release(s, chan[n], n)
           c(n) == IF KeepsPlace(s) THEN freed(n) ELSE Leave(freed(n), s)
           g == [i \in DOMAIN got[s] |-> IF got[s][i] = "sent" THEN "sent" ELSE "no"]
<1>1. chan' = [n \in Nodes |-> c(n)]
  BY DEF Timeout
<1>2. /\ pc' = [pc EXCEPT ![s] = IF Method[s] = "resumable" THEN "parked" ELSE "idle"]
      /\ got' = [got EXCEPT ![s] = g]
      /\ Unreached(s) # {} /\ Reserves(s)
  BY DEF Timeout, Expires
<1>3. \A n \in Nodes : c(n) \in Chan /\ c(n).open = chan[n].open /\ Slots(c(n)) = Slots(chan[n]) + Holds(s, n)
  <2> TAKE n \in Nodes
  <2>1. chan[n] \in Chan
    BY DEF IInv, TypeOK
  <2>2. freed(n) \in Chan /\ freed(n).open = chan[n].open /\ Slots(freed(n)) = Slots(chan[n]) + Holds(s, n)
    BY <2>1, ReleaseSlots
  <2> HIDE DEF freed
  <2>3. /\ Leave(freed(n), s) \in Chan /\ Leave(freed(n), s).open = freed(n).open
        /\ Slots(Leave(freed(n), s)) = Slots(freed(n))
    BY <2>2, LeaveSlots
  <2> QED BY <2>2, <2>3
<1> HIDE DEF c
<1>4. \A i \in DOMAIN Edges[s] : got[s][i] # "sent"
  BY <1>2 DEF IInv, Reserving
<1>5. /\ DOMAIN got' = Senders /\ got'[s] = g /\ \A t \in Senders \ {s} : got'[t] = got[t]
      /\ DOMAIN got[s] = DOMAIN Edges[s]
  <2> HIDE DEF g
  <2> QED BY <1>2 DEF IInv, TypeOK
<1>6. g \in [DOMAIN Edges[s] -> Marks] /\ \A i \in DOMAIN Edges[s] : g[i] = "no"
  BY <1>4, <1>5 DEF Marks
<1> HIDE DEF g
<1>7. chan' \in [Nodes -> Chan] /\ \A n \in Nodes : chan'[n] = c(n)
  BY <1>1, <1>3
<1>8. TypeOK'
  BY <1>2, <1>5, <1>6, <1>7 DEF IInv, TypeOK, Marks
<1>9. \A t \in Senders : Reserving(t)'
  <2> TAKE t \in Senders
  <2>1. CASE t = s
    BY <1>5, <1>6, <2>1 DEF Reserving
  <2>2. CASE t # s
    <3>1. got'[t] = got[t] /\ pc'[t] = pc[t] /\ Reserving(t)
      BY <1>2, <1>5, <2>2 DEF IInv, TypeOK
    <3> QED BY <3>1 DEF Reserving, Reserves, Unreached
  <2> QED BY <2>1, <2>2
<1>10. \A n \in Nodes : Holds(s, n)' = 0
  <2>1. Held(s)' = {}
    BY <1>5, <1>6 DEF Held
  <2> QED BY <2>1 DEF Holds
<1>11. \A n \in Nodes : chan'[n].open =>
        chan[n].open /\ Slots(chan'[n]) + Holds(s, n)' = Slots(chan[n]) + Holds(s, n)
  <2> TAKE n \in Nodes
  <2>1. Slots(chan[n]) \in Int /\ Holds(s, n) \in Int
    BY SlotsInt, HoldsInt DEF IInv, TypeOK
  <2>2. chan'[n] = c(n) /\ c(n).open = chan[n].open /\ Slots(c(n)) = Slots(chan[n]) + Holds(s, n)
    BY <1>3, <1>7
  <2> QED BY <1>10, <2>1, <2>2
<1>12. \A n \in Nodes : Conserved(n)'
  <2>1. TypeOK /\ \A n \in Nodes : Conserved(n)
    BY DEF IInv
  <2> QED BY <1>5, <1>8, <1>11, <2>1, Moves
<1> QED BY <1>8, <1>9, <1>12 DEF IInv

\* A reservation dropped between two attempts leaves every line.
LEMMA GiveUpStep ==
  ASSUME IInv, NEW s \in Senders, GiveUp(s)
  PROVE  IInv'
<1> DEFINE c(n) == Leave(chan[n], s)
<1>1. /\ chan' = [n \in Nodes |-> c(n)] /\ pc' = [pc EXCEPT ![s] = "idle"] /\ UNCHANGED got
      /\ pc[s] = "parked"
  BY DEF GiveUp
<1>2. \A n \in Nodes : c(n) \in Chan /\ c(n).open = chan[n].open /\ Slots(c(n)) = Slots(chan[n])
  BY LeaveSlots DEF IInv, TypeOK
<1> HIDE DEF c
<1>3. chan' \in [Nodes -> Chan] /\ \A n \in Nodes : chan'[n] = c(n)
  BY <1>1, <1>2
<1>4. TypeOK'
  BY <1>1, <1>3 DEF IInv, TypeOK
<1>5. \A t \in Senders : Reserving(t)'
  <2> TAKE t \in Senders
  <2>1. Reserving(t) /\ Unreached(t)' = Unreached(t) /\ got'[t] = got[t]
    BY <1>1 DEF IInv, Unreached
  <2>2. pc'[t] # "run" => pc[t] # "run"
    BY <1>1 DEF IInv, TypeOK
  <2> QED BY <2>1, <2>2 DEF Reserving, Reserves
<1>6. \A n \in Nodes : chan'[n].open => chan[n].open /\ Slots(chan'[n]) = Slots(chan[n])
  BY <1>2, <1>3
<1>7. \A n \in Nodes : Conserved(n)'
  BY <1>1, <1>6, Stays DEF IInv
<1> QED BY <1>4, <1>5, <1>7 DEF IInv

-----------------------------------------------------------------------------
(* The theorems. *)

\* In the first state every slot is free.
LEMMA InitInv == Init => IInv
<1> SUFFICES ASSUME Init PROVE IInv
  OBVIOUS
<1>1. chan = [n \in Nodes |-> [len |-> 0, free |-> Cap[n], line |-> <<>>, open |-> TRUE]]
  BY DEF Init
<1>2. Cap \in [Nodes -> Nat \ {0}]
  BY FanoutAssumption
<1>3. ASSUME NEW n \in Nodes
      PROVE  chan[n] \in Chan /\ Slots(chan[n]) = Cap[n]
  <2> DEFINE e == <<>>
  <2>1. chan[n] = [len |-> 0, free |-> Cap[n], line |-> e, open |-> TRUE]
    BY <1>1
  <2>2. e \in Seq(Waiter) /\ Len(e) = 0 /\ DOMAIN e = {}
    OBVIOUS
  <2> HIDE DEF e
  <2>3. chan[n] \in Chan /\ chan[n].len = 0 /\ chan[n].free = Cap[n] /\ chan[n].line = e
    BY <1>2, <2>1, <2>2 DEF Chan
  <2>4. Lined(chan[n]) = 0
    <3> DEFINE f == [i \in DOMAIN chan[n].line |-> chan[n].line[i].got]
    <3>1. DOMAIN f = {}
      BY <2>2, <2>3
    <3>2. Lined(chan[n]) = SumFunctionOnSet(f, DOMAIN f)
      BY DEF Lined, SumFunction
    <3> HIDE DEF f
    <3> QED BY <3>1, <3>2, TotalEmpty
  <2> QED BY <1>2, <2>3, <2>4 DEF Slots
<1>4. got = [s \in Senders |-> NoEdge(s)] /\ pc = [s \in Senders |-> "idle"]
  BY DEF Init
<1>5. \A s \in Senders : got[s] \in [DOMAIN Edges[s] -> Marks] /\ \A i \in DOMAIN Edges[s] : got[s][i] = "no"
  BY <1>4 DEF NoEdge, Marks
<1>6. TypeOK
  <2>1. chan \in [Nodes -> Chan]
    BY <1>1, <1>3
  <2> QED BY <1>4, <1>5, <2>1 DEF TypeOK, Marks
<1>7. \A s \in Senders : Reserving(s)
  BY <1>5 DEF Reserving
<1>8. \A n \in Nodes : Reserved(n) = 0
  <2> TAKE n \in Nodes
  <2> DEFINE f == [s \in Senders |-> Holds(s, n)]
             z == [s \in Senders |-> 0]
  <2>1. \A s \in Senders : Holds(s, n) = 0
    BY <1>5 DEF Holds, Held
  <2>2. f = z
    BY <2>1
  <2>3. Reserved(n) = SumFunctionOnSet(z, Senders)
    BY <2>2, ReservedIs
  <2>4. IsFiniteSet(Senders) /\ \A s \in Senders : z[s] \in Int /\ z[s] = z[s] + z[s]
    BY FanoutAssumption
  <2> HIDE DEF z
  <2>5. SumFunctionOnSet(z, Senders) = SumFunctionOnSet(z, Senders) + SumFunctionOnSet(z, Senders)
    BY <2>4, TotalSum
  <2>6. SumFunctionOnSet(z, Senders) \in Int
    BY <2>4, TotalInt
  <2>7. \A k \in Int : k = k + k => k = 0
    OBVIOUS
  <2>8. SumFunctionOnSet(z, Senders) = 0
    BY <2>5, <2>6, <2>7
  <2> QED BY <2>3, <2>8
<1>9. \A n \in Nodes : Conserved(n)
  BY <1>2, <1>3, <1>8 DEF Conserved
<1> QED BY <1>6, <1>7, <1>9 DEF IInv

\* Every step keeps the invariant.
LEMMA NextInv == IInv /\ [Next]_vars => IInv'
<1> SUFFICES ASSUME IInv, [Next]_vars PROVE IInv'
  OBVIOUS
<1>1. CASE UNCHANGED vars
  <2>1. chan' = chan /\ pc' = pc /\ got' = got
    BY <1>1 DEF vars
  <2>2. TypeOK'
    BY <2>1 DEF IInv, TypeOK
  <2>3. \A s \in Senders : Reserving(s)'
    BY <2>1 DEF IInv, Reserving, Reserves, Unreached
  <2>4. \A n \in Nodes : Conserved(n)'
    BY <2>1, Stays DEF IInv
  <2> QED BY <2>2, <2>3, <2>4 DEF IInv
<1>2. ASSUME NEW s \in Senders, Begin(s) \/ Retry(s) PROVE IInv'
  BY <1>2, StartStep
<1>3. ASSUME NEW s \in Senders, Step(s) PROVE IInv'
  BY <1>3, ReachStep, WakeStep, PutStep, ReturnStep DEF Step
<1>4. ASSUME NEW s \in Senders, Timeout(s) \/ GiveUp(s) PROVE IInv'
  BY <1>4, TimeoutStep, GiveUpStep
<1>5. ASSUME NEW n \in Nodes, Recv(n) \/ Close(n) PROVE IInv'
  BY <1>5, RecvStep, CloseStep
<1> QED BY <1>1, <1>2, <1>3, <1>4, <1>5 DEF Next

\* The invariant holds of every reachable state: the slots a sender holds and
\* the ones an inbox counts always add up (Fanout's reserve_all, its wait, its
\* cancellation at a deadline, and tokio's channel).
THEOREM FanoutInductive == Spec => []IInv
<1>1. Init => IInv
  BY InitInv
<1>2. IInv /\ [Next]_vars => IInv'
  BY NextInv
<1> QED BY <1>1, <1>2, PTL DEF Spec

\* No slot is lost or made by a cancelled, resumed or closed send, and a
\* reserving send outside a call holds none and reached every consumer or none
\* (send_with_deadline), for any finite number of senders.
THEOREM ReservesAllOrNothing == Spec => []AllOrNothing
<1>1. IInv => AllOrNothing
  <2> SUFFICES ASSUME IInv PROVE AllOrNothing
    OBVIOUS
  <2>1. SlotsConserved
    BY ConservedIs DEF IInv, TypeOK
  <2>2. ASSUME NEW s \in Senders, Reserves(s) /\ pc[s] # "run"
        PROVE  /\ Held(s) = {}
               /\ \A i, j \in DOMAIN Edges[s] : got[s][i] = "sent" => got[s][j] \in {"sent", "closed"}
    <3>1. \A i \in DOMAIN Edges[s] : got[s][i] = "no"
      BY <2>2 DEF IInv, Reserving
    <3> QED BY <3>1 DEF Held
  <2> QED BY <2>1, <2>2 DEF AllOrNothing
<1> QED BY <1>1, FanoutInductive, PTL
=============================================================================
