------------------------- MODULE BoundedQueueProofs -------------------------
(***************************************************************************)
(* Theorems about BoundedQueue, for every number of producers, every bound,  *)
(* every policy and both consumers.                                         *)
(***************************************************************************)
EXTENDS BoundedQueue, SequenceFacts, FiniteSetTheorems

-----------------------------------------------------------------------------
(* Notify keeps its type. *)

\* Unlinking a task from a wait list leaves a wait list.
LEMMA UnlinkType ==
  ASSUME NEW P, NEW w \in Seq(P), NEW p
  PROVE  Unlink(w, p) \in Seq(P)
<1>1. CASE p \notin ToSet(w)
  BY <1>1 DEF Unlink
<1>2. CASE p \in ToSet(w)
  <2>1. PICK i \in DOMAIN w : w[i] = p
    BY <1>2 DEF ToSet
  <2> DEFINE j == CHOOSE k \in DOMAIN w : w[k] = p
  <2>2. j \in DOMAIN w
    BY <2>1
  <2>3. RemoveAt(w, j) \in Seq(P)
    <3> HIDE DEF j
    <3>1. j \in 1..Len(w)
      BY <2>2
    <3>2. SubSeq(w, 1, j - 1) \in Seq(P)
      BY <3>1
    <3>3. SubSeq(w, j + 1, Len(w)) \in Seq(P)
      BY <3>1
    <3> QED
      BY <3>2, <3>3 DEF RemoveAt
  <2> QED
    BY <1>2, <2>3 DEF Unlink
<1> QED
  BY <1>1, <1>2

\* Every operation on a Notify returns a Notify over the same tasks.
LEMMA NotifyOpsType ==
  ASSUME NEW P, NEW n \in NotifyType(P), NEW p \in P, NEW snap
  PROVE  /\ NotifyOne(n) \in NotifyType(P)
         /\ NotifyWaiters(n) \in NotifyType(P)
         /\ FirstPoll(n, p, snap) \in NotifyType(P)
         /\ Resume(n, p) \in NotifyType(P)
         /\ DropNotified(n, p) \in NotifyType(P)
<1>1. ASSUME NEW m \in NotifyType(P) PROVE NotifyOne(m) \in NotifyType(P)
  <2>1. CASE m.waiting = <<>>
    BY <2>1 DEF NotifyOne, NotifyType
  <2>2. CASE m.waiting # <<>>
    <3>1. Head(m.waiting) \in P /\ Tail(m.waiting) \in Seq(P)
      BY <2>2 DEF NotifyType
    <3> QED
      BY <2>2, <3>1 DEF NotifyOne, NotifyType
  <2> QED
    BY <2>1, <2>2
<1>2. NotifyWaiters(n) \in NotifyType(P)
  <2>1. n.waiting \in Seq(P)
    BY DEF NotifyType
  <2>2. ToSet(n.waiting) \subseteq P
    BY <2>1 DEF ToSet
  <2>3. n.wokenAll \cup ToSet(n.waiting) \in SUBSET P
    BY <2>2 DEF NotifyType
  <2> DEFINE all == n.wokenAll \cup ToSet(n.waiting)
             nobody == <<>>
             more == n.gen + 1
  <2>4. NotifyWaiters(n) = [n EXCEPT !.gen = more, !.waiting = nobody, !.wokenAll = all]
    BY DEF NotifyWaiters
  <2>5. more \in Nat /\ nobody \in Seq(P) /\ all \in SUBSET P
    BY <2>3 DEF NotifyType
  <2> HIDE DEF all, nobody, more
  <2> QED
    BY <2>4, <2>5 DEF NotifyType
<1>3. FirstPoll(n, p, snap) \in NotifyType(P)
  <2>1. [n EXCEPT !.permit = FALSE] \in NotifyType(P)
    BY DEF NotifyType
  <2>2. Append(n.waiting, p) \in Seq(P)
    BY DEF NotifyType
  <2>3. [n EXCEPT !.waiting = Append(n.waiting, p)] \in NotifyType(P)
    BY <2>2 DEF NotifyType
  <2> QED
    BY <2>1, <2>3 DEF FirstPoll
<1>4. Resume(n, p) \in NotifyType(P)
  BY DEF Resume, NotifyType
<1>5. DropNotified(n, p) \in NotifyType(P)
  <2>1. CASE p \in n.wokenOne
    BY <2>1, <1>1, <1>4 DEF DropNotified
  <2>2. CASE p \notin n.wokenOne
    <3>1. Unlink(n.waiting, p) \in Seq(P)
      BY UnlinkType DEF NotifyType
    <3> QED
      BY <2>2, <3>1, <1>4 DEF DropNotified, NotifyType
  <2> QED
    BY <2>1, <2>2
<1> QED
  BY <1>1, <1>2, <1>3, <1>4, <1>5

-----------------------------------------------------------------------------
(* The inductive invariant.  InFlightIsPrefix is not inductive alone: commit    *)
(* and peek_at take items that must be known to be there, so the position the  *)
(* consumer waits for, what a call still carries and the notifications owed    *)
(* are bounded too.  RoomBound strengthens AtMostOneOver: the one item over    *)
(* the limit is the one that follows a fully reserved prefix.                  *)

ListenerHoldsNothing == style = "listener" => held = <<>>

WaitsForNext ==
  cpc \in {"check", "poll", "parked"} => want <= Len(held) + 1 /\ want <= MaxInFlight

CallsCarryItems ==
  \A p \in Producers : ppc[p] \in {"admit", "prewait", "poll", "parked"} => batch[p] # <<>>

OwesNotices == cpc = "notify" => owed > 0

RoomBound == Len(items) <= MaxItems \/ Len(items) <= Len(held) + 1

IInv ==
  /\ TypeOK
  /\ InFlightIsPrefix
  /\ ListenerHoldsNothing
  /\ Len(held) <= MaxInFlight
  /\ WaitsForNext
  /\ CallsCarryItems
  /\ OwesNotices
  /\ RoomBound

-----------------------------------------------------------------------------
(* What the buffer's operators return. *)

\* The saturating subtraction stays within what it subtracts from.
LEMMA SatSubType ==
  ASSUME NEW a \in Nat, NEW b
  PROVE  SatSub(a, b) \in 0..a
BY DEF SatSub

\* The saturating addition stays within u64.
LEMMA SatAddType ==
  ASSUME NEW a \in 0..WeightCeiling, NEW b \in Nat
  PROVE  SatAdd(a, b) \in 0..WeightCeiling
BY QueueAssumption DEF SatAdd

\* Evicting k items after the first r keeps those r and the type.
LEMMA WithoutType ==
  ASSUME NEW S, NEW s \in Seq(S), NEW r \in Nat, NEW k \in 0..(Len(s) - r)
  PROVE  /\ Without(s, r, k) \in Seq(S)
         /\ Len(Without(s, r, k)) = Len(s) - k
         /\ \A i \in 1..r : i <= Len(s) - k => Without(s, r, k)[i] = s[i]
<1> DEFINE m == Len(s) - k
<1>1. m \in Nat
  OBVIOUS
<1>2. \A i \in 1..m : (IF i <= r THEN s[i] ELSE s[i + k]) \in S
  OBVIOUS
<1>3. Without(s, r, k) = [i \in 1..m |-> IF i <= r THEN s[i] ELSE s[i + k]]
  BY DEF Without
<1> HIDE DEF m
<1>4. Without(s, r, k) \in Seq(S) /\ Len(Without(s, r, k)) = m
  BY <1>1, <1>2, <1>3
<1> QED
  BY <1>3, <1>4 DEF m

\* A step that keeps the reserved prefix of the queue keeps the window in place.
LEMMA PrefixStays ==
  ASSUME InFlightIsPrefix, UNCHANGED <<reserved, held>>,
         held \in Seq(Item), items' \in Seq(Item), reserved <= Len(items'),
         \A i \in 1..reserved : items'[i] = items[i]
  PROVE  InFlightIsPrefix'
<1>1. reserved' = Len(held') /\ Len(held') <= Len(items')
  BY DEF InFlightIsPrefix
<1>2. ASSUME NEW i \in 1..Len(held') PROVE items'[i] = held'[i]
  <2>1. i \in 1..reserved /\ i \in 1..Len(held) /\ held'[i] = held[i]
    BY <1>2 DEF InFlightIsPrefix
  <2> QED
    BY <2>1 DEF InFlightIsPrefix
<1> QED
  BY <1>1, <1>2 DEF InFlightIsPrefix

\* InMemoryBuffer::push keeps the type of the buffer and of the drop counts,
\* the reserved prefix, and the room bound.
LEMMA BufferPushKeeps ==
  ASSUME IInv, NEW x \in Item, BufferPush(x), UNCHANGED <<reserved, held>>
  PROVE  /\ items' \in Seq(Item) /\ weight' \in 0..WeightCeiling
         /\ dropped' \in [Reasons -> SUBSET Item]
         /\ InFlightIsPrefix'
         /\ RoomBound'
<1> USE QueueAssumption
<1>1. /\ items \in Seq(Item) /\ weight \in 0..WeightCeiling /\ reserved \in Nat
      /\ held \in Seq(Item) /\ dropped \in [Reasons -> SUBSET Item]
      /\ InFlightIsPrefix /\ RoomBound /\ WeightCeiling \in Nat /\ weight \in Nat
  BY DEF IInv, TypeOK
<1>2. x.w \in Nat
  BY DEF Item
<1>3. CASE /\ ~Full(x.w)
           /\ items' = Append(items, x)
           /\ weight' = SatAdd(weight, x.w)
           /\ UNCHANGED dropped
  <2>1. weight' \in 0..WeightCeiling
    BY <1>1, <1>2, <1>3, SatAddType
  <2>2. items' \in Seq(Item) /\ Len(items') = Len(items) + 1
        /\ \A i \in 1..Len(items) : items'[i] = items[i]
    BY <1>1, <1>3
  <2>3. InFlightIsPrefix'
    <3>1. reserved <= Len(items') /\ \A i \in 1..reserved : items'[i] = items[i]
      BY <1>1, <2>2 DEF InFlightIsPrefix
    <3> QED
      BY <1>1, <2>2, <3>1, PrefixStays
  <2>4. Len(items) < MaxItems
    BY <1>1, <1>3 DEF Full, WouldOverflow
  <2>5. RoomBound'
    BY <1>1, <2>2, <2>4 DEF RoomBound
  <2> QED
    BY <1>1, <1>3, <2>1, <2>2, <2>3, <2>5
<1>4. ASSUME NEW k \in 0..(Len(items) - Protected), EvictsToFit(k, x.w),
             items' = Append(Without(items, Protected, k), x),
             weight' = SatAdd(SatSub(weight, WeightOf(items, Protected, k)), x.w),
             dropped' = [dropped EXCEPT !["overflow_oldest"] =
                           @ \cup {items[Protected + i] : i \in 1..k}]
      PROVE  /\ items' \in Seq(Item) /\ weight' \in 0..WeightCeiling
             /\ dropped' \in [Reasons -> SUBSET Item]
             /\ InFlightIsPrefix'
             /\ RoomBound'
  <2>1. weight' \in 0..WeightCeiling
    <3>1. SatSub(weight, WeightOf(items, Protected, k)) \in 0..WeightCeiling
      BY <1>1, SatSubType
    <3> QED
      BY <1>2, <1>4, <3>1, SatAddType
  <2>2. reserved <= Len(items) /\ k \in 0..(Len(items) - reserved)
    BY <1>1 DEF InFlightIsPrefix, Protected
  <2> DEFINE rest == Without(items, reserved, k)
  <2>3. rest \in Seq(Item) /\ Len(rest) = Len(items) - k /\ \A i \in 1..reserved : rest[i] = items[i]
    BY <1>1, <2>2, WithoutType
  <2>4. items' = Append(rest, x)
    BY <1>4 DEF Protected
  <2> HIDE DEF rest
  <2>5. items' \in Seq(Item) /\ Len(items') = Len(items) - k + 1
        /\ \A i \in 1..reserved : items'[i] = items[i]
    BY <1>1, <2>2, <2>3, <2>4, SMTT(30)
  <2>6. InFlightIsPrefix'
    BY <1>1, <2>2, <2>5, PrefixStays
  <2>7. k = Len(items) - reserved \/ Len(items) - k < MaxItems
    BY <1>1, <1>4, <2>2 DEF EvictsToFit, WouldOverflow, Protected
  <2>8. RoomBound'
    BY <1>1, <2>2, <2>5, <2>7 DEF RoomBound, InFlightIsPrefix
  <2>9. {items[Protected + i] : i \in 1..k} \subseteq Item
    BY <1>1, <2>2 DEF Protected
  <2>10. dropped' \in [Reasons -> SUBSET Item]
    <3> DEFINE lost == {items[Protected + i] : i \in 1..k}
    <3>1. dropped["overflow_oldest"] \cup lost \in SUBSET Item
      BY <1>1, <2>9 DEF Reasons
    <3>2. dropped' = [dropped EXCEPT !["overflow_oldest"] = dropped["overflow_oldest"] \cup lost]
      BY <1>4
    <3> HIDE DEF lost
    <3> QED
      BY <1>1, <3>1, <3>2
  <2> QED
    BY <2>1, <2>5, <2>6, <2>8, <2>10
<1>5. CASE /\ dropped' = [dropped EXCEPT !["overflow_newest"] = @ \cup {x}]
           /\ UNCHANGED <<items, weight>>
  <2>1. dropped' \in [Reasons -> SUBSET Item]
    BY <1>1, <1>5 DEF Reasons
  <2>2. InFlightIsPrefix' /\ RoomBound'
    BY <1>1, <1>5 DEF InFlightIsPrefix, RoomBound
  <2> QED
    BY <1>1, <1>5, <2>1, <2>2
<1> QED
  BY <1>3, <1>4, <1>5 DEF BufferPush

-----------------------------------------------------------------------------
(* Every step keeps the invariant. *)

\* The initial queue is empty, nothing is in flight and nobody waits.
LEMMA InitIInv == Init => IInv
<1> SUFFICES ASSUME Init PROVE IInv
  OBVIOUS
<1> USE QueueAssumption DEF Init
<1>1. NewNotify \in NotifyType(Procs)
  BY DEF NewNotify, NotifyType
<1>2. TypeOK
  <2>1. batch \in [Producers -> Seq(Item)] /\ dropped \in [Reasons -> SUBSET Item]
    OBVIOUS
  <2>2. ppc \in [Producers -> {"idle", "admit", "announce", "prewait", "poll", "parked"}]
    OBVIOUS
  <2>3. psnap \in [Producers -> Nat] /\ next \in [Producers -> Nat]
    OBVIOUS
  <2>4. notEmpty \in NotifyType(Procs) /\ notFull \in NotifyType(Procs)
    BY <1>1
  <2>5. items \in Seq(Item) /\ held \in Seq(Item) /\ taken \in Seq(Item)
    OBVIOUS
  <2>6. reserved \in Nat /\ weight \in 0..WeightCeiling /\ csnap \in Nat /\ want \in Nat \ {0}
        /\ owed \in Nat /\ closes \in Nat
    OBVIOUS
  <2>7. closed \in BOOLEAN /\ lock \in Producers \cup {Nobody} /\ returned \in SUBSET Item
        /\ cpc = "idle" /\ closepc = "open" /\ policy \in Policies /\ style \in Styles
    OBVIOUS
  <2> QED
    BY <2>1, <2>2, <2>3, <2>4, <2>5, <2>6, <2>7, Zenon DEF TypeOK
<1>3. InFlightIsPrefix /\ RoomBound /\ Len(held) <= MaxInFlight
  BY DEF InFlightIsPrefix, RoomBound, MaxInFlight
<1> QED
  BY <1>2, <1>3 DEF IInv, ListenerHoldsNothing, WaitsForNext, CallsCarryItems, OwesNotices

\* A call of push or push_many by a producer keeps the invariant.
LEMMA CallPushKeeps ==
  ASSUME IInv, NEW p \in Producers, NEW n \in Nat \ {0}, NEW ws \in [1..n -> Weights],
         CallPush(p, ws)
  PROVE  IInv'
<1> USE QueueAssumption
<1>1. ws \in Seq(Weights) /\ Len(ws) = n
  OBVIOUS
<1>2. NewItems(p, ws) \in Seq(Item) /\ NewItems(p, ws) # <<>>
  <2>1. next[p] \in Nat
    BY DEF IInv, TypeOK
  <2>2. \A i \in 1..n : [from |-> p, num |-> next[p] + i - 1, w |-> ws[i]] \in Item
    BY <2>1 DEF Item
  <2>3. NewItems(p, ws) = [i \in 1..n |-> [from |-> p, num |-> next[p] + i - 1, w |-> ws[i]]]
    BY <1>1 DEF NewItems
  <2>4. NewItems(p, ws) \in Seq(Item) /\ Len(NewItems(p, ws)) = n
    BY <2>2, <2>3
  <2> QED
    BY <2>4
<1>3. /\ batch' \in [Producers -> Seq(Item)]
      /\ ppc' = [ppc EXCEPT ![p] = "admit"]
      /\ batch' = [batch EXCEPT ![p] = NewItems(p, ws)]
      /\ next' \in [Producers -> Nat]
      /\ psnap' \in [Producers -> Nat]
  BY <1>1, <1>2, SMTT(30) DEF IInv, TypeOK, CallPush, NotifyType
<1>4. CallsCarryItems'
  BY <1>2, <1>3 DEF IInv, TypeOK, CallsCarryItems
<1>5. UNCHANGED <<confVars, bufVars, notEmpty, notFull, returned, takeVars, dropped, closeVars>>
  BY DEF CallPush
<1> QED
  BY <1>3, <1>4, <1>5, SMTT(30)
     DEF IInv, TypeOK, InFlightIsPrefix, ListenerHoldsNothing,
         WaitsForNext, CallsCarryItems, OwesNotices, RoomBound, confVars, bufVars, pushVars, takeVars, closeVars, MaxInFlight

\* A producer's step after the call keeps the invariant: admission, the
\* announcement, the wait's poll, its end and its cancellation.
LEMMA PushStepKeeps ==
  ASSUME IInv, NEW p \in Producers, PushStep(p) \/ CancelPush(p)
  PROVE  IInv'
<1> USE QueueAssumption
<1>0. p \in Procs /\ notFull \in NotifyType(Procs) /\ notEmpty \in NotifyType(Procs)
      /\ notFull.gen \in Nat
  BY DEF IInv, TypeOK, Procs, NotifyType
<1>1. CASE Admit(p)
  <2>1. Head(batch[p]) \in Item /\ Tail(batch[p]) \in Seq(Item) /\ batch[p] # <<>>
    BY <1>1 DEF Admit, IInv, TypeOK, CallsCarryItems
  <2>2. UNCHANGED <<confVars, reserved, notEmpty, notFull, psnap, next, returned,
                    takeVars, closeVars>>
    BY <1>1 DEF Admit
  <2>3. CASE /\ lock' = Nobody
             /\ ppc' = [ppc EXCEPT ![p] = BeforeWait]
             /\ UNCHANGED <<items, weight, batch, dropped>>
    <3>1. ppc' \in [Producers -> {"idle", "admit", "announce", "prewait", "poll", "parked"}]
      BY <2>3 DEF IInv, TypeOK, BeforeWait
    <3>2. CallsCarryItems'
      BY <2>1, <2>3 DEF IInv, TypeOK, CallsCarryItems
    <3> QED
      BY <2>2, <2>3, <3>1, <3>2
         DEF IInv, TypeOK, InFlightIsPrefix, ListenerHoldsNothing,
         WaitsForNext, CallsCarryItems, OwesNotices, RoomBound, confVars, bufVars, pushVars, takeVars, closeVars, MaxInFlight
  <2>4. CASE /\ BufferPush(Head(batch[p]))
             /\ batch' = [batch EXCEPT ![p] = Tail(@)]
             /\ IF Tail(batch[p]) = <<>>
                THEN lock' = Nobody /\ ppc' = [ppc EXCEPT ![p] = "announce"]
                ELSE lock' = p /\ UNCHANGED ppc
    <3>1. /\ items' \in Seq(Item) /\ weight' \in 0..WeightCeiling
          /\ dropped' \in [Reasons -> SUBSET Item]
          /\ InFlightIsPrefix'
          /\ RoomBound'
      <4>1. BufferPush(Head(batch[p])) /\ UNCHANGED <<reserved, held>>
        BY <2>2, <2>4 DEF takeVars
      <4> QED
        BY <2>1, <4>1, BufferPushKeeps
    <3>2. /\ ppc' \in [Producers -> {"idle", "admit", "announce", "prewait", "poll", "parked"}]
          /\ batch' \in [Producers -> Seq(Item)]
          /\ lock' \in Producers \cup {Nobody}
      BY <2>1, <2>4 DEF IInv, TypeOK
    <3>3. CallsCarryItems'
      BY <2>1, <2>4 DEF IInv, TypeOK, CallsCarryItems
    <3> QED
      BY <2>2, <3>1, <3>2, <3>3
         DEF IInv, TypeOK, ListenerHoldsNothing, WaitsForNext, OwesNotices, confVars, bufVars, pushVars, takeVars, closeVars, MaxInFlight
  <2> QED
    BY <1>1, <2>3, <2>4 DEF Admit
<1>2. CASE Announce(p)
  <2>1. notEmpty' \in NotifyType(Procs)
    BY <1>0, <1>2, NotifyOpsType DEF Announce
  <2>2. CallsCarryItems'
    BY <1>2 DEF IInv, TypeOK, CallsCarryItems, Announce
  <2> QED
    BY <1>2, <2>1, <2>2
       DEF Announce, IInv, TypeOK, InFlightIsPrefix, ListenerHoldsNothing,
         WaitsForNext, CallsCarryItems, OwesNotices, RoomBound, confVars, bufVars, pushVars, takeVars, closeVars, MaxInFlight
<1>3. CASE PollNotFull(p)
  <2>1. notFull' \in NotifyType(Procs)
    BY <1>0, <1>3, NotifyOpsType DEF PollNotFull
  <2>2. CallsCarryItems'
    BY <1>3 DEF IInv, TypeOK, CallsCarryItems, PollNotFull
  <2>3. psnap' \in [Producers -> Nat]
    BY <1>0, <1>3 DEF IInv, TypeOK, PollNotFull
  <2> QED
    BY <1>3, <2>1, <2>2, <2>3, ZenonT(60)
       DEF PollNotFull, IInv, TypeOK, InFlightIsPrefix, ListenerHoldsNothing,
         WaitsForNext, CallsCarryItems, OwesNotices, RoomBound, confVars, bufVars, pushVars, takeVars, closeVars, MaxInFlight
<1>4. CASE WakePush(p)
  <2>1. notFull' \in NotifyType(Procs)
    BY <1>0, <1>4, NotifyOpsType DEF WakePush
  <2>2. CallsCarryItems'
    BY <1>4 DEF IInv, TypeOK, CallsCarryItems, WakePush
  <2>3. psnap' \in [Producers -> Nat]
    BY <1>0, <1>4 DEF IInv, TypeOK, WakePush
  <2> QED
    BY <1>4, <2>1, <2>2, <2>3
       DEF WakePush, IInv, TypeOK, InFlightIsPrefix, ListenerHoldsNothing,
         WaitsForNext, CallsCarryItems, OwesNotices, RoomBound, confVars, bufVars, pushVars, takeVars, closeVars, MaxInFlight
<1>5. CASE TickPush(p)
  <2>1. notFull' \in NotifyType(Procs)
    BY <1>0, <1>5, NotifyOpsType DEF TickPush
  <2>2. CallsCarryItems'
    BY <1>5 DEF IInv, TypeOK, CallsCarryItems, TickPush
  <2>3. psnap' \in [Producers -> Nat]
    BY <1>0, <1>5 DEF IInv, TypeOK, TickPush
  <2> QED
    BY <1>5, <2>1, <2>2, <2>3
       DEF TickPush, IInv, TypeOK, InFlightIsPrefix, ListenerHoldsNothing,
         WaitsForNext, CallsCarryItems, OwesNotices, RoomBound, confVars, bufVars, pushVars, takeVars, closeVars, MaxInFlight
<1>6. CASE CancelPush(p)
  <2>1. notFull' \in NotifyType(Procs)
    BY <1>0, <1>6, NotifyOpsType DEF CancelPush
  <2>2. CallsCarryItems'
    BY <1>6 DEF IInv, TypeOK, CallsCarryItems, CancelPush
  <2>3. ToSet(batch[p]) \subseteq Item
    BY DEF IInv, TypeOK, ToSet
  <2>4. dropped' \in [Reasons -> SUBSET Item] /\ returned' \in SUBSET Item
    <3> DEFINE lost == ToSet(batch[p])
    <3>1. dropped["shutdown"] \cup lost \in SUBSET Item
      BY <2>3 DEF IInv, TypeOK, Reasons
    <3>2. \/ dropped' = [dropped EXCEPT !["shutdown"] = dropped["shutdown"] \cup lost]
             /\ returned' = returned
          \/ dropped' = dropped /\ returned' = returned \cup lost
      BY <1>6 DEF CancelPush, Unreached
    <3> HIDE DEF lost
    <3>3. lost \subseteq Item
      BY <2>3 DEF lost
    <3> QED
      BY <3>1, <3>2, <3>3 DEF IInv, TypeOK, Reasons
  <2>5. batch' \in [Producers -> Seq(Item)]
    BY <1>6 DEF IInv, TypeOK, CancelPush
  <2> QED
    BY <1>6, <2>1, <2>2, <2>4, <2>5, SMTT(30)
       DEF CancelPush, IInv, TypeOK, InFlightIsPrefix, ListenerHoldsNothing,
         WaitsForNext, CallsCarryItems, OwesNotices, RoomBound, confVars, bufVars, pushVars, takeVars, closeVars, MaxInFlight
<1> QED
  BY <1>1, <1>2, <1>3, <1>4, <1>5, <1>6 DEF PushStep

\* peek_at of the item after those in flight, or of one of them, keeps what
\* concerns the buffer.
LEMMA ReserveKeeps ==
  ASSUME IInv, NEW n \in Nat \ {0}, n <= Len(held) + 1, n <= MaxInFlight, n <= Len(items),
         Reserve(n)
  PROVE  /\ items' = items /\ weight' = weight /\ lock' = lock
         /\ reserved' \in Nat /\ held' \in Seq(Item)
         /\ Len(held') >= Len(held) /\ Len(held') <= MaxInFlight
         /\ InFlightIsPrefix' /\ RoomBound'
<1>1. /\ items \in Seq(Item) /\ held \in Seq(Item) /\ reserved = Len(held)
      /\ Len(held) <= Len(items) /\ Len(held) <= MaxInFlight
      /\ (\A i \in 1..Len(held) : items[i] = held[i]) /\ RoomBound
  BY DEF IInv, TypeOK, InFlightIsPrefix
<1>2. items' = items /\ weight' = weight /\ lock' = lock
  BY DEF Reserve
<1>3. CASE n <= Len(held)
  <2>1. reserved' = reserved /\ held' = held
    BY <1>1, <1>3 DEF Reserve
  <2> QED
    BY <1>1, <1>2, <2>1 DEF InFlightIsPrefix, RoomBound
<1>4. CASE n = Len(held) + 1
  <2>1. reserved' = n /\ held' = Append(held, items[n])
    BY <1>1, <1>4 DEF Reserve
  <2>2. items[n] \in Item
    BY <1>1
  <2>3. held' \in Seq(Item) /\ Len(held') = n /\ \A i \in 1..n : held'[i] = items[i]
    BY <1>1, <1>4, <2>1, <2>2
  <2> QED
    BY <1>1, <1>2, <1>4, <2>1, <2>3 DEF InFlightIsPrefix, RoomBound
<1> QED
  BY <1>1, <1>3, <1>4

\* Removing n items from the front keeps the type of what is left.
LEMMA BufferCommitType ==
  ASSUME IInv, NEW n \in 0..Len(items), BufferCommit(n)
  PROVE  /\ items' \in Seq(Item) /\ Len(items') = Len(items) - n
         /\ \A i \in 1..(Len(items) - n) : items'[i] = items[i + n]
         /\ reserved' = SatSub(reserved, n) /\ reserved' \in 0..reserved
         /\ weight' \in 0..WeightCeiling
         /\ SubSeq(items, 1, n) \in Seq(Item)
<1>1. items \in Seq(Item) /\ reserved \in Nat /\ weight \in 0..WeightCeiling /\ weight \in Nat
      /\ WeightCeiling \in Nat
  BY QueueAssumption DEF IInv, TypeOK
<1>2. weight' \in 0..WeightCeiling /\ reserved' \in 0..reserved
  BY <1>1, SatSubType DEF BufferCommit
<1>3. items' = SubSeq(items, n + 1, Len(items)) /\ reserved' = SatSub(reserved, n)
  BY DEF BufferCommit
<1> QED
  BY <1>1, <1>2, <1>3

\* A consumer's step keeps the invariant.
LEMMA ConsumerKeeps ==
  ASSUME IInv, StartPeek \/ StartWaitAt \/ StartPop \/ PeekAt \/ Commit \/ TakeAll \/ AbandonWait
               \/ TakeStep
  PROVE  IInv'
<1> USE QueueAssumption
<1>0. /\ Consumer \in Procs /\ notFull \in NotifyType(Procs) /\ notEmpty \in NotifyType(Procs)
      /\ notEmpty.gen \in Nat /\ MaxInFlight \in Nat /\ MaxInFlight >= 1
      /\ items \in Seq(Item) /\ held \in Seq(Item) /\ taken \in Seq(Item)
  BY DEF IInv, TypeOK, Procs, NotifyType, MaxInFlight
<1>1. CASE StartPeek \/ StartWaitAt \/ StartPop
  <2>1. PICK n \in Nat \ {0} : StartTake(n) /\ n <= Len(held) + 1 /\ n <= MaxInFlight
    BY <1>0, <1>1 DEF StartPeek, StartWaitAt, StartPop
  <2> QED
    BY <1>0, <2>1
       DEF StartTake, IInv, TypeOK, InFlightIsPrefix, ListenerHoldsNothing,
         WaitsForNext, CallsCarryItems, OwesNotices, RoomBound, confVars, bufVars, pushVars, takeVars, closeVars, MaxInFlight
<1>2. CASE PeekAt
  <2>1. Reserve(Len(held) + 1) /\ Len(held) + 1 <= Len(items) /\ Len(held) + 1 <= MaxInFlight
        /\ style = "sink" /\ cpc = "idle"
        /\ Len(held) + 1 \in Nat \ {0}
    BY <1>0, <1>2 DEF PeekAt
  <2>2. /\ items' = items /\ weight' = weight /\ lock' = lock
        /\ reserved' \in Nat /\ held' \in Seq(Item)
        /\ Len(held') <= MaxInFlight
        /\ InFlightIsPrefix' /\ RoomBound'
    BY <1>0, <2>1, ReserveKeeps
  <2> QED
    BY <1>0, <1>2, <2>1, <2>2
       DEF PeekAt, IInv, TypeOK, ListenerHoldsNothing, WaitsForNext, CallsCarryItems,
           OwesNotices, confVars, bufVars, pushVars, takeVars, closeVars, MaxInFlight
<1>3. CASE Commit
  <2>1. held # <<>> /\ BufferCommit(1) /\ held' = Tail(held) /\ reserved = Len(held)
        /\ Len(held) <= Len(items) /\ Len(held) \in Nat \ {0} /\ 1 \in 0..Len(items)
    BY <1>0, <1>3 DEF Commit, IInv, InFlightIsPrefix
  <2>2. /\ items' \in Seq(Item) /\ Len(items') = Len(items) - 1
        /\ \A i \in 1..(Len(items) - 1) : items'[i] = items[i + 1]
        /\ reserved' = SatSub(reserved, 1)
        /\ weight' \in 0..WeightCeiling
    BY <1>0, <2>1, BufferCommitType
  <2>3. reserved' = Len(held) - 1
    BY <2>1, <2>2 DEF SatSub
  <2>4. held' \in Seq(Item) /\ Len(held') = Len(held) - 1
        /\ \A i \in 1..(Len(held) - 1) : held'[i] = held[i + 1]
    BY <1>0, <2>1
  <2>5. InFlightIsPrefix'
    <3>1. \A i \in 1..Len(held) : items[i] = held[i]
      BY DEF IInv, InFlightIsPrefix
    <3>2. \A i \in 1..(Len(held) - 1) : items'[i] = held'[i]
      <4> TAKE i \in 1..(Len(held) - 1)
      <4>1. i + 1 \in 1..Len(held) /\ i \in 1..(Len(items) - 1)
        BY <2>1, <1>0
      <4>2. items'[i] = items[i + 1] /\ held'[i] = held[i + 1]
        BY <2>2, <2>4, <4>1
      <4> QED
        BY <3>1, <4>1, <4>2
    <3> QED
      BY <1>0, <2>1, <2>2, <2>3, <2>4, <3>2 DEF InFlightIsPrefix
  <2>6. RoomBound'
    BY <1>0, <2>1, <2>2, <2>4 DEF IInv, RoomBound
  <2>7. taken' \in Seq(Item)
    BY <1>0, <1>3, <2>1 DEF Commit
  <2>8. owed' = 1 /\ cpc' = "notify"
    BY <1>3 DEF Commit, RoomNotices
  <2>9. TypeOK'
    BY <1>0, <1>3, <2>1, <2>2, <2>3, <2>4, <2>7, <2>8
       DEF Commit, IInv, TypeOK, confVars, pushVars, closeVars
  <2>10. ListenerHoldsNothing' /\ OwesNotices'
    BY <1>3, <2>1, <2>8 DEF Commit, ListenerHoldsNothing, OwesNotices, confVars
  <2>11. CallsCarryItems' /\ WaitsForNext'
    BY <1>0, <1>3, <2>8 DEF Commit, IInv, CallsCarryItems, WaitsForNext, pushVars
  <2>12. Len(held') <= MaxInFlight
    BY <1>0, <2>1, <2>4 DEF IInv, MaxInFlight
  <2> QED
    BY <2>5, <2>6, <2>9, <2>10, <2>11, <2>12 DEF IInv, MaxInFlight
<1>4. CASE TakeAll
  <2>1. style = "listener" /\ held = <<>> /\ reserved = 0 /\ BufferCommit(Len(items))
        /\ Len(items) \in 0..Len(items)
    BY <1>0, <1>4 DEF TakeAll, IInv, ListenerHoldsNothing, InFlightIsPrefix
  <2>2. items' \in Seq(Item) /\ Len(items') = 0 /\ reserved' = 0 /\ weight' \in 0..WeightCeiling
    BY <1>0, <2>1, BufferCommitType
  <2>3. taken' \in Seq(Item)
    BY <1>0, <1>4 DEF TakeAll
  <2>4. held' = <<>> /\ InFlightIsPrefix' /\ RoomBound'
    BY <1>0, <1>4, <2>1, <2>2 DEF TakeAll, InFlightIsPrefix, RoomBound
  <2> QED
    BY <1>0, <1>4, <2>1, <2>2, <2>3, <2>4
       DEF TakeAll, IInv, TypeOK, ListenerHoldsNothing,
         WaitsForNext, CallsCarryItems, OwesNotices, confVars, bufVars, pushVars, takeVars, closeVars, MaxInFlight
<1>5. CASE AbandonWait
  <2>1. notEmpty' \in NotifyType(Procs)
    BY <1>0, <1>5, NotifyOpsType DEF AbandonWait
  <2> QED
    BY <1>5, <2>1
       DEF AbandonWait, IInv, TypeOK, InFlightIsPrefix, ListenerHoldsNothing,
         WaitsForNext, CallsCarryItems, OwesNotices, RoomBound, confVars, bufVars, pushVars, takeVars, closeVars, MaxInFlight
<1>6. CASE PollNotEmpty
  <2>1. notEmpty' \in NotifyType(Procs)
    BY <1>0, <1>6, NotifyOpsType DEF PollNotEmpty
  <2> QED
    BY <1>0, <1>6, <2>1
       DEF PollNotEmpty, IInv, TypeOK, InFlightIsPrefix, ListenerHoldsNothing,
         WaitsForNext, CallsCarryItems, OwesNotices, RoomBound, confVars, bufVars, pushVars, takeVars, closeVars, MaxInFlight
<1>7. CASE WakeConsumer
  <2>1. notEmpty' \in NotifyType(Procs)
    BY <1>0, <1>7, NotifyOpsType DEF WakeConsumer
  <2> QED
    BY <1>0, <1>7, <2>1
       DEF WakeConsumer, IInv, TypeOK, InFlightIsPrefix, ListenerHoldsNothing,
         WaitsForNext, CallsCarryItems, OwesNotices, RoomBound, confVars, bufVars, pushVars, takeVars, closeVars, MaxInFlight
<1>8. CASE NotifyRoom
  <2>1. notFull' \in NotifyType(Procs)
    BY <1>0, <1>8, NotifyOpsType DEF NotifyRoom
  <2>2. owed > 0 /\ owed \in Nat /\ owed' = owed - 1 /\ cpc' = IF owed = 1 THEN "idle" ELSE "notify"
    BY <1>8 DEF NotifyRoom, IInv, OwesNotices, TypeOK
  <2> QED
    BY <1>8, <2>1, <2>2
       DEF NotifyRoom, IInv, TypeOK, InFlightIsPrefix, ListenerHoldsNothing,
         WaitsForNext, CallsCarryItems, OwesNotices, RoomBound, confVars, bufVars, pushVars, takeVars, closeVars, MaxInFlight
<1>9. CASE CheckTake
  <2>0. UNCHANGED <<confVars, notEmpty, notFull, pushVars, csnap, want, dropped, closeVars>>
        /\ cpc = "check" /\ want \in Nat \ {0} /\ want <= Len(held) + 1 /\ want <= MaxInFlight
    BY <1>9 DEF CheckTake, IInv, TypeOK, WaitsForNext
  <2>1. CASE /\ style = "sink" /\ Len(items) >= want
             /\ Reserve(want)
             /\ cpc' = "idle"
             /\ UNCHANGED <<owed, taken>>
    <3>1. /\ items' = items /\ weight' = weight /\ lock' = lock
          /\ reserved' \in Nat /\ held' \in Seq(Item)
          /\ Len(held') <= MaxInFlight
          /\ InFlightIsPrefix' /\ RoomBound'
      BY <1>0, <2>0, <2>1, ReserveKeeps
    <3> QED
      BY <1>0, <2>0, <2>1, <3>1
         DEF IInv, TypeOK, ListenerHoldsNothing, WaitsForNext, CallsCarryItems,
             OwesNotices, confVars, bufVars, pushVars, takeVars, closeVars, MaxInFlight
  <2>2. ASSUME NEW n \in 1..MaxBatch, style = "listener", n <= Len(items), BufferCommit(n),
               taken' = taken \o SubSeq(items, 1, n), owed' = RoomNotices(n),
               cpc' = IF owed' = 0 THEN "idle" ELSE "notify",
               UNCHANGED <<held, lock>>
        PROVE  IInv'
    <3>1. held = <<>> /\ reserved = 0 /\ n \in 0..Len(items) /\ n \in Nat
      BY <1>0, <2>2 DEF IInv, ListenerHoldsNothing, InFlightIsPrefix
    <3>2. /\ items' \in Seq(Item) /\ Len(items') = Len(items) - n /\ reserved' = 0
          /\ weight' \in 0..WeightCeiling /\ SubSeq(items, 1, n) \in Seq(Item)
      BY <1>0, <2>2, <3>1, BufferCommitType
    <3>3. taken' \in Seq(Item)
      BY <1>0, <2>2, <3>2
    <3>4. RoomBound'
      BY <1>0, <2>2, <3>1, <3>2 DEF IInv, RoomBound
    <3>5. InFlightIsPrefix'
      BY <1>0, <2>2, <3>1, <3>2 DEF InFlightIsPrefix
    <3>6. owed' \in Nat /\ owed' = n /\ cpc' = "notify"
      BY <2>2, <3>1 DEF RoomNotices
    <3> QED
      BY <1>0, <2>0, <2>2, <3>1, <3>2, <3>3, <3>4, <3>5, <3>6
         DEF IInv, TypeOK, ListenerHoldsNothing, WaitsForNext, CallsCarryItems,
             OwesNotices, confVars, bufVars, pushVars, takeVars, closeVars, MaxInFlight
  <2>3. CASE /\ cpc' = IF ~closed THEN "poll" ELSE IF want = 1 THEN "done" ELSE "idle"
             /\ UNCHANGED <<bufVars, held, owed, taken>>
    BY <1>0, <2>0, <2>3
       DEF IInv, TypeOK, InFlightIsPrefix, ListenerHoldsNothing,
         WaitsForNext, CallsCarryItems, OwesNotices, RoomBound, confVars, bufVars, pushVars, takeVars, closeVars, MaxInFlight
  <2> QED
    BY <1>9, <2>1, <2>2, <2>3 DEF CheckTake
<1> QED
  BY <1>1, <1>2, <1>3, <1>4, <1>5, <1>6, <1>7, <1>8, <1>9 DEF TakeStep

\* close keeps the invariant.
LEMMA CloseKeeps ==
  ASSUME IInv, Close \/ CloseStep
  PROVE  IInv'
<1>0. notFull \in NotifyType(Procs) /\ notEmpty \in NotifyType(Procs) /\ Consumer \in Procs
  BY DEF IInv, TypeOK, Procs
<1>1. CASE Close
  BY <1>1 DEF Close, IInv, TypeOK, InFlightIsPrefix, ListenerHoldsNothing,
         WaitsForNext, CallsCarryItems, OwesNotices, RoomBound, confVars, bufVars, pushVars, takeVars, closeVars, MaxInFlight
<1>2. CASE CloseWakeConsumer
  <2>1. notEmpty' \in NotifyType(Procs)
    BY <1>0, <1>2, NotifyOpsType DEF CloseWakeConsumer
  <2> QED
    BY <1>2, <2>1 DEF CloseWakeConsumer, IInv, TypeOK, InFlightIsPrefix, ListenerHoldsNothing,
         WaitsForNext, CallsCarryItems, OwesNotices, RoomBound, confVars, bufVars, pushVars, takeVars, closeVars, MaxInFlight
<1>3. CASE CloseWakeProducers
  <2>1. notFull' \in NotifyType(Procs)
    BY <1>0, <1>3, NotifyOpsType DEF CloseWakeProducers
  <2> QED
    BY <1>3, <2>1 DEF CloseWakeProducers, IInv, TypeOK, InFlightIsPrefix, ListenerHoldsNothing,
         WaitsForNext, CallsCarryItems, OwesNotices, RoomBound, confVars, bufVars, pushVars, takeVars, closeVars, MaxInFlight
<1> QED
  BY <1>1, <1>2, <1>3 DEF CloseStep

-----------------------------------------------------------------------------
(* The theorems. *)

\* The invariant is inductive.
THEOREM Inductive == IInv /\ [Next]_vars => IInv'
<1> SUFFICES ASSUME IInv, [Next]_vars PROVE IInv'
  OBVIOUS
<1>1. CASE \E p \in Producers : Push(p) \/ PushMany(p)
  <2>1. PICK p \in Producers : Push(p) \/ PushMany(p)
    BY <1>1
  <2>2. CASE Push(p)
    <3>1. PICK w \in Weights : CallPush(p, <<w>>)
      BY <2>2 DEF Push
    <3>2. <<w>> \in [1..1 -> Weights]
      OBVIOUS
    <3>3. CallPush(p, <<w>>) /\ 1 \in Nat \ {0}
      BY <3>1
    <3> QED
      BY <3>2, <3>3, CallPushKeeps
  <2>3. CASE PushMany(p)
    <3>1. PICK n \in 1..MaxBatch : \E ws \in [1..n -> Weights] : CallPush(p, ws)
      BY <2>3 DEF PushMany
    <3>2. n \in Nat \ {0}
      BY QueueAssumption
    <3> QED
      BY <3>1, <3>2, CallPushKeeps
  <2> QED
    BY <2>1, <2>2, <2>3
<1>2. CASE \E p \in Producers : PushStep(p) \/ CancelPush(p)
  BY <1>2, PushStepKeeps
<1>3. CASE StartPeek \/ StartWaitAt \/ StartPop \/ PeekAt \/ Commit \/ TakeAll \/ AbandonWait \/ TakeStep
  BY <1>3, ConsumerKeeps
<1>4. CASE Close \/ CloseStep
  BY <1>4, CloseKeeps
<1>5. CASE UNCHANGED vars
  BY <1>5 DEF vars, IInv, TypeOK, InFlightIsPrefix, ListenerHoldsNothing,
         WaitsForNext, CallsCarryItems, OwesNotices, RoomBound, confVars, bufVars, pushVars, takeVars, closeVars, MaxInFlight
<1> QED
  BY <1>1, <1>2, <1>3, <1>4, <1>5 DEF Next

\* Every reachable state of the queue satisfies the inductive invariant.
THEOREM InvariantHolds == Spec => []IInv
BY InitIInv, Inductive, PTL DEF Spec

\* The queue is type-correct: the weight stays within u64 although evictions and
\* commits subtract what saturating additions may never have added.
THEOREM TypeCorrect == Spec => []TypeOK
<1>1. IInv => TypeOK
  BY DEF IInv
<1> QED
  BY <1>1, InvariantHolds, PTL

\* What a write loop has in flight is the reserved prefix of the queue, whatever
\* pushes and evictions happen between peek and commit.
THEOREM InFlightIsSafe == Spec => []InFlightIsPrefix
<1>1. IInv => InFlightIsPrefix
  BY DEF IInv
<1> QED
  BY <1>1, InvariantHolds, PTL

\* The queue never holds more than one item over max_items, and is over it only
\* while every other item is in flight.
THEOREM OneOverAtMost == Spec => []AtMostOneOver
<1>1. IInv => AtMostOneOver
  BY QueueAssumption DEF IInv, TypeOK, InFlightIsPrefix, RoomBound, AtMostOneOver, MaxInFlight
<1> QED
  BY <1>1, InvariantHolds, PTL

-----------------------------------------------------------------------------
(* Where the items are.  ExactlyOnePlace and LeaveInPushOrder need one invariant:  *)
(* an admitted item is fresh because every item a call still carries is numbered   *)
(* after every settled item of its producer, and that stays so because a producer  *)
(* numbers upwards and has one call at a time.                                     *)

\* Items of one producer appear in the order it numbered them.
Ordered(s) == \A i, j \in 1..Len(s) : i < j /\ s[i].from = s[j].from => s[i].num < s[j].num

\* Items that no call carries any more.
Settled == ToSet(Line) \cup Shed \cup returned

Numbered ==
  \A x \in Settled \cup Unadmitted : x.num >= 1 /\ x.num < next[x.from]

CallsBehind ==
  \A p \in Producers :
    /\ Ordered(batch[p])
    /\ \A x \in ToSet(batch[p]) : x.from = p
    /\ \A x \in ToSet(batch[p]), y \in Settled : y.from = p => y.num < x.num

NumberedOnce == \A x, y \in Settled : x.from = y.from /\ x.num = y.num => x = y

Apart ==
  /\ ToSet(Line) \cap Shed = {} /\ ToSet(Line) \cap returned = {} /\ Shed \cap returned = {}
  /\ \A r, q \in Reasons : r # q => dropped[r] \cap dropped[q] = {}

NoneMissing ==
  \A p \in Producers : next[p] >= 1 /\ \A n \in 1..(next[p] - 1) :
    \E x \in Settled \cup Unadmitted : x.from = p /\ x.num = n

BetweenCalls == \A p \in Producers : ppc[p] \in {"idle", "announce"} => batch[p] = <<>>

PlaceInv ==
  /\ Ordered(Line) /\ Numbered /\ CallsBehind /\ NumberedOnce /\ Apart /\ NoneMissing /\ BetweenCalls

\* The types the places have.
Placed ==
  /\ Line \in Seq(Item) /\ ToSet(Line) \subseteq Item /\ Shed \subseteq Item
  /\ returned \in SUBSET Item /\ Unadmitted \subseteq Item /\ Settled \subseteq Item
  /\ batch \in [Producers -> Seq(Item)] /\ dropped \in [Reasons -> SUBSET Item]
  /\ next \in [Producers -> Nat]
  /\ \A x \in Item : x.from \in Producers /\ x.num \in Nat

\* A type-correct queue has its items in those places.
LEMMA PlacedFacts == TypeOK => Placed
<1> SUFFICES ASSUME TypeOK PROVE Placed
  OBVIOUS
<1>1. /\ taken \in Seq(Item) /\ items \in Seq(Item) /\ returned \in SUBSET Item
      /\ batch \in [Producers -> Seq(Item)] /\ dropped \in [Reasons -> SUBSET Item]
      /\ next \in [Producers -> Nat]
  BY DEF TypeOK
<1>2. Line \in Seq(Item)
  BY <1>1, ConcatSet DEF Line
<1>3. ToSet(Line) \subseteq Item
  BY <1>2, ToSetByIndex
<1>4. \A p \in Producers : ToSet(batch[p]) \subseteq Item
  <2> TAKE p \in Producers
  <2>1. batch[p] \in Seq(Item)
    BY <1>1
  <2> QED
    BY <2>1, ToSetByIndex
<1>5. Unadmitted \subseteq Item
  BY <1>4 DEF Unadmitted
<1>6. Shed \subseteq Item
  BY <1>1 DEF Shed
<1>7. \A x \in Item : x.from \in Producers /\ x.num \in Nat
  BY DEF Item
<1> QED
  BY <1>1, <1>2, <1>3, <1>5, <1>6, <1>7 DEF Placed, Settled

\* The same after a step.
LEMMA PlacedFactsNext == TypeOK' => Placed'
BY PlacedFacts, PTL

\* What the calls carry.
LEMMA CarriedFacts ==
  \A x : x \in Unadmitted <=> \E p \in Producers : x \in ToSet(batch[p])
BY DEF Unadmitted

\* A step that moves nothing keeps everything in its place.
LEMMA PlacesFrame ==
  ASSUME PlaceInv, Line' = Line, UNCHANGED <<dropped, returned, batch, next>>, BetweenCalls'
  PROVE  PlaceInv' /\ Everywhere' = Everywhere
<1>1. Shed' = Shed /\ Unadmitted' = Unadmitted /\ ToSet(Line)' = ToSet(Line)
  BY DEF Shed, Unadmitted
<1>2. Settled' = Settled
  BY <1>1 DEF Settled
<1>3. Numbered' /\ NumberedOnce' /\ NoneMissing'
  BY <1>1, <1>2 DEF PlaceInv, Numbered, NumberedOnce, NoneMissing
<1>4. CallsBehind'
  BY <1>2 DEF PlaceInv, CallsBehind
<1>5. Apart'
  BY <1>1 DEF PlaceInv, Apart
<1>6. Ordered(Line)'
  BY DEF PlaceInv, Ordered
<1>7. Everywhere' = Everywhere
  BY <1>1 DEF Everywhere
<1> QED
  BY <1>3, <1>4, <1>5, <1>6, <1>7 DEF PlaceInv

\* A call of p settles the items S at its front: what is left of it is behind them.
Settles(p, S) ==
  /\ Settled' = Settled \cup S /\ ToSet(batch[p]) = S \cup ToSet(batch'[p])
  /\ batch' \in [Producers -> Seq(Item)] /\ \A q \in Producers : q # p => batch'[q] = batch[q]
  /\ Ordered(batch'[p]) /\ \A x \in S, y \in ToSet(batch'[p]) : x.num < y.num
  /\ \A x, y \in S : x.num = y.num => x = y
  /\ next' = next

\* Settling keeps the numbering, the order of the calls and the account.
LEMMA SettlesKeeps ==
  ASSUME PlaceInv, Placed, NEW p \in Producers, NEW S, Settles(p, S)
  PROVE  /\ Numbered' /\ CallsBehind' /\ NumberedOnce' /\ NoneMissing'
         /\ Settled' \cup Unadmitted' = Settled \cup Unadmitted
<1>1. /\ Settled' = Settled \cup S /\ ToSet(batch[p]) = S \cup ToSet(batch'[p])
      /\ \A q \in Producers : q # p => batch'[q] = batch[q]
      /\ \A x, y \in S : x.num = y.num => x = y
      /\ next' = next
  BY DEF Settles
<1>2. \A x : x \in Unadmitted' <=> \E q \in Producers : x \in ToSet(batch'[q])
  BY DEF Unadmitted
<1>3. Settled' \cup Unadmitted' = Settled \cup Unadmitted
  BY <1>1, <1>2, CarriedFacts
<1>4. Numbered' /\ NoneMissing'
  BY <1>1, <1>3 DEF PlaceInv, Numbered, NoneMissing
<1>5. \A x \in S : x \in ToSet(batch[p]) /\ x.from = p /\ \A y \in Settled : y.from = p => y.num < x.num
  BY <1>1 DEF PlaceInv, CallsBehind
<1>6. S \subseteq Item
  <2>1. batch[p] \in Seq(Item)
    BY DEF Placed
  <2>2. ToSet(batch[p]) \subseteq Item
    BY <2>1, ToSetByIndex
  <2> QED
    BY <1>5, <2>2
<1>7. \A y \in Settled \cup S : y.num \in Nat
  BY <1>6 DEF Placed
<1>8. NumberedOnce'
  <2> SUFFICES ASSUME NEW x \in Settled \cup S, NEW y \in Settled \cup S, x.from = y.from, x.num = y.num
               PROVE  x = y
    BY <1>1 DEF NumberedOnce
  <2>1. CASE x \in Settled /\ y \in Settled
    BY <2>1 DEF PlaceInv, NumberedOnce
  <2>2. CASE x \in S /\ y \in S
    BY <1>1, <2>2
  <2>3. CASE x \in S /\ y \in Settled
    <3>1. y.num < x.num
      BY <1>5, <2>3
    <3> QED
      BY <1>7, <3>1
  <2>4. CASE x \in Settled /\ y \in S
    <3>1. x.num < y.num
      BY <1>5, <2>4
    <3> QED
      BY <1>7, <3>1
  <2> QED
    BY <2>1, <2>2, <2>3, <2>4
<1>9. CallsBehind'
  <2> SUFFICES ASSUME NEW q \in Producers
               PROVE  /\ Ordered(batch'[q])
                      /\ \A x \in ToSet(batch'[q]) : x.from = q
                      /\ \A x \in ToSet(batch'[q]), y \in Settled \cup S : y.from = q => y.num < x.num
    BY <1>1 DEF CallsBehind, Ordered
  <2>0. /\ Ordered(batch[q]) /\ (\A x \in ToSet(batch[q]) : x.from = q)
        /\ \A x \in ToSet(batch[q]), y \in Settled : y.from = q => y.num < x.num
    BY DEF PlaceInv, CallsBehind
  <2>1. CASE q = p
    BY <1>1, <2>0, <2>1 DEF Settles
  <2>2. CASE q # p
    BY <1>1, <1>5, <2>0, <2>2
  <2> QED
    BY <2>1, <2>2
<1> QED
  BY <1>3, <1>4, <1>8, <1>9

\* The position an element of a sequence had before the k elements after its first c went.
Before(i, c, k) == IF i <= c THEN i ELSE i + k

\* t is s with the k elements after the first c gone and x at the back.
Admitted(s, t, c, k, x) ==
  /\ Len(t) = Len(s) - k + 1 /\ t[Len(s) - k + 1] = x
  /\ \A i \in 1..(Len(s) - k) : t[i] = s[Before(i, c, k)]

\* What a push does to the queue it does to the whole line of items taken and queued.
LEMMA AdmittedInLine ==
  ASSUME NEW a \in Seq(Item), NEW s \in Seq(Item), NEW t \in Seq(Item), NEW x \in Item,
         NEW c \in Nat, NEW k \in 0..(Len(s) - c), Admitted(s, t, c, k, x),
         NEW L, L = a \o s, NEW M, M = a \o t, NEW d, d = Len(a) + c
  PROVE  /\ L \in Seq(Item) /\ M \in Seq(Item) /\ d \in Nat /\ k \in 0..(Len(L) - d)
         /\ Admitted(L, M, d, k, x)
<1>1. Len(a) \in Nat /\ Len(s) \in Nat /\ k \in Nat /\ c + k <= Len(s) /\ Len(t) = Len(s) - k + 1
  BY DEF Admitted
<1>2. L \in Seq(Item) /\ Len(L) = Len(a) + Len(s) /\ M \in Seq(Item) /\ Len(M) = Len(a) + Len(t)
  BY ConcatProperties
<1>3. /\ \A i \in 1..Len(a) : L[i] = a[i] /\ M[i] = a[i]
      /\ \A i \in 1..Len(s) : L[Len(a) + i] = s[i]
      /\ \A i \in 1..Len(t) : M[Len(a) + i] = t[i]
  OBVIOUS
<1>4. Len(M) = Len(L) - k + 1
  BY <1>1, <1>2
<1>5. M[Len(L) - k + 1] = x
  <2>1. Len(L) - k + 1 = Len(a) + Len(t) /\ Len(t) \in 1..Len(t)
    BY <1>1, <1>2
  <2>2. t[Len(t)] = x
    BY <1>1 DEF Admitted
  <2> QED
    BY <1>3, <2>1, <2>2
<1>6. ASSUME NEW i \in 1..(Len(L) - k) PROVE M[i] = L[Before(i, Len(a) + c, k)]
  <2>1. CASE i <= Len(a)
    <3>1. Before(i, Len(a) + c, k) = i /\ i \in 1..Len(a)
      BY <1>1, <2>1 DEF Before
    <3> QED
      BY <1>3, <3>1
  <2>2. CASE i > Len(a)
    <3> DEFINE j == i - Len(a)
    <3>1. j \in 1..(Len(s) - k) /\ j \in 1..Len(t) /\ Len(a) + j = i
      BY <1>1, <1>2, <2>2, SMTT(30)
    <3>2. M[i] = t[j] /\ t[j] = s[Before(j, c, k)]
      BY <1>3, <3>1 DEF Admitted
    <3>3. Before(j, c, k) \in 1..Len(s) /\ Len(a) + Before(j, c, k) = Before(i, Len(a) + c, k)
      BY <1>1, <3>1, SMTT(30) DEF Before
    <3> QED
      BY <1>3, <3>2, <3>3
  <2>3. i <= Len(a) \/ i > Len(a)
    BY <1>1
  <2> QED
    BY <2>1, <2>2, <2>3
<1>8. k \in 0..(Len(L) - (Len(a) + c))
  BY <1>1, <1>2
<1>9. Admitted(L, M, Len(a) + c, k, x)
  BY <1>4, <1>5, <1>6 DEF Admitted
<1> QED
  BY <1>1, <1>2, <1>8, <1>9

\* An item numbered after the others of its producer keeps the line in order, whatever
\* was evicted, and what was evicted is no longer in it.
LEMMA AdmittedOrdered ==
  ASSUME NEW s \in Seq(Item), NEW t \in Seq(Item), NEW x \in Item,
         NEW c \in Nat, NEW k \in 0..(Len(s) - c), Admitted(s, t, c, k, x),
         Ordered(s), \A y \in ToSet(s) : y.from = x.from => y.num < x.num
  PROVE  /\ Ordered(t)
         /\ ToSet(t) \cup Middle(s, c, k) = ToSet(s) \cup {x}
         /\ ToSet(t) \cap Middle(s, c, k) = {}
<1>1. /\ Len(s) \in Nat /\ k \in Nat /\ c + k <= Len(s) /\ Len(t) = Len(s) - k + 1
      /\ t[Len(s) - k + 1] = x
  BY DEF Admitted
<1>2. \A i \in 1..(Len(s) - k) : Before(i, c, k) \in 1..Len(s) /\ t[i] = s[Before(i, c, k)]
  BY <1>1, SMTT(30) DEF Admitted, Before
<1>3. \A i, j \in 1..(Len(s) - k) : i < j => Before(i, c, k) < Before(j, c, k)
  BY <1>1 DEF Before
<1>4. \A i \in 1..(Len(s) - k), j \in 1..k : Before(i, c, k) # c + j
  BY <1>1 DEF Before
<1>5. \A j \in 1..k : c + j \in 1..Len(s)
  BY <1>1
<1>6. \A i \in 1..Len(t) : i = Len(s) - k + 1 \/ i \in 1..(Len(s) - k)
  BY <1>1
<1>7. \A y : y \in ToSet(s) <=> \E i \in 1..Len(s) : y = s[i]
  BY ToSetByIndex
<1>8. \A y : y \in ToSet(t) <=> \E i \in 1..Len(t) : y = t[i]
  BY ToSetByIndex
<1>9. \A i \in 1..Len(s) : s[i] \in ToSet(s) /\ s[i] \in Item
  BY <1>7
<1>10. \A y \in Item : y.num \in Nat
  BY DEF Item
<1>11. \A i, j \in 1..Len(s) : i # j => s[i] # s[j]
  <2> SUFFICES ASSUME NEW i \in 1..Len(s), NEW j \in 1..Len(s), i < j PROVE s[i] # s[j]
    OBVIOUS
  <2>1. s[i].from = s[j].from => s[i].num < s[j].num
    BY DEF Ordered
  <2> QED
    BY <1>9, <1>10, <2>1
<1>12. \A i \in 1..Len(s) : s[i] # x
  BY <1>9, <1>10
<1>13. Ordered(t)
  <2> SUFFICES ASSUME NEW i \in 1..Len(t), NEW j \in 1..Len(t), i < j, t[i].from = t[j].from
               PROVE  t[i].num < t[j].num
    BY DEF Ordered
  <2>1. i \in 1..(Len(s) - k)
    BY <1>1
  <2>2. CASE j = Len(s) - k + 1
    BY <1>1, <1>2, <1>9, <2>1, <2>2
  <2>3. CASE j \in 1..(Len(s) - k)
    <3>1. /\ t[i] = s[Before(i, c, k)] /\ t[j] = s[Before(j, c, k)] /\ Before(i, c, k) < Before(j, c, k)
          /\ Before(i, c, k) \in 1..Len(s) /\ Before(j, c, k) \in 1..Len(s)
      BY <1>2, <1>3, <2>1, <2>3
    <3> QED
      BY <3>1 DEF Ordered
  <2> QED
    BY <1>6, <2>2, <2>3
<1>14. ASSUME NEW i \in 1..Len(t) PROVE t[i] \in ToSet(s) \cup {x} /\ \A j \in 1..k : t[i] # s[c + j]
  <2>1. CASE i = Len(s) - k + 1
    BY <1>1, <1>5, <1>12, <2>1
  <2>2. CASE i \in 1..(Len(s) - k)
    BY <1>2, <1>4, <1>5, <1>9, <1>11, <2>2
  <2> QED
    BY <1>6, <2>1, <2>2
<1>15. ASSUME NEW i \in 1..Len(s) PROVE s[i] \in ToSet(t) \/ \E j \in 1..k : s[i] = s[c + j]
  <2>1. CASE i <= c
    <3>1. i \in 1..(Len(s) - k) /\ Before(i, c, k) = i /\ i \in 1..Len(t)
      BY <1>1, <2>1 DEF Before
    <3> QED
      BY <1>2, <1>8, <3>1
  <2>2. CASE i > c /\ i <= c + k
    <3>1. i - c \in 1..k /\ c + (i - c) = i
      BY <1>1, <2>2
    <3> QED
      BY <3>1
  <2>3. CASE i > c + k
    <3>1. i - k \in 1..(Len(s) - k) /\ Before(i - k, c, k) = i /\ i - k \in 1..Len(t)
      BY <1>1, <2>3 DEF Before
    <3> QED
      BY <1>2, <1>8, <3>1
  <2> QED
    BY <1>1, <2>1, <2>2, <2>3
<1>16. x \in ToSet(t)
  <2>1. Len(s) - k + 1 \in 1..Len(t)
    BY <1>1
  <2> QED
    BY <1>1, <1>8, <2>1
<1>17. ASSUME NEW j \in 1..k PROVE s[c + j] \in ToSet(s)
  BY <1>5, <1>9
<1>18. ToSet(t) \cup {s[c + i] : i \in 1..k} = ToSet(s) \cup {x}
  <2>1. ToSet(t) \subseteq ToSet(s) \cup {x}
    BY <1>8, <1>14
  <2>3. {s[c + i] : i \in 1..k} \subseteq ToSet(s)
    BY <1>17
  <2>2. ASSUME NEW y \in ToSet(s) PROVE y \in ToSet(t) \cup {s[c + i] : i \in 1..k}
    <3>1. PICK i \in 1..Len(s) : y = s[i]
      BY <1>7
    <3>2. s[i] \in ToSet(t) \/ \E j \in 1..k : s[i] = s[c + j]
      BY <1>15
    <3> QED
      BY <3>1, <3>2
  <2> QED
    BY <1>16, <2>1, <2>2, <2>3
<1>19. ToSet(t) \cap {s[c + i] : i \in 1..k} = {}
  <2> SUFFICES ASSUME NEW y \in ToSet(t), NEW j \in 1..k, y = s[c + j] PROVE FALSE
    OBVIOUS
  <2>1. PICK i \in 1..Len(t) : y = t[i]
    BY <1>8
  <2> QED
    BY <1>14, <2>1
<1> QED
  BY <1>13, <1>18, <1>19 DEF Middle

\* The first n of s went to the back of a: a became b, s became t.
Moved(a, s, b, t, n) ==
  /\ Len(b) = Len(a) + n /\ Len(t) = Len(s) - n
  /\ \A i \in 1..Len(a) : b[i] = a[i]
  /\ \A i \in 1..n : b[Len(a) + i] = s[i]
  /\ \A i \in 1..(Len(s) - n) : t[i] = s[i + n]

\* What leaves the front of the queue joins the back of what was taken.
LEMMA TakeKeepsLine ==
  ASSUME NEW a \in Seq(Item), NEW s \in Seq(Item), NEW b \in Seq(Item), NEW t \in Seq(Item),
         NEW n \in 0..Len(s), Moved(a, s, b, t, n)
  PROVE  b \o t = a \o s
<1>0. /\ Len(b) = Len(a) + n /\ Len(t) = Len(s) - n
      /\ \A i \in 1..Len(a) : b[i] = a[i]
      /\ \A i \in 1..n : b[Len(a) + i] = s[i]
      /\ \A i \in 1..(Len(s) - n) : t[i] = s[i + n]
  BY DEF Moved
<1> DEFINE L == a \o s
           M == b \o t
<1>1. Len(a) \in Nat /\ Len(s) \in Nat /\ n \in Nat /\ n <= Len(s)
  OBVIOUS
<1>2. L \in Seq(Item) /\ Len(L) = Len(a) + Len(s) /\ M \in Seq(Item) /\ Len(M) = Len(b) + Len(t)
  BY ConcatProperties
<1>3. /\ \A i \in 1..Len(a) : L[i] = a[i]
      /\ \A i \in 1..Len(s) : L[Len(a) + i] = s[i]
      /\ \A i \in 1..Len(b) : M[i] = b[i]
      /\ \A i \in 1..Len(t) : M[Len(b) + i] = t[i]
  OBVIOUS
<1> HIDE DEF L, M
<1>4. Len(M) = Len(L)
  BY <1>0, <1>1, <1>2
<1>5. ASSUME NEW i \in 1..Len(M) PROVE M[i] = L[i]
  <2>1. CASE i <= Len(a)
    <3>1. i \in 1..Len(a) /\ i \in 1..Len(b)
      BY <1>0, <1>1, <2>1
    <3> QED
      BY <1>0, <1>3, <3>1
  <2>2. CASE i > Len(a) /\ i <= Len(b)
    <3>1. i \in 1..Len(b) /\ i - Len(a) \in 1..n /\ i - Len(a) \in 1..Len(s) /\ Len(a) + (i - Len(a)) = i
      BY <1>0, <1>1, <2>2
    <3> QED
      BY <1>0, <1>3, <3>1, ZenonT(60)
  <2>3. CASE i > Len(b)
    <3>1. /\ i - Len(b) \in 1..Len(t) /\ i - Len(b) \in 1..(Len(s) - n) /\ Len(b) + (i - Len(b)) = i
          /\ (i - Len(b)) + n = i - Len(a) /\ i - Len(a) \in 1..Len(s) /\ Len(a) + (i - Len(a)) = i
      BY <1>0, <1>1, <1>2, <2>3
    <3>2. M[i] = t[i - Len(b)] /\ t[i - Len(b)] = s[i - Len(a)]
      BY <1>0, <1>3, <3>1
    <3> QED
      BY <1>0, <1>3, <3>1, <3>2
  <2> QED
    BY <1>0, <1>1, <2>1, <2>2, <2>3
<1> QED
  BY <1>2, <1>4, <1>5, SeqEqual DEF L, M

\* The consumer takes n items from the front.
Takes(n) == BufferCommit(n) /\ taken' = taken \o SubSeq(items, 1, n)

\* A consumer that takes n items from the front leaves the line as it is.
LEMMA CommitKeepsLine ==
  ASSUME IInv, NEW n \in 0..Len(items), Takes(n)
  PROVE  Line' = Line
<1>1. items \in Seq(Item) /\ taken \in Seq(Item)
  BY DEF IInv, TypeOK
<1>2. /\ items' \in Seq(Item) /\ Len(items') = Len(items) - n
      /\ \A i \in 1..(Len(items) - n) : items'[i] = items[i + n]
      /\ SubSeq(items, 1, n) \in Seq(Item)
  BY BufferCommitType DEF Takes
<1> DEFINE f == SubSeq(items, 1, n)
<1>3. f \in Seq(Item) /\ Len(f) = n /\ \A i \in 1..n : f[i] = items[i]
  BY <1>1, <1>2
<1> HIDE DEF f
<1>4. taken' = taken \o f
  BY DEF f, Takes
<1>5. /\ taken' \in Seq(Item) /\ Len(taken') = Len(taken) + n
      /\ \A i \in 1..Len(taken) : taken'[i] = taken[i]
      /\ \A i \in 1..n : taken'[Len(taken) + i] = items[i]
  <2>1. taken' \in Seq(Item) /\ Len(taken') = Len(taken) + n
    BY <1>1, <1>3, <1>4, ConcatProperties
  <2>2. \A i \in 1..Len(taken) : taken'[i] = taken[i]
    BY <1>1, <1>3, <1>4
  <2>3. \A i \in 1..n : taken'[Len(taken) + i] = f[i]
    BY <1>1, <1>3, <1>4
  <2> QED
    BY <1>3, <2>1, <2>2, <2>3
<1>6. taken' \o items' = taken \o items
  <2>1. Len(taken') = Len(taken) + n /\ taken' \in Seq(Item)
    BY <1>5
  <2>2. \A i \in 1..Len(taken) : taken'[i] = taken[i]
    BY <1>5
  <2>3. \A i \in 1..n : taken'[Len(taken) + i] = items[i]
    BY <1>5
  <2>4. items' \in Seq(Item) /\ Len(items') = Len(items) - n
    BY <1>2
  <2>5. \A i \in 1..(Len(items) - n) : items'[i] = items[i + n]
    BY <1>2
  <2>6. Moved(taken, items, taken', items', n)
    BY <2>1, <2>2, <2>3, <2>4, <2>5 DEF Moved
  <2> QED
    BY <1>1, <2>1, <2>4, <2>6, TakeKeepsLine, SMTT(30)
<1> QED
  BY <1>6 DEF Line

\* A call brings the next numbers.
LEMMA CallKeepsPlaces ==
  ASSUME IInv, IInv', PlaceInv, NEW p \in Producers, NEW n \in Nat \ {0}, NEW ws \in [1..n -> Weights],
         CallPush(p, ws)
  PROVE  PlaceInv' /\ Everywhere \subseteq Everywhere'
<1>1. Placed /\ Placed'
  BY PlacedFacts, PlacedFactsNext DEF IInv
<1>2. Len(ws) = n
  OBVIOUS
<1> DEFINE new == NewItems(p, ws)
<1>3. /\ ppc[p] = "idle" /\ batch' = [batch EXCEPT ![p] = new] /\ next' = [next EXCEPT ![p] = next[p] + n]
      /\ ppc' = [ppc EXCEPT ![p] = "admit"] /\ UNCHANGED <<items, taken, returned, dropped>>
  BY <1>2 DEF CallPush, takeVars, bufVars
<1>4. /\ next[p] \in Nat /\ next[p] >= 1 /\ batch[p] = <<>>
  BY <1>1, <1>3 DEF Placed, PlaceInv, NoneMissing, BetweenCalls
<1>5. /\ new \in Seq(Item) /\ Len(new) = n
      /\ \A i \in 1..n : new[i].from = p /\ new[i].num = next[p] + i - 1
  <2>1. \A i \in 1..n : [from |-> p, num |-> next[p] + i - 1, w |-> ws[i]] \in Item
    BY <1>4, QueueAssumption DEF Item
  <2>2. new = [i \in 1..n |-> [from |-> p, num |-> next[p] + i - 1, w |-> ws[i]]]
    BY <1>2 DEF NewItems
  <2>3. new \in Seq(Item) /\ Len(new) = n
    BY <2>1, <2>2
  <2> QED
    BY <2>2, <2>3
<1> HIDE DEF new
<1>6. Line' = Line /\ Shed' = Shed /\ Settled' = Settled
  BY <1>3 DEF Line, Shed, Settled
<1>7. \A y : y \in ToSet(new) <=> \E i \in 1..n : y = new[i]
  BY <1>5, ToSetByIndex
<1>8. batch'[p] = new /\ \A q \in Producers : q # p => batch'[q] = batch[q]
  BY <1>1, <1>3 DEF Placed
<1>9. Unadmitted' = Unadmitted \cup ToSet(new)
  <2>1. \A x : x \in Unadmitted' <=> \E q \in Producers : x \in ToSet(batch'[q])
    BY DEF Unadmitted
  <2>2. ToSet(batch[p]) = {}
    BY <1>4 DEF ToSet
  <2> QED
    BY <1>8, <2>1, <2>2, CarriedFacts
<1>10. /\ next'[p] = next[p] + n /\ \A q \in Producers : q # p => next'[q] = next[q]
  BY <1>1, <1>3 DEF Placed
<1>11. \A x \in Settled \cup Unadmitted : /\ x.from \in Producers /\ x.num \in Nat /\ next[x.from] \in Nat
                                          /\ next[x.from] <= next'[x.from] /\ next'[x.from] \in Nat
  <2>1. \A x \in Settled \cup Unadmitted : x.from \in Producers /\ x.num \in Nat
    BY <1>1 DEF Placed
  <2>2. \A q \in Producers : next[q] \in Nat
    BY <1>1 DEF Placed
  <2>3. ASSUME NEW q \in Producers PROVE next[q] <= next'[q] /\ next'[q] \in Nat
    <3>1. CASE q = p
      BY <1>4, <1>10, <3>1
    <3>2. CASE q # p
      BY <1>10, <2>2, <3>2
    <3> QED
      BY <3>1, <3>2
  <2> QED
    BY <2>1, <2>2, <2>3
<1>12. \A x \in ToSet(new) : x.from = p /\ x.num >= next[p] /\ x.num < next[p] + n /\ x.num \in Nat
  BY <1>4, <1>5, <1>7
<1>13. Numbered'
  <2>1. \A x \in Settled \cup Unadmitted : x.num >= 1 /\ x.num < next'[x.from]
    BY <1>11 DEF PlaceInv, Numbered
  <2>2. \A x \in ToSet(new) : x.num >= 1 /\ x.num < next'[x.from]
    BY <1>4, <1>10, <1>12
  <2> QED
    BY <1>6, <1>9, <2>1, <2>2 DEF Numbered
<1>14. CallsBehind'
  <2> SUFFICES ASSUME NEW q \in Producers
               PROVE  /\ Ordered(batch'[q])
                      /\ \A x \in ToSet(batch'[q]) : x.from = q
                      /\ \A x \in ToSet(batch'[q]), y \in Settled : y.from = q => y.num < x.num
    BY <1>6 DEF CallsBehind, Ordered
  <2>1. CASE q # p
    BY <1>8, <2>1 DEF PlaceInv, CallsBehind
  <2>2. CASE q = p
    <3>1. Ordered(new)
      BY <1>4, <1>5 DEF Ordered
    <3>2. \A y \in Settled : y.from = p => y.num < next[p] /\ y.num \in Nat
      BY <1>11 DEF PlaceInv, Numbered
    <3>3. \A x \in ToSet(new), y \in Settled : y.from = p => y.num < x.num
      BY <1>4, <1>12, <3>2
    <3> QED
      BY <1>8, <1>12, <2>2, <3>1, <3>3
  <2> QED
    BY <2>1, <2>2
<1>15. NumberedOnce' /\ Apart' /\ Ordered(Line)'
  BY <1>3, <1>6 DEF PlaceInv, NumberedOnce, Apart, Ordered
<1>16. NoneMissing'
  <2> SUFFICES ASSUME NEW q \in Producers
               PROVE  /\ next'[q] >= 1
                      /\ \A m \in 1..(next'[q] - 1) :
                           \E x \in Settled \cup Unadmitted \cup ToSet(new) : x.from = q /\ x.num = m
    BY <1>6, <1>9 DEF NoneMissing
  <2>1. /\ next[q] >= 1
        /\ \A m \in 1..(next[q] - 1) : \E x \in Settled \cup Unadmitted : x.from = q /\ x.num = m
    BY DEF PlaceInv, NoneMissing
  <2>2. CASE q # p
    BY <1>10, <2>1, <2>2
  <2>3. CASE q = p
    <3>1. ASSUME NEW m \in 1..(next'[q] - 1), m >= next[p]
          PROVE  \E x \in ToSet(new) : x.from = q /\ x.num = m
      <4>1. m - next[p] + 1 \in 1..n /\ next[p] + (m - next[p] + 1) - 1 = m
        BY <1>4, <1>10, <2>3, <3>1
      <4> QED
        BY <1>5, <1>7, <2>3, <4>1
    <3>2. \A m \in 1..(next'[q] - 1) : m >= next[p] \/ m \in 1..(next[q] - 1)
      BY <1>4, <1>10, <2>3
    <3>3. next'[q] >= 1
      BY <1>4, <1>10, <2>3
    <3> QED
      BY <2>1, <3>1, <3>2, <3>3
  <2> QED
    BY <2>2, <2>3
<1>17. BetweenCalls'
  BY <1>3, <1>8 DEF PlaceInv, BetweenCalls, IInv, TypeOK
<1>18. Everywhere \subseteq Everywhere'
  BY <1>3, <1>6, <1>9 DEF Everywhere
<1> QED
  BY <1>13, <1>14, <1>15, <1>16, <1>17, <1>18 DEF PlaceInv

\* The items S enter the line or are shed, lost of the line and of S under reason r.
Shifts(S, r, lost) ==
  /\ Ordered(Line)' /\ dropped' = [dropped EXCEPT ![r] = dropped[r] \cup lost]
  /\ ToSet(Line)' \cup lost = ToSet(Line) \cup S /\ ToSet(Line)' \cap lost = {}
  /\ returned' = returned

\* Nothing lands in a second place when S was settled nowhere.
LEMMA ShiftKeepsApart ==
  ASSUME PlaceInv, Placed, NEW S, S \cap Settled = {}, NEW r \in Reasons, NEW lost, Shifts(S, r, lost)
  PROVE  Apart' /\ Settled' = Settled \cup S
<1>1. /\ dropped' = [dropped EXCEPT ![r] = dropped[r] \cup lost] /\ returned' = returned
      /\ ToSet(Line)' \cup lost = ToSet(Line) \cup S /\ ToSet(Line)' \cap lost = {}
  BY DEF Shifts
<1>2. /\ \A q \in Reasons : q # r => dropped'[q] = dropped[q]
      /\ dropped'[r] = dropped[r] \cup lost
  BY <1>1 DEF Placed
<1>3. \A y : y \in Shed <=> \E q \in Reasons : y \in dropped[q]
  BY DEF Shed
<1>4. \A y : y \in Shed' <=> \E q \in Reasons : y \in dropped'[q]
  BY DEF Shed
<1>5. Shed' = Shed \cup lost
  BY <1>2, <1>3, <1>4
<1>6. Settled = ToSet(Line) \cup Shed \cup returned /\ Settled' = ToSet(Line)' \cup Shed' \cup returned'
  BY DEF Settled
<1>7. Settled' = Settled \cup S
  BY <1>1, <1>5, <1>6
<1>8. /\ ToSet(Line) \cap Shed = {} /\ ToSet(Line) \cap returned = {} /\ Shed \cap returned = {}
      /\ \A a, q \in Reasons : a # q => dropped[a] \cap dropped[q] = {}
  BY DEF PlaceInv, Apart
<1>9. ToSet(Line)' \cap Shed' = {} /\ ToSet(Line)' \cap returned' = {} /\ Shed' \cap returned' = {}
  BY <1>1, <1>5, <1>6, <1>8
<1>10. \A q \in Reasons : lost \cap dropped[q] = {}
  BY <1>1, <1>3, <1>6, <1>8
<1>11. \A a, q \in Reasons : a # q => dropped'[a] \cap dropped'[q] = {}
  BY <1>2, <1>8, <1>10
<1> QED
  BY <1>7, <1>9, <1>11 DEF Apart

\* x is numbered after every item of its producer that was ever admitted.
Follows(x) == \A y \in ToSet(Line) : y.from = x.from => y.num < x.num

\* Admitting at the back, whatever the policy sheds for it.
LEMMA PushShifts ==
  ASSUME IInv, Ordered(Line), NEW x \in Item, Follows(x), BufferPush(x), UNCHANGED <<reserved, held, taken, returned>>
  PROVE  \E r \in Reasons, lost \in SUBSET Item : Shifts({x}, r, lost)
<1>1. /\ items \in Seq(Item) /\ taken \in Seq(Item) /\ reserved \in Nat /\ reserved <= Len(items)
      /\ dropped \in [Reasons -> SUBSET Item]
  BY DEF IInv, TypeOK, InFlightIsPrefix
<1>2. items' \in Seq(Item)
  BY BufferPushKeeps
<1>3. \A y \in ToSet(Line) : y.from = x.from => y.num < x.num
  BY DEF Follows
<1>4. "overflow_oldest" \in Reasons /\ "overflow_newest" \in Reasons
  BY DEF Reasons
<1>5. ASSUME NEW k \in 0..(Len(items) - reserved), Admitted(items, items', reserved, k, x)
      PROVE  /\ Ordered(Line)'
             /\ ToSet(Line)' \cup Middle(items, reserved, k) = ToSet(Line) \cup {x}
             /\ ToSet(Line)' \cap Middle(items, reserved, k) = {}
  <2> DEFINE c == Len(taken) + reserved
             L == taken \o items
             M == taken \o items'
  <2>0. c = Len(taken) + reserved /\ L = taken \o items /\ M = taken \o items'
    OBVIOUS
  <2>3. L = Line /\ M = Line'
    BY DEF Line
  <2> HIDE DEF c, L, M
  <2>1. /\ L \in Seq(Item) /\ M \in Seq(Item) /\ c \in Nat /\ k \in 0..(Len(L) - c)
        /\ Admitted(L, M, c, k, x) /\ \A i \in 1..k : items[reserved + i] = L[c + i]
    <3>1. Admitted(items, items', reserved, k, x)
      BY <1>5
    <3>2. items \in Seq(Item) /\ taken \in Seq(Item) /\ reserved \in Nat /\ items' \in Seq(Item)
      BY <1>1, <1>2
    <3>3. L \in Seq(Item) /\ M \in Seq(Item) /\ c \in Nat /\ k \in 0..(Len(L) - c)
      BY <2>0, <3>1, <3>2, AdmittedInLine
    <3>4. Admitted(L, M, c, k, x)
      BY <2>0, <3>1, <3>2, AdmittedInLine
    <3>5. ASSUME NEW i \in 1..k PROVE items[reserved + i] = L[c + i]
      <4>1. \A j \in 1..Len(items) : L[Len(taken) + j] = items[j]
        BY <2>0, <3>2
      <4>2. reserved + i \in 1..Len(items) /\ Len(taken) + (reserved + i) = c + i
        BY <1>1, <2>0, <3>2
      <4> QED
        BY <4>1, <4>2
    <3> QED
      BY <3>3, <3>4, <3>5
  <2>2. Middle(items, reserved, k) = Middle(L, c, k)
    BY <2>1 DEF Middle
  <2>4. Ordered(L) /\ \A y \in ToSet(L) : y.from = x.from => y.num < x.num
    BY <1>3, <2>3
  <2>5. /\ Ordered(M) /\ ToSet(M) \cup Middle(L, c, k) = ToSet(L) \cup {x}
        /\ ToSet(M) \cap Middle(L, c, k) = {}
    <3>1. L \in Seq(Item) /\ M \in Seq(Item) /\ k \in 0..(Len(L) - c) /\ Admitted(L, M, c, k, x)
      BY <2>1
    <3> QED
      BY <2>1, <2>4, <3>1, AdmittedOrdered
  <2>6. Ordered(Line)' /\ ToSet(Line)' = ToSet(M)
    BY <2>3, <2>5 DEF Ordered
  <2> QED
    BY <2>2, <2>3, <2>5, <2>6
<1>6. CASE /\ items' = Append(items, x)
           /\ UNCHANGED dropped
  <2>1. 0 \in 0..(Len(items) - reserved)
    BY <1>1
  <2>2. Admitted(items, items', reserved, 0, x)
    <3>1. /\ Len(items') = Len(items) + 1 /\ items'[Len(items) + 1] = x
          /\ \A i \in 1..Len(items) : items'[i] = items[i]
      BY <1>1, <1>6
    <3>2. Len(items) \in Nat /\ Len(items) - 0 = Len(items) /\ \A i \in 1..Len(items) : Before(i, reserved, 0) = i
      BY <1>1 DEF Before
    <3> QED
      BY <3>1, <3>2 DEF Admitted
  <2>3. Middle(items, reserved, 0) = {}
    BY DEF Middle
  <2>4. Ordered(Line)' /\ ToSet(Line)' = ToSet(Line) \cup {x}
    BY <1>5, <2>1, <2>2, <2>3
  <2>5. dropped' = [dropped EXCEPT !["overflow_oldest"] = dropped["overflow_oldest"] \cup {}]
    BY <1>1, <1>6
  <2>6. Shifts({x}, "overflow_oldest", {})
    BY <2>4, <2>5 DEF Shifts
  <2> QED
    BY <1>4, <2>6
<1>7. ASSUME NEW k \in 0..(Len(items) - Protected),
             items' = Append(Without(items, Protected, k), x),
             dropped' = [dropped EXCEPT !["overflow_oldest"] =
                           @ \cup {items[Protected + i] : i \in 1..k}]
      PROVE  \E r \in Reasons, lost \in SUBSET Item : Shifts({x}, r, lost)
  <2> DEFINE lost == Middle(items, reserved, k)
             rest == Without(items, reserved, k)
  <2>1. /\ k \in 0..(Len(items) - reserved) /\ items' = Append(rest, x)
        /\ dropped' = [dropped EXCEPT !["overflow_oldest"] = dropped["overflow_oldest"] \cup lost]
    BY <1>7 DEF Protected, Middle
  <2>2. rest \in Seq(Item) /\ Len(rest) = Len(items) - k
    BY <1>1, <2>1, WithoutType
  <2>3. ASSUME NEW i \in 1..(Len(items) - k) PROVE rest[i] = items[Before(i, reserved, k)]
    BY DEF Without, Before
  <2> HIDE DEF rest
  <2>4. Admitted(items, items', reserved, k, x)
    <3>1. /\ Len(items') = Len(rest) + 1 /\ items'[Len(rest) + 1] = x
          /\ \A i \in 1..Len(rest) : items'[i] = rest[i]
      BY <2>1, <2>2
    <3>2. Len(items') = Len(items) - k + 1 /\ items'[Len(items) - k + 1] = x
      BY <2>2, <3>1
    <3>3. \A i \in 1..(Len(items) - k) : items'[i] = items[Before(i, reserved, k)]
      BY <2>2, <2>3, <3>1
    <3> QED
      BY <3>2, <3>3 DEF Admitted
  <2>5. /\ Ordered(Line)' /\ ToSet(Line)' \cup lost = ToSet(Line) \cup {x} /\ ToSet(Line)' \cap lost = {}
    BY <1>5, <2>1, <2>4
  <2>6. lost \in SUBSET Item
    BY <1>1, <2>1 DEF Middle
  <2> HIDE DEF lost
  <2>7. Shifts({x}, "overflow_oldest", lost)
    BY <2>1, <2>5 DEF Shifts
  <2> QED
    BY <1>4, <2>6, <2>7
<1>8. CASE /\ dropped' = [dropped EXCEPT !["overflow_newest"] = @ \cup {x}]
           /\ UNCHANGED <<items, weight>>
  <2>1. Line' = Line
    BY <1>8 DEF Line
  <2>2. Line \in Seq(Item)
    BY <1>1, ConcatSet DEF Line
  <2>3. x \notin ToSet(Line)
    BY <1>3 DEF Item
  <2>4. Ordered(Line)' /\ ToSet(Line)' = ToSet(Line)
    BY <2>1 DEF Ordered
  <2>5. dropped' = [dropped EXCEPT !["overflow_newest"] = dropped["overflow_newest"] \cup {x}]
    BY <1>8
  <2>6. Shifts({x}, "overflow_newest", {x})
    BY <2>3, <2>4, <2>5 DEF Shifts
  <2> QED
    BY <1>4, <2>6
<1> QED
  BY <1>6, <1>7, <1>8 DEF BufferPush

\* A call's items are numbered upwards, so its head comes before its tail.
LEMMA CallInOrder ==
  ASSUME NEW p, NEW s \in Seq(Item), Ordered(s), \A y \in ToSet(s) : y.from = p
  PROVE  /\ \A x, y \in ToSet(s) : x.num = y.num => x = y
         /\ s # <<>> => Ordered(Tail(s)) /\ \A y \in ToSet(Tail(s)) : Head(s).num < y.num
<1>1. \A i \in 1..Len(s) : s[i] \in Item /\ s[i] \in ToSet(s) /\ s[i].num \in Nat /\ s[i].from = p
  <2>1. \A i \in 1..Len(s) : s[i] \in Item /\ s[i] \in ToSet(s)
    BY ToSetByIndex
  <2> QED
    BY <2>1 DEF Item
<1>2. \A i, j \in 1..Len(s) : i < j => s[i].num < s[j].num
  BY <1>1 DEF Ordered
<1>3. ASSUME NEW x \in ToSet(s), NEW y \in ToSet(s), x.num = y.num PROVE x = y
  <2>1. PICK i \in 1..Len(s) : x = s[i]
    BY ToSetByIndex
  <2>2. PICK j \in 1..Len(s) : y = s[j]
    BY ToSetByIndex
  <2>3. ~(i < j) /\ ~(j < i)
    BY <1>1, <1>2, <1>3, <2>1, <2>2
  <2> QED
    BY <2>1, <2>2, <2>3
<1>4. ASSUME s # <<>> PROVE Ordered(Tail(s)) /\ \A y \in ToSet(Tail(s)) : Head(s).num < y.num
  <2> DEFINE t == Tail(s)
  <2>1. /\ Head(s) = s[1] /\ t \in Seq(Item) /\ Len(t) = Len(s) - 1
        /\ \A i \in 1..(Len(s) - 1) : t[i] = s[i + 1]
    BY <1>4, TailFacts
  <2>2. Len(s) \in Nat /\ Len(s) > 0
    BY <1>4
  <2> HIDE DEF t
  <2>3. \A i \in 1..Len(t) : i + 1 \in 1..Len(s) /\ t[i] = s[i + 1] /\ 1 < i + 1
    BY <2>1, <2>2
  <2>4. \A y : y \in ToSet(t) <=> \E i \in 1..Len(t) : y = t[i]
    BY <2>1, ToSetByIndex
  <2>5. Ordered(t)
    <3> SUFFICES ASSUME NEW i \in 1..Len(t), NEW j \in 1..Len(t), i < j PROVE t[i].num < t[j].num
      BY DEF Ordered
    <3>1. i + 1 \in 1..Len(s) /\ j + 1 \in 1..Len(s) /\ i + 1 < j + 1 /\ t[i] = s[i + 1] /\ t[j] = s[j + 1]
      BY <2>3
    <3> QED
      BY <1>2, <3>1
  <2>6. ASSUME NEW y \in ToSet(t) PROVE Head(s).num < y.num
    <3>1. PICK i \in 1..Len(t) : y = t[i]
      BY <2>4
    <3>2. 1 \in 1..Len(s) /\ i + 1 \in 1..Len(s) /\ 1 < i + 1 /\ y = s[i + 1]
      BY <2>2, <2>3, <3>1
    <3> QED
      BY <1>2, <2>1, <3>2
  <2> QED
    BY <2>5, <2>6 DEF t
<1> QED
  BY <1>3, <1>4

\* Everything is somewhere: settled or carried.
LEMMA EverywhereSplit == Everywhere = Settled \cup Unadmitted
BY DEF Everywhere, Settled

\* What a call carries was settled nowhere.
LEMMA CarriedIsFresh ==
  ASSUME PlaceInv, Placed, NEW p \in Producers
  PROVE  /\ ToSet(batch[p]) \cap Settled = {} /\ ToSet(batch[p]) \subseteq Item
         /\ \A x \in ToSet(batch[p]) : Follows(x)
<1>1. batch[p] \in Seq(Item)
  BY DEF Placed
<1>2. ToSet(batch[p]) \subseteq Item
  BY <1>1, ToSetByIndex
<1>3. /\ \A x \in ToSet(batch[p]) : x.from = p
      /\ \A x \in ToSet(batch[p]), y \in Settled : y.from = p => y.num < x.num
  BY DEF PlaceInv, CallsBehind
<1>4. ToSet(batch[p]) \cap Settled = {}
  BY <1>2, <1>3 DEF Item
<1>5. ToSet(Line) \subseteq Settled
  BY DEF Settled
<1>6. \A x \in ToSet(batch[p]) : Follows(x)
  BY <1>3, <1>5 DEF Follows
<1> QED
  BY <1>2, <1>4, <1>6

\* Admission moves the head of the call into the line, or sheds it, or leaves it to wait.
LEMMA AdmitKeepsPlaces ==
  ASSUME IInv, IInv', PlaceInv, NEW p \in Producers, Admit(p)
  PROVE  PlaceInv' /\ Everywhere \subseteq Everywhere'
<1> DEFINE x == Head(batch[p])
           t == Tail(batch[p])
<1>0. Placed /\ Placed'
  BY PlacedFacts, PlacedFactsNext DEF IInv
<1>1. /\ ppc[p] = "admit" /\ UNCHANGED <<reserved, held, taken, returned, next>>
      /\ \/ /\ ppc' = [ppc EXCEPT ![p] = BeforeWait]
            /\ UNCHANGED <<items, weight, batch, dropped>>
         \/ /\ BufferPush(x)
            /\ batch' = [batch EXCEPT ![p] = t]
            /\ IF t = <<>> THEN ppc' = [ppc EXCEPT ![p] = "announce"] ELSE UNCHANGED ppc
  BY DEF Admit, takeVars
<1>2. /\ ppc \in [Producers -> {"idle", "admit", "announce", "prewait", "poll", "parked"}]
      /\ batch \in [Producers -> Seq(Item)] /\ batch[p] # <<>>
  BY <1>1 DEF IInv, TypeOK, CallsCarryItems
<1>3. \A q \in Producers : ppc[q] \in {"idle", "announce"} => batch[q] = <<>>
  BY DEF PlaceInv, BetweenCalls
<1>4. CASE /\ ppc' = [ppc EXCEPT ![p] = BeforeWait]
           /\ UNCHANGED <<items, weight, batch, dropped>>
  <2>1. BetweenCalls'
    BY <1>1, <1>2, <1>3, <1>4 DEF BetweenCalls, BeforeWait
  <2>2. Line' = Line /\ UNCHANGED <<dropped, returned, batch, next>>
    BY <1>1, <1>4 DEF Line
  <2>3. PlaceInv' /\ Everywhere' = Everywhere
    BY <2>1, <2>2, PlacesFrame
  <2> QED
    BY <2>3
<1>5. CASE /\ BufferPush(x)
           /\ batch' = [batch EXCEPT ![p] = t]
           /\ IF t = <<>> THEN ppc' = [ppc EXCEPT ![p] = "announce"] ELSE UNCHANGED ppc
  <2>1. batch[p] \in Seq(Item)
    BY <1>2
  <2>2. x \in Item /\ t \in Seq(Item) /\ ToSet(batch[p]) = {x} \cup ToSet(t)
    BY <1>2, <2>1, TailFacts
  <2>3. Ordered(batch[p]) /\ \A y \in ToSet(batch[p]) : y.from = p
    BY DEF PlaceInv, CallsBehind
  <2>4. Ordered(t) /\ \A y \in ToSet(t) : x.num < y.num
    BY <1>2, <2>1, <2>3, CallInOrder
  <2> HIDE DEF x, t
  <2>5. x \in ToSet(batch[p]) /\ x \notin Settled /\ Follows(x)
    BY <1>0, <2>2, CarriedIsFresh
  <2>6. Ordered(Line)
    BY DEF PlaceInv
  <2>7. PICK r \in Reasons, lost \in SUBSET Item : Shifts({x}, r, lost)
    BY <1>1, <1>5, <2>2, <2>5, <2>6, PushShifts
  <2>8. {x} \cap Settled = {}
    BY <2>5
  <2>9. Apart' /\ Settled' = Settled \cup {x}
    BY <1>0, <2>7, <2>8, ShiftKeepsApart
  <2>10. batch'[p] = t /\ \A q \in Producers : q # p => batch'[q] = batch[q]
    BY <1>2, <1>5
  <2>11. batch' \in [Producers -> Seq(Item)]
    BY <1>0 DEF Placed
  <2>12. Settles(p, {x})
    BY <1>1, <2>2, <2>4, <2>9, <2>10, <2>11 DEF Settles
  <2>13. /\ Numbered' /\ CallsBehind' /\ NumberedOnce' /\ NoneMissing'
         /\ Settled' \cup Unadmitted' = Settled \cup Unadmitted
    BY <1>0, <2>12, SettlesKeeps
  <2>14. BetweenCalls'
    <3>1. CASE t = <<>>
      BY <1>2, <1>3, <1>5, <2>10, <3>1 DEF BetweenCalls
    <3>2. CASE t # <<>>
      BY <1>1, <1>2, <1>3, <1>5, <2>10, <3>2 DEF BetweenCalls
    <3> QED
      BY <3>1, <3>2
  <2>15. Ordered(Line)'
    BY <2>7 DEF Shifts
  <2>16. Everywhere' = Settled' \cup Unadmitted'
    BY DEF Everywhere, Settled
  <2>17. Everywhere \subseteq Everywhere'
    BY <2>13, <2>16, EverywhereSplit
  <2> QED
    BY <2>9, <2>13, <2>14, <2>15, <2>17 DEF PlaceInv
<1> QED
  BY <1>1, <1>4, <1>5

\* A cancelled call settles all it still carried: counted by the drain, or handed back.
LEMMA CancelKeepsPlaces ==
  ASSUME IInv, IInv', PlaceInv, NEW p \in Producers, CancelPush(p)
  PROVE  PlaceInv' /\ Everywhere \subseteq Everywhere'
<1> DEFINE S == ToSet(batch[p])
<1>0. Placed /\ Placed'
  BY PlacedFacts, PlacedFactsNext DEF IInv
<1>1. /\ UNCHANGED <<items, taken, next>> /\ batch' = [batch EXCEPT ![p] = <<>>]
      /\ ppc' = [ppc EXCEPT ![p] = "idle"]
      /\ \/ /\ dropped' = [dropped EXCEPT !["shutdown"] = dropped["shutdown"] \cup S]
            /\ returned' = returned
         \/ dropped' = dropped /\ returned' = returned \cup S
  BY DEF CancelPush, Unreached, bufVars, takeVars
<1>2. /\ ppc \in [Producers -> {"idle", "admit", "announce", "prewait", "poll", "parked"}]
      /\ batch \in [Producers -> Seq(Item)] /\ batch[p] \in Seq(Item)
  BY DEF IInv, TypeOK
<1>3. Ordered(batch[p]) /\ \A y \in S : y.from = p
  BY DEF PlaceInv, CallsBehind
<1>4. \A y, z \in S : y.num = z.num => y = z
  BY <1>2, <1>3, CallInOrder
<1>5. S \cap Settled = {} /\ S \subseteq Item
  BY <1>0, CarriedIsFresh
<1>6. Line' = Line /\ Ordered(Line)' /\ ToSet(Line)' = ToSet(Line)
  BY <1>1 DEF Line, PlaceInv, Ordered
<1>7. batch'[p] = <<>> /\ \A q \in Producers : q # p => batch'[q] = batch[q]
  BY <1>1, <1>2
<1>8. BetweenCalls'
  BY <1>1, <1>2, <1>7 DEF PlaceInv, BetweenCalls
<1>9. ToSet(<<>>) = {}
  BY DEF ToSet
<1> HIDE DEF S
<1>10. Apart' /\ Settled' = Settled \cup S
  <2>1. CASE /\ dropped' = [dropped EXCEPT !["shutdown"] = dropped["shutdown"] \cup S]
             /\ returned' = returned
    <3>1. "shutdown" \in Reasons /\ ToSet(Line) \cap S = {}
      BY <1>5 DEF Reasons, Settled
    <3>2. Shifts(S, "shutdown", S)
      BY <1>6, <2>1, <3>1 DEF Shifts
    <3> QED
      BY <1>0, <1>5, <3>1, <3>2, ShiftKeepsApart
  <2>2. CASE dropped' = dropped /\ returned' = returned \cup S
    <3>1. Shed' = Shed
      BY <2>2 DEF Shed
    <3>2. Settled' = Settled \cup S
      BY <1>6, <2>2, <3>1 DEF Settled
    <3>3. Settled = ToSet(Line) \cup Shed \cup returned
      BY DEF Settled
    <3>4. /\ ToSet(Line) \cap Shed = {} /\ ToSet(Line) \cap returned = {} /\ Shed \cap returned = {}
          /\ \A a, q \in Reasons : a # q => dropped[a] \cap dropped[q] = {}
      BY DEF PlaceInv, Apart
    <3>5. ToSet(Line)' \cap Shed' = {} /\ ToSet(Line)' \cap returned' = {} /\ Shed' \cap returned' = {}
      BY <1>5, <1>6, <2>2, <3>1, <3>3, <3>4
    <3> QED
      BY <2>2, <3>2, <3>4, <3>5 DEF Apart
  <2> QED
    BY <1>1, <2>1, <2>2
<1>11. batch' \in [Producers -> Seq(Item)]
  BY <1>0 DEF Placed
<1>12. Ordered(batch'[p])
  BY <1>7 DEF Ordered
<1>13. Settles(p, S)
  BY <1>1, <1>4, <1>7, <1>9, <1>10, <1>11, <1>12 DEF Settles, S
<1>14. /\ Numbered' /\ CallsBehind' /\ NumberedOnce' /\ NoneMissing'
       /\ Settled' \cup Unadmitted' = Settled \cup Unadmitted
  BY <1>0, <1>13, SettlesKeeps
<1>15. Everywhere' = Settled' \cup Unadmitted'
  BY DEF Everywhere, Settled
<1>16. Everywhere \subseteq Everywhere'
  BY <1>14, <1>15, EverywhereSplit
<1> QED
  BY <1>6, <1>8, <1>10, <1>14, <1>16 DEF PlaceInv

\* A consumer's step keeps everything in its place: what it takes stays in the line.
LEMMA TakeKeepsPlaces ==
  ASSUME IInv, PlaceInv, StartPeek \/ StartWaitAt \/ StartPop \/ PeekAt \/ Commit \/ TakeAll \/ AbandonWait \/ TakeStep
  PROVE  PlaceInv' /\ Everywhere' = Everywhere
<1>0. items \in Seq(Item) /\ taken \in Seq(Item) /\ held \in Seq(Item) /\ Len(held) <= Len(items)
  BY DEF IInv, TypeOK, InFlightIsPrefix
<1>1. UNCHANGED <<ppc, batch, next, returned, dropped>>
  BY DEF StartPeek, StartWaitAt, StartPop, StartTake, PeekAt, Commit, TakeAll, AbandonWait, TakeStep,
         CheckTake, PollNotEmpty, WakeConsumer, NotifyRoom, pushVars
<1>2. ASSUME UNCHANGED <<items, taken>> PROVE Line' = Line
  BY <1>2 DEF Line
<1>3. ASSUME NEW n \in 0..Len(items), Takes(n) PROVE Line' = Line
  BY <1>3, CommitKeepsLine
<1>4. ASSUME Commit PROVE Line' = Line
  <2>1. 1 \in 0..Len(items) /\ BufferCommit(1) /\ taken' = Append(taken, Head(items)) /\ items # <<>>
    BY <1>0, <1>4 DEF Commit
  <2> DEFINE f == SubSeq(items, 1, 1)
             b == taken \o f
             c == Append(taken, Head(items))
  <2>2. f \in Seq(Item) /\ Len(f) = 1 /\ f[1] = Head(items) /\ Head(items) \in Item
    BY <1>0, <2>1
  <2> HIDE DEF f
  <2>3. b \in Seq(Item) /\ Len(b) = Len(taken) + 1 /\ b[Len(taken) + 1] = f[1]
        /\ \A i \in 1..Len(taken) : b[i] = taken[i]
    <3>0. taken \in Seq(Item) /\ f \in Seq(Item) /\ Len(f) = 1
      BY <1>0, <2>2
    <3>1. b \in Seq(Item) /\ Len(b) = Len(taken) + Len(f)
      BY <3>0, ConcatProperties
    <3>2. \A i \in 1..Len(taken) : b[i] = taken[i]
      BY <3>0
    <3>3. \A i \in 1..Len(f) : b[Len(taken) + i] = f[i]
      BY <3>0
    <3>4. 1 \in 1..Len(f)
      BY <3>0
    <3> QED
      BY <3>0, <3>1, <3>2, <3>3, <3>4
  <2>4. c \in Seq(Item) /\ Len(c) = Len(taken) + 1 /\ c[Len(taken) + 1] = Head(items)
        /\ \A i \in 1..Len(taken) : c[i] = taken[i]
    BY <1>0, <2>2
  <2>5. b = c
    <3> HIDE DEF b, c
    <3>1. Len(taken) \in Nat
      BY <1>0
    <3>2. \A i \in 1..Len(b) : b[i] = c[i]
      BY <2>2, <2>3, <2>4, <3>1
    <3> QED
      BY <2>3, <2>4, <3>2, SeqEqual
  <2>6. Takes(1)
    BY <2>1, <2>5 DEF Takes, f
  <2> QED
    BY <1>3, <2>1, <2>6
<1>5. ASSUME TakeAll PROVE Line' = Line
  <2>1. Len(items) \in 0..Len(items) /\ BufferCommit(Len(items)) /\ taken' = taken \o items
    BY <1>0, <1>5 DEF TakeAll
  <2>2. SubSeq(items, 1, Len(items)) = items
    BY <1>0
  <2>3. Takes(Len(items))
    BY <2>1, <2>2 DEF Takes
  <2> QED
    BY <1>3, <2>1, <2>3
<1>6. ASSUME CheckTake PROVE Line' = Line
  <2>1. CASE UNCHANGED <<items, taken>>
    BY <2>1 DEF Line
  <2>2. ASSUME NEW n \in 1..MaxBatch, n <= Len(items), BufferCommit(n), taken' = taken \o SubSeq(items, 1, n)
        PROVE  Line' = Line
    <3>1. n \in 0..Len(items) /\ Takes(n)
      BY <1>0, <2>2, QueueAssumption DEF Takes
    <3> QED
      BY <1>3, <3>1
  <2> QED
    BY <1>6, <2>1, <2>2 DEF CheckTake, Reserve, bufVars
<1>7. Line' = Line
  <2>1. CASE StartPeek \/ StartWaitAt \/ StartPop
    BY <1>2, <2>1 DEF StartPeek, StartWaitAt, StartPop, StartTake, bufVars
  <2>2. CASE PeekAt
    BY <1>2, <2>2 DEF PeekAt, Reserve
  <2>3. CASE AbandonWait
    BY <1>2, <2>3 DEF AbandonWait, bufVars
  <2>4. CASE PollNotEmpty \/ WakeConsumer \/ NotifyRoom
    BY <1>2, <2>4 DEF PollNotEmpty, WakeConsumer, NotifyRoom, bufVars
  <2> QED
    BY <1>4, <1>5, <1>6, <2>1, <2>2, <2>3, <2>4 DEF TakeStep
<1>8. BetweenCalls'
  BY <1>1 DEF PlaceInv, BetweenCalls
<1> QED
  BY <1>1, <1>7, <1>8, PlacesFrame

\* A producer that waits or announces, and close, move no item.
LEMMA WaitKeepsPlaces ==
  ASSUME IInv, PlaceInv, Close \/ CloseStep \/ UNCHANGED vars
                \/ \E p \in Producers : Announce(p) \/ PollNotFull(p) \/ WakePush(p) \/ TickPush(p)
  PROVE  PlaceInv' /\ Everywhere' = Everywhere
<1>1. /\ ppc \in [Producers -> {"idle", "admit", "announce", "prewait", "poll", "parked"}]
      /\ \A p \in Producers : ppc[p] \in {"idle", "announce"} => batch[p] = <<>>
  BY DEF IInv, TypeOK, PlaceInv, BetweenCalls
<1>2. CASE Close \/ CloseStep \/ UNCHANGED vars
  <2>1. UNCHANGED <<items, taken, ppc, batch, next, returned, dropped>>
    BY <1>2 DEF Close, CloseStep, CloseWakeConsumer, CloseWakeProducers, bufVars, pushVars, takeVars, vars
  <2>2. BetweenCalls' /\ Line' = Line
    BY <1>1, <2>1 DEF BetweenCalls, Line
  <2> QED
    BY <2>1, <2>2, PlacesFrame
<1>3. ASSUME NEW p \in Producers, Announce(p) \/ PollNotFull(p) \/ WakePush(p) \/ TickPush(p)
      PROVE  PlaceInv' /\ Everywhere' = Everywhere
  <2>1. UNCHANGED <<items, taken, batch, next, returned, dropped>>
    BY <1>3 DEF Announce, PollNotFull, WakePush, TickPush, bufVars, takeVars
  <2>2. \/ ppc[p] = "announce" /\ ppc' = [ppc EXCEPT ![p] = "idle"]
        \/ ppc' = [ppc EXCEPT ![p] = "poll"]
        \/ ppc' = [ppc EXCEPT ![p] = "admit"]
        \/ ppc' = [ppc EXCEPT ![p] = "parked"]
    BY <1>1, <1>3 DEF Announce, PollNotFull, WakePush, TickPush
  <2>3. BetweenCalls' /\ Line' = Line
    BY <1>1, <2>1, <2>2 DEF BetweenCalls, Line
  <2> QED
    BY <2>1, <2>3, PlacesFrame
<1> QED
  BY <1>2, <1>3

\* Every step keeps every item in one place, in order, and forgets none.
LEMMA StepKeepsPlaces ==
  ASSUME IInv, IInv', PlaceInv, [Next]_vars
  PROVE  PlaceInv' /\ Everywhere \subseteq Everywhere'
<1>1. CASE \E p \in Producers : Push(p) \/ PushMany(p)
  <2>1. PICK p \in Producers : Push(p) \/ PushMany(p)
    BY <1>1
  <2>2. CASE Push(p)
    <3>1. PICK w \in Weights : CallPush(p, <<w>>)
      BY <2>2 DEF Push
    <3>2. <<w>> \in [1..1 -> Weights]
      OBVIOUS
    <3>3. CallPush(p, <<w>>) /\ 1 \in Nat \ {0}
      BY <3>1
    <3> QED
      BY <3>2, <3>3, CallKeepsPlaces
  <2>3. CASE PushMany(p)
    <3>1. PICK n \in 1..MaxBatch : \E ws \in [1..n -> Weights] : CallPush(p, ws)
      BY <2>3 DEF PushMany
    <3>2. n \in Nat \ {0}
      BY QueueAssumption
    <3> QED
      BY <3>1, <3>2, CallKeepsPlaces
  <2> QED
    BY <2>1, <2>2, <2>3
<1>2. CASE \E p \in Producers : CancelPush(p)
  BY <1>2, CancelKeepsPlaces
<1>3. CASE \E p \in Producers : Admit(p)
  BY <1>3, AdmitKeepsPlaces
<1>4. CASE \E p \in Producers : Announce(p) \/ PollNotFull(p) \/ WakePush(p) \/ TickPush(p)
  BY <1>4, WaitKeepsPlaces
<1>5. CASE StartPeek \/ StartWaitAt \/ StartPop \/ PeekAt \/ Commit \/ TakeAll \/ AbandonWait \/ TakeStep
  BY <1>5, TakeKeepsPlaces
<1>6. CASE Close \/ CloseStep \/ UNCHANGED vars
  BY <1>6, WaitKeepsPlaces
<1> QED
  BY <1>1, <1>2, <1>3, <1>4, <1>5, <1>6 DEF Next, PushStep

\* At first nothing is anywhere.
LEMMA InitPlaces == Init => PlaceInv
<1> SUFFICES ASSUME Init PROVE PlaceInv
  OBVIOUS
<1>1. /\ items = <<>> /\ taken = <<>> /\ returned = {} /\ dropped = [r \in Reasons |-> {}]
      /\ batch = [p \in Producers |-> <<>>] /\ next = [p \in Producers |-> 1]
  BY DEF Init
<1>2. Line = <<>>
  BY <1>1 DEF Line
<1>3. ToSet(<<>>) = {} /\ Ordered(<<>>)
  BY DEF ToSet, Ordered
<1>4. Shed = {} /\ Unadmitted = {} /\ ToSet(Line) = {}
  BY <1>1, <1>2, <1>3 DEF Shed, Unadmitted
<1>5. Settled = {}
  BY <1>1, <1>4 DEF Settled
<1>6. Numbered /\ NumberedOnce /\ Apart /\ BetweenCalls
  BY <1>1, <1>4, <1>5 DEF Numbered, NumberedOnce, Apart, BetweenCalls
<1>7. CallsBehind
  BY <1>1, <1>3, <1>5 DEF CallsBehind
<1>8. NoneMissing
  BY <1>1 DEF NoneMissing
<1> QED
  BY <1>2, <1>3, <1>6, <1>7, <1>8 DEF PlaceInv

\* The invariant on places holds in every reachable state.
THEOREM PlacesHold == Spec => []PlaceInv
<1>1. Init => PlaceInv
  BY InitPlaces
<1>2. IInv /\ IInv' /\ PlaceInv /\ [Next]_vars => PlaceInv'
  BY StepKeepsPlaces
<1> QED
  BY <1>1, <1>2, InvariantHolds, PTL DEF Spec

\* One producer's items leave in the order it numbered them, whatever is evicted on the
\* way and whichever consumer takes them (Numbering::next: "numbers follow push order").
THEOREM LeavesInOrder == Spec => []LeaveInPushOrder
<1>1. PlaceInv => LeaveInPushOrder
  BY DEF PlaceInv, Ordered, LeaveInPushOrder
<1> QED
  BY <1>1, PlacesHold, PTL

\* A line in order has no item twice.
LEMMA OrderedInjective ==
  ASSUME NEW s \in Seq(Item), Ordered(s)
  PROVE  IsInjective(s)
<1>1. DOMAIN s = 1..Len(s)
  OBVIOUS
<1>2. \A i \in 1..Len(s) : s[i] \in Item
  OBVIOUS
<1>3. \A i \in 1..Len(s) : s[i].num \in Nat
  BY <1>2 DEF Item
<1>4. ASSUME NEW i \in 1..Len(s), NEW j \in 1..Len(s), i < j PROVE s[i] # s[j]
  BY <1>3, <1>4 DEF Ordered
<1>5. ASSUME NEW i \in 1..Len(s), NEW j \in 1..Len(s), s[i] = s[j] PROVE i = j
  <2>1. ~(i < j) /\ ~(j < i)
    BY <1>4, <1>5
  <2> QED
    BY <2>1
<1> QED
  BY <1>1, <1>5 DEF IsInjective

\* The invariant on places accounts for every item once.
LEMMA PlacesAreExact == IInv /\ PlaceInv => ExactlyOnePlace
<1> SUFFICES ASSUME IInv, PlaceInv PROVE ExactlyOnePlace
  OBVIOUS
<1>0. Placed
  BY PlacedFacts DEF IInv
<1>1. /\ Line \in Seq(Item) /\ batch \in [Producers -> Seq(Item)]
      /\ \A x \in Item : x.from \in Producers /\ x.num \in Nat
      /\ Settled \subseteq Item /\ Unadmitted \subseteq Item
      /\ \A p \in Producers : next[p] \in Nat
  BY <1>0 DEF Placed
<1>2. Everywhere = Settled \cup Unadmitted
  BY EverywhereSplit
<1>3. \A x \in Unadmitted : x \in ToSet(batch[x.from]) /\ x.from \in Producers
  BY CarriedFacts DEF PlaceInv, CallsBehind
<1>4. ASSUME NEW p \in Producers
      PROVE  {x.num : x \in {y \in Everywhere : y.from = p}} = 1..(next[p] - 1)
  <2>1. ASSUME NEW x \in Everywhere, x.from = p PROVE x.num \in 1..(next[p] - 1)
    <3>1. x.num \in Nat /\ next[p] \in Nat
      BY <1>1, <1>2
    <3>2. x.num >= 1 /\ x.num < next[p]
      BY <1>2, <2>1 DEF PlaceInv, Numbered
    <3> QED
      BY <3>1, <3>2
  <2>2. \A n \in 1..(next[p] - 1) : \E x \in Everywhere : x.from = p /\ x.num = n
    BY <1>2 DEF PlaceInv, NoneMissing
  <2> QED
    BY <2>1, <2>2
<1>5. ASSUME NEW x \in Everywhere, NEW y \in Everywhere, x.from = y.from, x.num = y.num
      PROVE  x = y
  <2>0. x.num \in Nat /\ y.num \in Nat
    BY <1>1, <1>2
  <2>1. \A a \in Unadmitted, b \in Settled : a.from = b.from => b.num < a.num
    BY <1>3 DEF PlaceInv, CallsBehind
  <2>2. CASE x \in Settled /\ y \in Settled
    BY <1>5, <2>2 DEF PlaceInv, NumberedOnce
  <2>3. CASE x \in Settled /\ y \in Unadmitted
    <3>1. x.num < y.num
      BY <1>5, <2>1, <2>3
    <3> QED
      BY <1>5, <2>0, <3>1
  <2>4. CASE x \in Unadmitted /\ y \in Settled
    <3>1. y.num < x.num
      BY <1>5, <2>1, <2>4
    <3> QED
      BY <1>5, <2>0, <3>1
  <2>5. CASE x \in Unadmitted /\ y \in Unadmitted
    <3>1. x \in ToSet(batch[x.from]) /\ y \in ToSet(batch[x.from]) /\ x.from \in Producers
      BY <1>3, <1>5, <2>5
    <3>2. batch[x.from] \in Seq(Item)
      BY <1>1, <3>1
    <3>3. Ordered(batch[x.from]) /\ \A z \in ToSet(batch[x.from]) : z.from = x.from
      BY <3>1 DEF PlaceInv, CallsBehind
    <3>4. \A a, b \in ToSet(batch[x.from]) : a.num = b.num => a = b
      BY <3>2, <3>3, CallInOrder
    <3> QED
      BY <1>5, <3>1, <3>4
  <2> QED
    BY <1>2, <2>2, <2>3, <2>4, <2>5
<1>6. IsInjective(Line)
  BY <1>1, OrderedInjective DEF PlaceInv
<1>7. ASSUME NEW p \in Producers PROVE IsInjective(batch[p])
  <2>1. batch[p] \in Seq(Item) /\ Ordered(batch[p])
    BY <1>1 DEF PlaceInv, CallsBehind
  <2> QED
    BY <2>1, OrderedInjective
<1>8. Unadmitted \cap Settled = {}
  <2>1. \A p \in Producers : ToSet(batch[p]) \cap Settled = {}
    BY <1>0, CarriedIsFresh
  <2> QED
    BY <2>1, CarriedFacts
<1>9. Settled = ToSet(Line) \cup Shed \cup returned
  BY DEF Settled
<1>10. /\ ToSet(Line) \cap Shed = {} /\ ToSet(Line) \cap returned = {} /\ Shed \cap returned = {}
       /\ \A r, q \in Reasons : r # q => dropped[r] \cap dropped[q] = {}
  BY DEF PlaceInv, Apart
<1>11. /\ ToSet(Line) \cap (returned \cup Shed \cup Unadmitted) = {}
       /\ returned \cap (Shed \cup Unadmitted) = {} /\ Shed \cap Unadmitted = {}
  BY <1>8, <1>9, <1>10
<1>12. \A p, q \in Producers : p # q => ToSet(batch[p]) \cap ToSet(batch[q]) = {}
  BY DEF PlaceInv, CallsBehind
<1> QED
  BY <1>4, <1>5, <1>6, <1>7, <1>10, <1>11, <1>12 DEF ExactlyOnePlace

\* Every item handed to push or push_many is in exactly one place, for every number of
\* producers, every policy and every interleaving of admissions, evictions,
\* cancellations, takes and close (CountedDrain's and push_many's accounting).
THEOREM AccountsForEveryItem == Spec => []ExactlyOnePlace
BY PlacesAreExact, PlacesHold, InvariantHolds, PTL

\* Under block, what overflowed before close did so because of an item that could never fit.
BlockInv ==
  policy = "block" /\ ~closed /\ dropped["overflow_oldest"] \cup dropped["overflow_newest"] # {}
  => \E x \in Everywhere : NeverFits(x.w)

\* Only the admission of an item that can never fit sheds under block.
LEMMA BlockStep ==
  ASSUME IInv, IInv', PlaceInv, BlockInv, [Next]_vars
  PROVE  BlockInv'
<1> SUFFICES ASSUME policy' = "block", closed' = FALSE,
                    dropped'["overflow_oldest"] \cup dropped'["overflow_newest"] # {}
             PROVE  \E x \in Everywhere' : NeverFits(x.w)
  BY DEF BlockInv, NeverFits, IInv, TypeOK
<1>1. Everywhere \subseteq Everywhere'
  BY StepKeepsPlaces
<1>2. SUFFICES \E x \in Everywhere : NeverFits(x.w)
  BY <1>1
<1>3. dropped \in [Reasons -> SUBSET Item] /\ "shutdown" \in Reasons
  BY DEF IInv, TypeOK, Reasons
<1>4. CASE UNCHANGED vars
  BY <1>4 DEF BlockInv, vars, confVars, closeVars
<1>5. ASSUME NEW p \in Producers, Admit(p) PROVE \E x \in Everywhere : NeverFits(x.w)
  <2> DEFINE x == Head(batch[p])
  <2>1. /\ UNCHANGED <<policy, closed>> /\ ppc[p] = "admit"
        /\ \/ dropped' = dropped
           \/ ~MustWait(x.w) /\ BufferPush(x)
    BY <1>5 DEF Admit, confVars, closeVars
  <2>2. CASE dropped' = dropped
    BY <2>1, <2>2 DEF BlockInv
  <2>3. CASE dropped' # dropped
    <3>1. NeverFits(x.w)
      BY <2>1, <2>3 DEF MustWait, BufferPush
    <3>2. batch[p] \in Seq(Item) /\ batch[p] # <<>>
      BY <2>1 DEF IInv, TypeOK, CallsCarryItems
    <3>3. x \in ToSet(batch[p])
      BY <3>2, TailFacts
    <3>4. x \in Everywhere
      BY <3>3, CarriedFacts, EverywhereSplit
    <3> QED
      BY <3>1, <3>4
  <2> QED
    BY <2>2, <2>3
<1>6. ASSUME NEW p \in Producers, Push(p) \/ PushMany(p) \/ CancelPush(p) \/ Announce(p) \/ PollNotFull(p)
             \/ WakePush(p) \/ TickPush(p)
      PROVE  \E x \in Everywhere : NeverFits(x.w)
  <2>1. UNCHANGED <<policy, closed>>
    BY <1>6 DEF Push, PushMany, CallPush, CancelPush, Announce, PollNotFull, WakePush, TickPush, confVars, closeVars
  <2>2. \/ dropped' = dropped
        \/ \E S : dropped' = [dropped EXCEPT !["shutdown"] = S]
    BY <1>6 DEF Push, PushMany, CallPush, CancelPush, Announce, PollNotFull, WakePush, TickPush
  <2>3. /\ dropped'["overflow_oldest"] = dropped["overflow_oldest"]
        /\ dropped'["overflow_newest"] = dropped["overflow_newest"]
    BY <1>3, <2>2 DEF Reasons
  <2> QED
    BY <2>1, <2>3 DEF BlockInv
<1>7. ASSUME StartPeek \/ StartWaitAt \/ StartPop \/ PeekAt \/ Commit \/ TakeAll \/ AbandonWait \/ TakeStep
      PROVE  \E x \in Everywhere : NeverFits(x.w)
  <2>1. UNCHANGED <<policy, closed, dropped>>
    BY <1>7 DEF StartPeek, StartWaitAt, StartPop, StartTake, PeekAt, Commit, TakeAll, AbandonWait, TakeStep,
                CheckTake, PollNotEmpty, WakeConsumer, NotifyRoom, confVars, closeVars
  <2> QED
    BY <2>1 DEF BlockInv
<1>8. ASSUME Close \/ CloseStep PROVE \E x \in Everywhere : NeverFits(x.w)
  <2>1. closed' = TRUE \/ UNCHANGED <<policy, closed, dropped>>
    BY <1>8 DEF Close, CloseStep, CloseWakeConsumer, CloseWakeProducers, confVars
  <2> QED
    BY <2>1 DEF BlockInv
<1> QED
  BY <1>4, <1>5, <1>6, <1>7, <1>8 DEF Next, PushStep

\* Under block nothing is shed before close unless an item too heavy for the whole queue
\* was pushed: push's wait is left only for room, for close, or for the never-fits fallback.
THEOREM BlockKeepsAll == Spec => []BlockKeepsEverything
<1>1. Init => BlockInv
  BY DEF Init, BlockInv, Reasons
<1>2. IInv /\ IInv' /\ PlaceInv /\ BlockInv /\ [Next]_vars => BlockInv'
  BY BlockStep
<1>3. Spec => []BlockInv
  BY <1>1, <1>2, InvariantHolds, PlacesHold, PTL DEF Spec
<1>4. BlockInv => BlockKeepsEverything
  BY DEF BlockInv, BlockKeepsEverything
<1> QED
  BY <1>3, <1>4, PTL

-----------------------------------------------------------------------------
(* No lost wake-up.  A task that is about to wait is not yet in the wait list, so the     *)
(* invariant also says what protects it there: a stored permit, a notify_waiters call    *)
(* since its Notified was made, or somebody still about to notify.                       *)

\* q is the one task that waits on n, and it is in the wait list or woken exactly while parked.
OneWaiter(n, q, parked) ==
  /\ n.waiting = <<>> \/ n.waiting = <<q>>
  /\ parked => (n.waiting = <<>> <=> Woken(n, q))
  /\ ~parked => n.waiting = <<>> /\ ~Woken(n, q)

\* The first poll of a Notified made at snap will resolve.
Caught(n, snap) == n.permit \/ n.gen # snap

\* A sink's push carries one item and lets go of the lock with it.
PushIsShort == style = "sink" => lock = Nobody /\ \A p \in Producers : Len(batch[p]) <= 1

ItemOrClose == Len(items) >= want \/ closed

ConsumerWakes ==
  /\ OneWaiter(notEmpty, Consumer, cpc = "parked") /\ csnap <= notEmpty.gen
  /\ cpc = "poll" /\ ItemOrClose => Caught(notEmpty, csnap) \/ AnnouncementPending
  /\ cpc = "parked" /\ ItemOrClose => Woken(notEmpty, Consumer) \/ AnnouncementPending

RoomOrClose(p) == ~Full(Head(batch[p]).w) \/ closed

\* The consumer or close is about to notify not_full.
RoomPending == cpc = "notify" \/ closepc \in {"flagged", "half"}

ProducerWakes(p) ==
  /\ OneWaiter(notFull, p, ppc[p] = "parked") /\ psnap[p] <= notFull.gen
  /\ ppc[p] \in {"prewait", "poll"} /\ RoomOrClose(p) => Caught(notFull, psnap[p]) \/ RoomPending
  /\ ppc[p] = "parked" /\ RoomOrClose(p) => Woken(notFull, p) \/ RoomPending

LoneProducerWakes == \A p \in Producers : Producers = {p} => ProducerWakes(p)

WakeInv == PushIsShort /\ ConsumerWakes /\ LoneProducerWakes

\* A list of one unlinks to nothing.
LEMMA UnlinkOnly ==
  ASSUME NEW q
  PROVE  Unlink(<<q>>, q) = <<>> /\ Unlink(<<>>, q) = <<>>
<1>1. ToSet(<<q>>) = {q} /\ ToSet(<<>>) = {}
  BY DEF ToSet
<1>2. Unlink(<<>>, q) = <<>>
  BY <1>1 DEF Unlink
<1>3. (CHOOSE i \in DOMAIN <<q>> : <<q>>[i] = q) = 1
  OBVIOUS
<1>4. RemoveAt(<<q>>, 1) = <<>>
  BY DEF RemoveAt
<1> QED
  BY <1>1, <1>2, <1>3, <1>4 DEF Unlink

\* notify_one wakes the waiter if it is parked and is remembered if it is not.
LEMMA OneWaiterNotifyOne ==
  ASSUME NEW P, NEW n \in NotifyType(P), NEW q \in P, NEW b \in BOOLEAN, OneWaiter(n, q, b)
  PROVE  /\ OneWaiter(NotifyOne(n), q, b) /\ NotifyOne(n).gen = n.gen
         /\ n.permit => NotifyOne(n).permit
         /\ b => Woken(NotifyOne(n), q)
         /\ ~b => NotifyOne(n).permit
<1>1. CASE n.waiting = <<>>
  <2>1. NotifyOne(n) = [n EXCEPT !.permit = TRUE]
    BY <1>1 DEF NotifyOne
  <2> QED
    BY <1>1, <2>1 DEF OneWaiter, NotifyType, Woken
<1>2. CASE n.waiting = <<q>>
  <2>1. Tail(<<q>>) = <<>> /\ Head(<<q>>) = q /\ <<q>> # <<>>
    OBVIOUS
  <2>2. b /\ ~Woken(n, q)
    BY <1>2, <2>1 DEF OneWaiter
  <2>3. NotifyOne(n) = [n EXCEPT !.waiting = <<>>, !.wokenOne = n.wokenOne \cup {q}]
    BY <1>2, <2>1 DEF NotifyOne
  <2>4. /\ NotifyOne(n).waiting = <<>> /\ NotifyOne(n).gen = n.gen /\ NotifyOne(n).permit = n.permit
        /\ NotifyOne(n).wokenOne = n.wokenOne \cup {q}
    BY <2>3 DEF NotifyType
  <2> QED
    BY <2>2, <2>4 DEF OneWaiter, Woken
<1> QED
  BY <1>1, <1>2 DEF OneWaiter

\* notify_waiters wakes the parked waiter and shows in the count.
LEMMA OneWaiterNotifyWaiters ==
  ASSUME NEW P, NEW n \in NotifyType(P), NEW q \in P, NEW b \in BOOLEAN, OneWaiter(n, q, b)
  PROVE  /\ OneWaiter(NotifyWaiters(n), q, b) /\ NotifyWaiters(n).gen = n.gen + 1
         /\ b => Woken(NotifyWaiters(n), q)
<1>1. /\ NotifyWaiters(n).gen = n.gen + 1 /\ NotifyWaiters(n).waiting = <<>>
      /\ NotifyWaiters(n).wokenAll = n.wokenAll \cup ToSet(n.waiting)
      /\ NotifyWaiters(n).wokenOne = n.wokenOne
  BY DEF NotifyWaiters, NotifyType
<1>2. ToSet(<<>>) = {} /\ ToSet(<<q>>) = {q} /\ <<q>> # <<>>
  BY DEF ToSet
<1>3. CASE n.waiting = <<>>
  BY <1>1, <1>2, <1>3 DEF OneWaiter, Woken
<1>4. CASE n.waiting = <<q>>
  BY <1>1, <1>2, <1>4 DEF OneWaiter, Woken
<1> QED
  BY <1>3, <1>4 DEF OneWaiter

\* The first poll resolves when something was caught, and parks the waiter otherwise.
LEMMA OneWaiterFirstPoll ==
  ASSUME NEW P, NEW n \in NotifyType(P), NEW q \in P, NEW snap, OneWaiter(n, q, FALSE)
  PROVE  /\ FirstPoll(n, q, snap).gen = n.gen
         /\ ReadyAtFirstPoll(n, snap) => OneWaiter(FirstPoll(n, q, snap), q, FALSE)
         /\ ~ReadyAtFirstPoll(n, snap) => OneWaiter(FirstPoll(n, q, snap), q, TRUE) /\ ~Caught(n, snap)
<1>0. n.waiting = <<>> /\ ~Woken(n, q)
  BY DEF OneWaiter
<1>1. CASE n.gen # snap
  BY <1>1 DEF FirstPoll, ReadyAtFirstPoll
<1>2. CASE n.gen = snap /\ n.permit
  <2>1. FirstPoll(n, q, snap) = [n EXCEPT !.permit = FALSE]
    BY <1>2 DEF FirstPoll
  <2> QED
    BY <1>0, <1>2, <2>1 DEF ReadyAtFirstPoll, OneWaiter, NotifyType, Woken
<1>3. CASE n.gen = snap /\ ~n.permit
  <2>1. Append(<<>>, q) = <<q>> /\ <<q>> # <<>>
    OBVIOUS
  <2>2. FirstPoll(n, q, snap) = [n EXCEPT !.waiting = <<q>>]
    BY <1>0, <1>3, <2>1 DEF FirstPoll
  <2>3. /\ FirstPoll(n, q, snap).waiting = <<q>> /\ FirstPoll(n, q, snap).gen = n.gen
        /\ FirstPoll(n, q, snap).wokenOne = n.wokenOne /\ FirstPoll(n, q, snap).wokenAll = n.wokenAll
    BY <2>2 DEF NotifyType
  <2> QED
    BY <1>0, <1>3, <2>1, <2>3 DEF ReadyAtFirstPoll, OneWaiter, Caught, Woken
<1> QED
  BY <1>1, <1>2, <1>3

\* A wait that ends, woken or dropped, leaves nobody in the list.
LEMMA OneWaiterEnds ==
  ASSUME NEW P, NEW n \in NotifyType(P), NEW q \in P, OneWaiter(n, q, TRUE)
  PROVE  /\ OneWaiter(DropNotified(n, q), q, FALSE) /\ DropNotified(n, q).gen = n.gen
         /\ Woken(n, q) => OneWaiter(Resume(n, q), q, FALSE) /\ Resume(n, q).gen = n.gen
<1> DEFINE m == Resume(n, q)
<1>1. /\ m.gen = n.gen /\ m.waiting = n.waiting /\ m.permit = n.permit
      /\ m.wokenOne = n.wokenOne \ {q} /\ m.wokenAll = n.wokenAll \ {q} /\ m \in NotifyType(P)
  BY DEF Resume, NotifyType
<1>2. ~Woken(m, q)
  BY <1>1 DEF Woken
<1>3. (n.waiting = <<>> <=> Woken(n, q)) /\ (n.waiting = <<>> \/ n.waiting = <<q>>)
  BY DEF OneWaiter
<1> HIDE DEF m
<1>4. Woken(n, q) => OneWaiter(m, q, FALSE)
  BY <1>1, <1>2, <1>3 DEF OneWaiter
<1>5. CASE q \in n.wokenOne
  <2>1. DropNotified(n, q) = NotifyOne(m) /\ Woken(n, q)
    BY <1>5 DEF DropNotified, m, Woken
  <2> QED
    BY <1>1, <1>4, <2>1, OneWaiterNotifyOne, ZenonT(60) DEF m
<1>6. CASE q \notin n.wokenOne
  <2>1. Unlink(n.waiting, q) = <<>>
    BY <1>3, UnlinkOnly
  <2>2. DropNotified(n, q) = [m EXCEPT !.waiting = <<>>]
    BY <1>6, <2>1 DEF DropNotified, m
  <2>3. /\ DropNotified(n, q).waiting = <<>> /\ DropNotified(n, q).gen = m.gen
        /\ DropNotified(n, q).wokenOne = m.wokenOne /\ DropNotified(n, q).wokenAll = m.wokenAll
    BY <1>1, <2>2 DEF NotifyType
  <2>4. OneWaiter(DropNotified(n, q), q, FALSE)
    BY <1>2, <2>3 DEF OneWaiter, Woken
  <2> QED
    BY <1>1, <1>4, <2>3, <2>4 DEF m
<1> QED
  BY <1>5, <1>6

\* Every step keeps a sink's pushes short.
LEMMA PushStaysShort ==
  ASSUME IInv, PushIsShort, [Next]_vars
  PROVE  PushIsShort'
<1>0. batch \in [Producers -> Seq(Item)]
  BY DEF IInv, TypeOK
<1>1. CASE UNCHANGED <<style, lock, batch>>
  BY <1>1 DEF PushIsShort
<1>2. ASSUME NEW p \in Producers, Push(p) \/ PushMany(p) PROVE PushIsShort'
  <2>1. CASE PushMany(p)
    <3>1. style' = "listener"
      BY <2>1 DEF PushMany, CallPush, confVars
    <3> QED
      BY <3>1 DEF PushIsShort
  <2>2. CASE Push(p)
    <3>1. PICK w \in Weights : CallPush(p, <<w>>)
      BY <2>2 DEF Push
    <3>2. batch' = [batch EXCEPT ![p] = NewItems(p, <<w>>)] /\ UNCHANGED <<style, lock>>
      BY <3>1 DEF CallPush, confVars, bufVars
    <3>3. NewItems(p, <<w>>) = [i \in 1..1 |-> [from |-> p, num |-> next[p] + i - 1, w |-> <<w>>[i]]]
      BY DEF NewItems
    <3>4. Len(NewItems(p, <<w>>)) <= 1
      BY <3>3
    <3> QED
      BY <1>0, <3>2, <3>4 DEF PushIsShort
  <2> QED
    BY <1>2, <2>1, <2>2
<1>3. ASSUME NEW p \in Producers, Admit(p) PROVE PushIsShort'
  <2> SUFFICES ASSUME style' = "sink" PROVE lock' = Nobody /\ \A q \in Producers : Len(batch'[q]) <= 1
    BY DEF PushIsShort
  <2>1. /\ style = "sink" /\ ppc[p] = "admit"
        /\ \/ lock' = Nobody /\ batch' = batch
           \/ /\ batch' = [batch EXCEPT ![p] = Tail(batch[p])]
              /\ Tail(batch[p]) = <<>> => lock' = Nobody
    BY <1>3 DEF Admit, confVars
  <2>2. batch[p] \in Seq(Item) /\ batch[p] # <<>> /\ Len(batch[p]) <= 1
    BY <1>0, <2>1 DEF IInv, CallsCarryItems, PushIsShort
  <2>3. Tail(batch[p]) \in Seq(Item) /\ Len(Tail(batch[p])) = Len(batch[p]) - 1
    BY <2>2, TailFacts
  <2>4. Tail(batch[p]) = <<>> /\ Len(Tail(batch[p])) = 0
    <3> DEFINE t == Tail(batch[p])
               n == Len(batch[p])
    <3>1. t \in Seq(Item) /\ Len(t) = n - 1
      BY <2>3
    <3>2. n \in Nat /\ n > 0 /\ n <= 1
      BY <2>2
    <3> HIDE DEF t, n
    <3>3. Len(t) = 0
      BY <3>1, <3>2
    <3>4. t = <<>>
      BY <3>1, <3>3
    <3> QED
      BY <3>3, <3>4 DEF t
  <2>5. lock' = Nobody
    BY <2>1, <2>4
  <2>6. ASSUME NEW q \in Producers PROVE Len(batch'[q]) <= 1
    <3>1. batch'[q] = batch[q] \/ batch'[q] = Tail(batch[p])
      BY <1>0, <2>1
    <3>2. Len(batch[q]) <= 1
      BY <2>1 DEF PushIsShort
    <3>3. Len(<<>>) <= 1
      OBVIOUS
    <3>4. batch'[q] = batch[q] \/ batch'[q] = <<>>
      BY <2>4, <3>1
    <3> QED
      BY <3>2, <3>3, <3>4
  <2> QED
    BY <2>5, <2>6
<1>4. ASSUME NEW p \in Producers, CancelPush(p) PROVE PushIsShort'
  <2>1. batch' = [batch EXCEPT ![p] = <<>>] /\ UNCHANGED <<style, lock>>
    BY <1>4 DEF CancelPush, confVars, bufVars
  <2> QED
    BY <1>0, <2>1 DEF PushIsShort
<1>5. ASSUME NEW p \in Producers, Announce(p) \/ PollNotFull(p) \/ WakePush(p) \/ TickPush(p) PROVE PushIsShort'
  <2>1. UNCHANGED <<style, lock, batch>>
    BY <1>5 DEF Announce, PollNotFull, WakePush, TickPush, confVars, bufVars
  <2> QED
    BY <1>1, <2>1
<1>6. ASSUME StartPeek \/ StartWaitAt \/ StartPop \/ PeekAt \/ Commit \/ TakeAll \/ AbandonWait \/ TakeStep
      PROVE  PushIsShort'
  <2>1. UNCHANGED <<style, lock, batch>>
    BY <1>6 DEF StartPeek, StartWaitAt, StartPop, StartTake, PeekAt, Commit, TakeAll, AbandonWait, TakeStep,
                CheckTake, PollNotEmpty, WakeConsumer, NotifyRoom, Reserve, confVars, pushVars, bufVars
  <2> QED
    BY <1>1, <2>1
<1>7. ASSUME Close \/ CloseStep \/ UNCHANGED vars PROVE PushIsShort'
  <2>1. UNCHANGED <<style, lock, batch>>
    BY <1>7 DEF Close, CloseStep, CloseWakeConsumer, CloseWakeProducers, vars, confVars, bufVars, pushVars
  <2> QED
    BY <1>1, <2>1
<1> QED
  BY <1>2, <1>3, <1>4, <1>5, <1>6, <1>7 DEF Next, PushStep

\* A step that neither reaches the consumer nor gives it a reason to wake keeps it safe.
LEMMA ConsumerUntouched ==
  ASSUME ConsumerWakes, UNCHANGED <<notEmpty, cpc, csnap, want>>,
         AnnouncementPending' \/ ((AnnouncementPending => AnnouncementPending') /\ UNCHANGED <<items, closed>>)
  PROVE  ConsumerWakes'
BY DEF ConsumerWakes, ItemOrClose, Caught, Woken, OneWaiter

\* Announcements that are pending stay so until they are made.
LEMMA StillPending ==
  ASSUME TypeOK, NEW p \in Producers, NEW v, ppc' = [ppc EXCEPT ![p] = v], ppc[p] \notin {"announce", "prewait"},
         closepc' = closepc, lock' = lock
  PROVE  AnnouncementPending => AnnouncementPending'
BY DEF TypeOK, AnnouncementPending

\* No producer's step loses the consumer's wake-up.
LEMMA PushWakesConsumer ==
  ASSUME IInv, PushIsShort, ConsumerWakes, NEW p \in Producers,
         Push(p) \/ PushMany(p) \/ CancelPush(p) \/ PushStep(p)
  PROVE  ConsumerWakes'
<1>0. /\ TypeOK /\ ppc \in [Producers -> {"idle", "admit", "announce", "prewait", "poll", "parked"}]
      /\ notEmpty \in NotifyType(Procs) /\ Consumer \in Procs
  BY DEF IInv, TypeOK, Procs
<1>1. CASE Push(p) \/ PushMany(p) \/ CancelPush(p) \/ PollNotFull(p) \/ WakePush(p) \/ TickPush(p)
  <2>1. /\ UNCHANGED <<notEmpty, cpc, csnap, want, items, closed, closepc, lock>>
        /\ ppc[p] \notin {"announce", "prewait"} /\ \E v : ppc' = [ppc EXCEPT ![p] = v]
    BY <1>1 DEF Push, PushMany, CallPush, CancelPush, PollNotFull, WakePush, TickPush, takeVars, closeVars, bufVars
  <2>2. AnnouncementPending => AnnouncementPending'
    BY <1>0, <2>1, StillPending
  <2> QED
    BY <2>1, <2>2, ConsumerUntouched
<1>2. CASE Admit(p)
  <2>1. /\ UNCHANGED <<notEmpty, cpc, csnap, want, closed, closepc, style>> /\ ppc[p] = "admit" /\ lock \in {Nobody, p}
        /\ \/ lock' = Nobody /\ ppc' = [ppc EXCEPT ![p] = BeforeWait] /\ items' = items
           \/ ppc' = [ppc EXCEPT ![p] = "announce"]
           \/ lock' = p
    BY <1>2 DEF Admit, takeVars, closeVars, confVars
  <2>2. CASE ppc' = [ppc EXCEPT ![p] = "announce"] \/ lock' = p
    <3>1. AnnouncementPending'
      BY <1>0, <2>2 DEF AnnouncementPending
    <3> QED
      BY <2>1, <3>1, ConsumerUntouched
  <2>3. CASE lock' = Nobody /\ ppc' = [ppc EXCEPT ![p] = BeforeWait] /\ items' = items
    <3>1. CASE style = "listener"
      <4>1. AnnouncementPending'
        BY <1>0, <2>3, <3>1 DEF AnnouncementPending, BeforeWait
      <4> QED
        BY <2>1, <4>1, ConsumerUntouched
    <3>2. CASE style = "sink"
      <4>1. lock = Nobody
        BY <3>2 DEF PushIsShort
      <4>2. AnnouncementPending => AnnouncementPending'
        BY <1>0, <2>1, <2>3, <4>1, StillPending
      <4> QED
        BY <2>1, <2>3, <4>2, ConsumerUntouched
    <3> QED
      BY <1>0, <3>1, <3>2, QueueAssumption DEF TypeOK
  <2> QED
    BY <2>1, <2>2, <2>3
<1>3. CASE Announce(p)
  <2>1. notEmpty' = NotifyOne(notEmpty) /\ UNCHANGED <<cpc, csnap, want>>
    BY <1>3 DEF Announce, takeVars
  <2>2. OneWaiter(notEmpty, Consumer, cpc = "parked") /\ (cpc = "parked") \in BOOLEAN /\ csnap <= notEmpty.gen
    BY DEF ConsumerWakes
  <2>3. /\ OneWaiter(notEmpty', Consumer, cpc = "parked") /\ notEmpty'.gen = notEmpty.gen
        /\ cpc = "parked" => Woken(notEmpty', Consumer)
        /\ cpc # "parked" => notEmpty'.permit
    BY <1>0, <2>1, <2>2, OneWaiterNotifyOne
  <2> QED
    BY <2>1, <2>2, <2>3 DEF ConsumerWakes, Caught
<1> QED
  BY <1>1, <1>2, <1>3 DEF PushStep

\* No step of close loses the consumer's wake-up.
LEMMA CloseWakesConsumer ==
  ASSUME IInv, ConsumerWakes, Close \/ CloseStep \/ UNCHANGED vars
  PROVE  ConsumerWakes'
<1>1. CASE Close
  <2>1. UNCHANGED <<notEmpty, cpc, csnap, want>> /\ AnnouncementPending'
    BY <1>1 DEF Close, takeVars, AnnouncementPending
  <2> QED
    BY <2>1, ConsumerUntouched
<1>2. CASE CloseWakeProducers
  <2>1. UNCHANGED <<notEmpty, cpc, csnap, want, items, closed, ppc, lock>> /\ closepc = "half"
    BY <1>2 DEF CloseWakeProducers, takeVars, bufVars, pushVars
  <2>2. AnnouncementPending => AnnouncementPending'
    BY <2>1 DEF AnnouncementPending
  <2> QED
    BY <2>1, <2>2, ConsumerUntouched
<1>3. CASE UNCHANGED vars
  BY <1>3 DEF vars, takeVars, bufVars, pushVars, closeVars, ConsumerWakes, ItemOrClose, AnnouncementPending
<1>4. CASE CloseWakeConsumer
  <2>0. notEmpty \in NotifyType(Procs) /\ Consumer \in Procs /\ notEmpty.gen \in Nat /\ csnap \in Nat
    BY DEF IInv, TypeOK, Procs, NotifyType
  <2>1. notEmpty' = NotifyWaiters(notEmpty) /\ UNCHANGED <<cpc, csnap, want>>
    BY <1>4 DEF CloseWakeConsumer, takeVars
  <2>2. OneWaiter(notEmpty, Consumer, cpc = "parked") /\ (cpc = "parked") \in BOOLEAN /\ csnap <= notEmpty.gen
    BY DEF ConsumerWakes
  <2>3. /\ OneWaiter(notEmpty', Consumer, cpc = "parked") /\ notEmpty'.gen = notEmpty.gen + 1
        /\ cpc = "parked" => Woken(notEmpty', Consumer)
    BY <2>0, <2>1, <2>2, OneWaiterNotifyWaiters
  <2>4. csnap <= notEmpty'.gen /\ notEmpty'.gen # csnap
    BY <2>0, <2>2, <2>3
  <2> QED
    BY <2>1, <2>3, <2>4 DEF ConsumerWakes, Caught
<1> QED
  BY <1>1, <1>2, <1>3, <1>4 DEF CloseStep

\* A consumer that does not come to wait by a step needs nothing but its own wait's end.
LEMMA ConsumerAwake ==
  ASSUME OneWaiter(notEmpty', Consumer, FALSE), csnap' <= notEmpty'.gen, cpc' \notin {"poll", "parked"}
  PROVE  ConsumerWakes'
BY DEF ConsumerWakes

\* The consumer's own steps never put it to sleep on something it waits for.
LEMMA TakeWakesConsumer ==
  ASSUME IInv, ConsumerWakes, StartPeek \/ StartWaitAt \/ StartPop \/ PeekAt \/ Commit \/ TakeAll \/ AbandonWait \/ TakeStep
  PROVE  ConsumerWakes'
<1>0. /\ notEmpty \in NotifyType(Procs) /\ Consumer \in Procs /\ notEmpty.gen \in Nat /\ csnap \in Nat
      /\ OneWaiter(notEmpty, Consumer, cpc = "parked") /\ csnap <= notEmpty.gen
  BY DEF IInv, TypeOK, Procs, NotifyType, ConsumerWakes
<1>1. CASE StartPeek \/ StartWaitAt \/ StartPop
  <2>1. cpc = "idle" /\ notEmpty' = notEmpty /\ csnap' = notEmpty.gen /\ cpc' = "check"
    BY <1>1 DEF StartPeek, StartWaitAt, StartPop, StartTake
  <2>2. OneWaiter(notEmpty', Consumer, FALSE)
    BY <1>0, <2>1
  <2>3. csnap' <= notEmpty'.gen
    BY <1>0, <2>1
  <2> QED
    BY <2>1, <2>2, <2>3, ConsumerAwake
<1>2. CASE PeekAt \/ Commit \/ TakeAll \/ NotifyRoom
  <2>1. /\ cpc \in {"idle", "notify"} /\ UNCHANGED <<notEmpty, csnap>> /\ cpc' \in {"idle", "notify", "done"}
    BY <1>2 DEF PeekAt, Commit, TakeAll, NotifyRoom
  <2> QED
    BY <1>0, <2>1, ConsumerAwake
<1>3. CASE AbandonWait
  <2>1. cpc = "parked" /\ notEmpty' = DropNotified(notEmpty, Consumer) /\ cpc' = "idle" /\ csnap' = csnap
    BY <1>3 DEF AbandonWait
  <2>2. OneWaiter(notEmpty', Consumer, FALSE) /\ notEmpty'.gen = notEmpty.gen
    BY <1>0, <2>1, OneWaiterEnds
  <2> QED
    BY <1>0, <2>1, <2>2, ConsumerAwake
<1>4. CASE WakeConsumer
  <2>1. /\ cpc = "parked" /\ notEmpty' = Resume(notEmpty, Consumer) /\ cpc' = "check" /\ csnap' = notEmpty.gen
        /\ Woken(notEmpty, Consumer)
    BY <1>4 DEF WakeConsumer
  <2>2. OneWaiter(notEmpty', Consumer, FALSE) /\ notEmpty'.gen = notEmpty.gen
    BY <1>0, <2>1, OneWaiterEnds
  <2> QED
    BY <1>0, <2>1, <2>2, ConsumerAwake
<1>5. CASE PollNotEmpty
  <2>0. /\ cpc = "poll" /\ notEmpty' = FirstPoll(notEmpty, Consumer, csnap)
        /\ UNCHANGED <<want, items, closed, ppc, lock, closepc>>
    BY <1>5 DEF PollNotEmpty, bufVars, pushVars, closeVars
  <2>1. OneWaiter(notEmpty, Consumer, FALSE)
    BY <1>0, <2>0
  <2>2. /\ notEmpty'.gen = notEmpty.gen
        /\ ReadyAtFirstPoll(notEmpty, csnap) => OneWaiter(notEmpty', Consumer, FALSE)
        /\ ~ReadyAtFirstPoll(notEmpty, csnap) => OneWaiter(notEmpty', Consumer, TRUE) /\ ~Caught(notEmpty, csnap)
    BY <1>0, <2>0, <2>1, OneWaiterFirstPoll
  <2>3. CASE ReadyAtFirstPoll(notEmpty, csnap)
    <3>1. cpc' = "check" /\ csnap' = notEmpty.gen
      BY <1>5, <2>3 DEF PollNotEmpty
    <3> QED
      BY <1>0, <2>2, <2>3, <3>1, ConsumerAwake
  <2>4. CASE ~ReadyAtFirstPoll(notEmpty, csnap)
    <3>1. cpc' = "parked" /\ csnap' = csnap
      BY <1>5, <2>4 DEF PollNotEmpty
    <3>2. ItemOrClose => AnnouncementPending
      BY <2>0, <2>2, <2>4 DEF ConsumerWakes
    <3>3. ItemOrClose' => AnnouncementPending'
      BY <2>0, <3>2 DEF ItemOrClose, AnnouncementPending
    <3> QED
      BY <1>0, <2>2, <2>4, <3>1, <3>3 DEF ConsumerWakes
  <2> QED
    BY <2>3, <2>4
<1>6. CASE CheckTake
  <2>1. /\ cpc = "check" /\ UNCHANGED <<notEmpty, csnap, want, closed>>
        /\ \/ cpc' \in {"idle", "notify", "done"}
           \/ cpc' = "poll" /\ Len(items) < want /\ ~closed /\ items' = items
    BY <1>6 DEF CheckTake, closeVars, bufVars
  <2>2. CASE cpc' \in {"idle", "notify", "done"}
    BY <1>0, <2>1, <2>2, ConsumerAwake
  <2>3. CASE cpc' = "poll" /\ Len(items) < want /\ ~closed /\ items' = items
    <3>1. items \in Seq(Item) /\ want \in Nat
      BY DEF IInv, TypeOK
    <3>2. ~ItemOrClose'
      BY <2>1, <2>3, <3>1 DEF ItemOrClose
    <3> QED
      BY <1>0, <2>1, <2>3, <3>2 DEF ConsumerWakes
  <2> QED
    BY <2>1, <2>2, <2>3
<1> QED
  BY <1>1, <1>2, <1>3, <1>4, <1>5, <1>6 DEF TakeStep

\* A step that neither reaches the producer nor makes room keeps it safe.
LEMMA ProducerUntouched ==
  ASSUME NEW p \in Producers, ProducerWakes(p), UNCHANGED <<notFull, batch>>,
         ppc'[p] = ppc[p] \/ (ppc[p] = "prewait" /\ ppc'[p] = "poll") \/ (ppc[p] = "announce" /\ ppc'[p] = "idle"),
         psnap'[p] = psnap[p],
         RoomPending' \/ ((RoomPending => RoomPending') /\ UNCHANGED <<items, weight, closed>>)
  PROVE  ProducerWakes(p)'
<1>1. /\ OneWaiter(notFull, p, ppc[p] = "parked") /\ psnap[p] <= notFull.gen
      /\ ppc[p] \in {"prewait", "poll"} /\ RoomOrClose(p) => Caught(notFull, psnap[p]) \/ RoomPending
      /\ ppc[p] = "parked" /\ RoomOrClose(p) => Woken(notFull, p) \/ RoomPending
  BY DEF ProducerWakes
<1>2. (ppc[p] = "parked") = (ppc'[p] = "parked")
  OBVIOUS
<1>3. OneWaiter(notFull', p, ppc'[p] = "parked") /\ psnap'[p] <= notFull'.gen
  BY <1>1, <1>2
<1>4. CASE RoomPending'
  BY <1>3, <1>4 DEF ProducerWakes
<1>5. CASE (RoomPending => RoomPending') /\ UNCHANGED <<items, weight, closed>>
  <2>1. RoomOrClose(p)' = RoomOrClose(p)
    BY <1>5 DEF RoomOrClose, Full, WouldOverflow
  <2>2. Caught(notFull', psnap'[p]) = Caught(notFull, psnap[p]) /\ Woken(notFull', p) = Woken(notFull, p)
    BY DEF Caught, Woken
  <2>3. ppc'[p] \in {"prewait", "poll"} /\ RoomOrClose(p)' => Caught(notFull', psnap'[p]) \/ RoomPending'
    BY <1>1, <1>5, <2>1, <2>2
  <2>4. ppc'[p] = "parked" /\ RoomOrClose(p)' => Woken(notFull', p) \/ RoomPending'
    BY <1>1, <1>5, <2>1, <2>2
  <2> QED
    BY <1>3, <2>3, <2>4 DEF ProducerWakes
<1> QED
  BY <1>4, <1>5

\* A producer that does not come to wait by a step needs nothing but its own wait's end.
LEMMA ProducerAwake ==
  ASSUME NEW p \in Producers, OneWaiter(notFull', p, FALSE), psnap'[p] <= notFull'.gen,
         ppc'[p] \notin {"prewait", "poll", "parked"}
  PROVE  ProducerWakes(p)'
BY DEF ProducerWakes

\* A lone producer's own steps never put it to sleep on room it could use.
LEMMA PushWakesProducer ==
  ASSUME IInv, NEW p \in Producers, ProducerWakes(p),
         Push(p) \/ PushMany(p) \/ CancelPush(p) \/ PushStep(p)
  PROVE  ProducerWakes(p)'
<1>0. /\ ppc \in [Producers -> {"idle", "admit", "announce", "prewait", "poll", "parked"}]
      /\ psnap \in [Producers -> Nat] /\ psnap[p] \in Nat
      /\ notFull \in NotifyType(Procs) /\ p \in Procs /\ notFull.gen \in Nat
  BY DEF IInv, TypeOK, Procs, NotifyType
<1>1. OneWaiter(notFull, p, ppc[p] = "parked") /\ psnap[p] <= notFull.gen
  BY DEF ProducerWakes
<1>2. CASE Push(p) \/ PushMany(p)
  <2>1. /\ ppc[p] = "idle" /\ notFull' = notFull /\ ppc' = [ppc EXCEPT ![p] = "admit"]
        /\ psnap' = [psnap EXCEPT ![p] = notFull.gen]
    BY <1>2 DEF Push, PushMany, CallPush
  <2>2. psnap'[p] = notFull.gen /\ ppc'[p] = "admit"
    BY <1>0, <2>1
  <2>3. OneWaiter(notFull', p, FALSE)
    BY <1>1, <2>1
  <2>4. psnap'[p] <= notFull'.gen
    BY <1>0, <2>1, <2>2
  <2> QED
    BY <2>2, <2>3, <2>4, ProducerAwake
<1>3. CASE CancelPush(p) \/ TickPush(p)
  <2>1. /\ ppc[p] = "parked" /\ notFull' = DropNotified(notFull, p)
        /\ ppc' = [ppc EXCEPT ![p] = "admit"] \/ ppc' = [ppc EXCEPT ![p] = "idle"]
        /\ psnap' = psnap \/ psnap' = [psnap EXCEPT ![p] = notFull.gen]
    BY <1>3 DEF CancelPush, TickPush
  <2>2. OneWaiter(notFull', p, FALSE) /\ notFull'.gen = notFull.gen
    BY <1>0, <1>1, <2>1, OneWaiterEnds, ZenonT(60)
  <2>3. psnap'[p] <= notFull'.gen
    BY <1>0, <1>1, <2>1, <2>2
  <2>4. ppc'[p] \in {"admit", "idle"}
    BY <1>0, <2>1
  <2> QED
    BY <2>2, <2>3, <2>4, ProducerAwake
<1>4. CASE WakePush(p)
  <2>1. /\ ppc[p] = "parked" /\ notFull' = Resume(notFull, p) /\ Woken(notFull, p)
        /\ ppc' = [ppc EXCEPT ![p] = "admit"] /\ psnap' = [psnap EXCEPT ![p] = notFull.gen]
    BY <1>4 DEF WakePush
  <2>2. OneWaiter(notFull', p, FALSE) /\ notFull'.gen = notFull.gen
    BY <1>0, <1>1, <2>1, OneWaiterEnds
  <2>3. psnap'[p] <= notFull'.gen
    BY <1>0, <2>1, <2>2
  <2>4. ppc'[p] = "admit"
    BY <1>0, <2>1
  <2> QED
    BY <2>2, <2>3, <2>4, ProducerAwake
<1>5. CASE PollNotFull(p)
  <2>0. /\ ppc[p] = "poll" /\ notFull' = FirstPoll(notFull, p, psnap[p])
        /\ UNCHANGED <<items, weight, closed, batch, cpc, closepc>>
    BY <1>5 DEF PollNotFull, bufVars, takeVars, closeVars
  <2>1. OneWaiter(notFull, p, FALSE)
    BY <1>1, <2>0
  <2>2. /\ notFull'.gen = notFull.gen
        /\ ReadyAtFirstPoll(notFull, psnap[p]) => OneWaiter(notFull', p, FALSE)
        /\ ~ReadyAtFirstPoll(notFull, psnap[p]) => OneWaiter(notFull', p, TRUE) /\ ~Caught(notFull, psnap[p])
    BY <1>0, <2>0, <2>1, OneWaiterFirstPoll
  <2>3. CASE ReadyAtFirstPoll(notFull, psnap[p])
    <3>1. ppc' = [ppc EXCEPT ![p] = "admit"] /\ psnap' = [psnap EXCEPT ![p] = notFull.gen]
      BY <1>5, <2>3 DEF PollNotFull
    <3>2. ppc'[p] = "admit" /\ psnap'[p] = notFull.gen
      BY <1>0, <3>1
    <3>3. psnap'[p] <= notFull'.gen
      BY <1>0, <2>2, <3>2
    <3> QED
      BY <2>2, <2>3, <3>2, <3>3, ProducerAwake
  <2>4. CASE ~ReadyAtFirstPoll(notFull, psnap[p])
    <3>1. ppc' = [ppc EXCEPT ![p] = "parked"] /\ psnap' = psnap
      BY <1>5, <2>4 DEF PollNotFull
    <3>2. ppc'[p] = "parked"
      BY <1>0, <3>1
    <3>3. RoomOrClose(p) => RoomPending
      BY <2>0, <2>2, <2>4 DEF ProducerWakes
    <3>4. RoomOrClose(p)' => RoomPending'
      BY <2>0, <3>3 DEF RoomOrClose, RoomPending, Full, WouldOverflow
    <3>5. psnap'[p] <= notFull'.gen
      BY <1>1, <2>2, <3>1
    <3>6. OneWaiter(notFull', p, ppc'[p] = "parked")
      BY <2>2, <2>4, <3>2
    <3> QED
      BY <3>2, <3>4, <3>5, <3>6 DEF ProducerWakes
  <2> QED
    BY <2>3, <2>4
<1>6. CASE Announce(p)
  <2>1. /\ ppc[p] \in {"announce", "prewait"} /\ UNCHANGED <<notFull, batch, psnap, items, weight, closed, cpc, closepc>>
        /\ ppc' = [ppc EXCEPT ![p] = IF ppc[p] = "announce" THEN "idle" ELSE "poll"]
    BY <1>6 DEF Announce, bufVars, takeVars, closeVars
  <2>2. \/ ppc[p] = "prewait" /\ ppc'[p] = "poll"
        \/ ppc[p] = "announce" /\ ppc'[p] = "idle"
    BY <1>0, <2>1
  <2>3. RoomPending => RoomPending'
    BY <2>1 DEF RoomPending
  <2> QED
    BY <2>1, <2>2, <2>3, ProducerUntouched
<1>7. CASE Admit(p)
  <2>1. /\ ppc[p] = "admit" /\ UNCHANGED <<notFull, psnap, closed>>
        /\ \/ /\ MustWait(Head(batch[p]).w) /\ UNCHANGED <<items, weight, batch>>
              /\ ppc' = [ppc EXCEPT ![p] = BeforeWait]
           \/ ppc' = [ppc EXCEPT ![p] = "announce"]
           \/ ppc' = ppc
    BY <1>7 DEF Admit, closeVars
  <2>2. OneWaiter(notFull', p, FALSE)
    BY <1>1, <2>1
  <2>3. psnap'[p] <= notFull'.gen
    BY <1>1, <2>1
  <2>4. CASE ppc' = [ppc EXCEPT ![p] = "announce"] \/ ppc' = ppc
    <3>1. ppc'[p] \in {"announce", "admit"}
      BY <1>0, <2>1, <2>4
    <3> QED
      BY <2>2, <2>3, <3>1, ProducerAwake
  <2>5. CASE /\ MustWait(Head(batch[p]).w) /\ UNCHANGED <<items, weight, batch>>
             /\ ppc' = [ppc EXCEPT ![p] = BeforeWait]
    <3>1. ppc'[p] \in {"prewait", "poll"}
      BY <1>0, <2>5 DEF BeforeWait
    <3>2. ~RoomOrClose(p)'
      BY <2>1, <2>5 DEF MustWait, RoomOrClose, Full, WouldOverflow
    <3> QED
      BY <2>2, <2>3, <3>1, <3>2 DEF ProducerWakes
  <2> QED
    BY <2>1, <2>4, <2>5
<1> QED
  BY <1>2, <1>3, <1>4, <1>5, <1>6, <1>7 DEF PushStep

\* The consumer's steps, and close's, never leave a lone producer asleep on room.
LEMMA OthersWakeProducer ==
  ASSUME IInv, NEW p \in Producers, ProducerWakes(p),
         StartPeek \/ StartWaitAt \/ StartPop \/ PeekAt \/ Commit \/ TakeAll \/ AbandonWait \/ TakeStep
         \/ Close \/ CloseStep \/ UNCHANGED vars
  PROVE  ProducerWakes(p)'
<1>0. /\ psnap[p] \in Nat /\ notFull \in NotifyType(Procs) /\ p \in Procs /\ notFull.gen \in Nat /\ owed \in Nat
      /\ cpc = "notify" => owed > 0
  BY DEF IInv, TypeOK, Procs, NotifyType, OwesNotices
<1>1. OneWaiter(notFull, p, ppc[p] = "parked") /\ psnap[p] <= notFull.gen /\ (ppc[p] = "parked") \in BOOLEAN
  BY DEF ProducerWakes
<1>2. ASSUME UNCHANGED <<notFull, batch, ppc, psnap>>, RoomPending' PROVE ProducerWakes(p)'
  BY <1>2, ProducerUntouched
<1>3. ASSUME UNCHANGED <<notFull, batch, ppc, psnap, items, weight, closed>>, RoomPending => RoomPending'
      PROVE  ProducerWakes(p)'
  BY <1>3, ProducerUntouched
<1>4. CASE StartPeek \/ StartWaitAt \/ StartPop \/ PeekAt \/ AbandonWait \/ PollNotEmpty \/ WakeConsumer
  <2>1. UNCHANGED <<notFull, batch, ppc, psnap, items, weight, closed, closepc>> /\ cpc # "notify"
    BY <1>4 DEF StartPeek, StartWaitAt, StartPop, StartTake, PeekAt, AbandonWait, PollNotEmpty, WakeConsumer,
                Reserve, bufVars, pushVars, closeVars
  <2>2. RoomPending => RoomPending'
    BY <2>1 DEF RoomPending
  <2> QED
    BY <1>3, <2>1, <2>2
<1>5. CASE Commit
  <2>1. UNCHANGED <<notFull, batch, ppc, psnap>> /\ cpc' = "notify"
    BY <1>5 DEF Commit, RoomNotices, pushVars
  <2>2. RoomPending'
    BY <2>1 DEF RoomPending
  <2> QED
    BY <1>2, <2>1, <2>2
<1>6. CASE CheckTake
  <2>1. UNCHANGED <<notFull, batch, ppc, psnap, closed, closepc>> /\ cpc = "check"
    BY <1>6 DEF CheckTake, pushVars, closeVars
  <2>2. cpc' = "notify" \/ UNCHANGED <<items, weight>>
    <3>1. ASSUME NEW n \in 1..MaxBatch, owed' = RoomNotices(n), cpc' = IF owed' = 0 THEN "idle" ELSE "notify"
          PROVE  cpc' = "notify"
      <4>1. n # 0
        BY QueueAssumption
      <4> QED
        BY <3>1, <4>1 DEF RoomNotices
    <3> QED
      BY <1>6, <3>1 DEF CheckTake, Reserve, bufVars
  <2>3. RoomPending' \/ ((RoomPending => RoomPending') /\ UNCHANGED <<items, weight>>)
    BY <2>1, <2>2 DEF RoomPending
  <2> QED
    BY <1>2, <1>3, <2>1, <2>3
<1>7. CASE TakeAll
  <2>1. UNCHANGED <<notFull, batch, ppc, psnap>> /\ ppc[p] = "idle"
    BY <1>7 DEF TakeAll, pushVars
  <2>2. OneWaiter(notFull', p, FALSE)
    BY <1>1, <2>1
  <2>3. psnap'[p] <= notFull'.gen
    BY <1>1, <2>1
  <2> QED
    BY <2>1, <2>2, <2>3, ProducerAwake
<1>8. CASE NotifyRoom
  <2>1. /\ notFull' = NotifyOne(notFull) /\ UNCHANGED <<batch, ppc, psnap, items, weight, closed, closepc>>
    BY <1>8 DEF NotifyRoom, bufVars, pushVars, closeVars
  <2>2. /\ OneWaiter(notFull', p, ppc[p] = "parked") /\ notFull'.gen = notFull.gen
        /\ ppc[p] = "parked" => Woken(notFull', p)
        /\ ppc[p] # "parked" => notFull'.permit
    BY <1>0, <1>1, <2>1, OneWaiterNotifyOne
  <2>3. psnap'[p] <= notFull'.gen
    BY <1>1, <2>1, <2>2
  <2> QED
    BY <2>1, <2>2, <2>3 DEF ProducerWakes, Caught
<1>9. CASE Close \/ CloseWakeConsumer
  <2>1. UNCHANGED <<notFull, batch, ppc, psnap>> /\ closepc' \in {"flagged", "half"}
    BY <1>9 DEF Close, CloseWakeConsumer, pushVars
  <2>2. RoomPending'
    BY <2>1 DEF RoomPending
  <2> QED
    BY <1>2, <2>1, <2>2
<1>10. CASE CloseWakeProducers
  <2>1. notFull' = NotifyWaiters(notFull) /\ UNCHANGED <<batch, ppc, psnap>>
    BY <1>10 DEF CloseWakeProducers, pushVars
  <2>2. /\ OneWaiter(notFull', p, ppc[p] = "parked") /\ notFull'.gen = notFull.gen + 1
        /\ ppc[p] = "parked" => Woken(notFull', p)
    BY <1>0, <1>1, <2>1, OneWaiterNotifyWaiters
  <2>3. psnap'[p] <= notFull'.gen /\ notFull'.gen # psnap'[p]
    BY <1>0, <1>1, <2>1, <2>2
  <2> QED
    BY <2>1, <2>2, <2>3 DEF ProducerWakes, Caught
<1>11. CASE UNCHANGED vars
  <2>1. UNCHANGED <<notFull, batch, ppc, psnap, items, weight, closed, closepc, cpc>>
    BY <1>11 DEF vars, bufVars, pushVars, takeVars, closeVars
  <2>2. RoomPending => RoomPending'
    BY <2>1 DEF RoomPending
  <2> QED
    BY <1>3, <2>1, <2>2
<1> QED
  BY <1>4, <1>5, <1>6, <1>7, <1>8, <1>9, <1>10, <1>11 DEF TakeStep, CloseStep

\* Every step keeps the invariant on wake-ups.
LEMMA StepWakes ==
  ASSUME IInv, WakeInv, [Next]_vars
  PROVE  WakeInv'
<1>0. PushIsShort /\ ConsumerWakes /\ LoneProducerWakes
  BY DEF WakeInv
<1>1. PushIsShort'
  BY <1>0, PushStaysShort
<1>2. ConsumerWakes'
  <2>1. CASE \E p \in Producers : Push(p) \/ PushMany(p) \/ CancelPush(p) \/ PushStep(p)
    BY <1>0, <2>1, PushWakesConsumer
  <2>2. CASE StartPeek \/ StartWaitAt \/ StartPop \/ PeekAt \/ Commit \/ TakeAll \/ AbandonWait \/ TakeStep
    BY <1>0, <2>2, TakeWakesConsumer
  <2>3. CASE Close \/ CloseStep \/ UNCHANGED vars
    BY <1>0, <2>3, CloseWakesConsumer
  <2> QED
    BY <2>1, <2>2, <2>3 DEF Next
<1>3. ASSUME NEW p \in Producers, Producers = {p} PROVE ProducerWakes(p)'
  <2>0. ProducerWakes(p)
    BY <1>0, <1>3 DEF LoneProducerWakes
  <2>1. CASE Push(p) \/ PushMany(p) \/ CancelPush(p) \/ PushStep(p)
    BY <2>0, <2>1, PushWakesProducer
  <2>2. CASE \/ StartPeek \/ StartWaitAt \/ StartPop \/ PeekAt \/ Commit \/ TakeAll \/ AbandonWait \/ TakeStep
             \/ Close \/ CloseStep \/ UNCHANGED vars
    BY <2>0, <2>2, OthersWakeProducer
  <2> QED
    BY <1>3, <2>1, <2>2 DEF Next
<1> QED
  BY <1>1, <1>2, <1>3 DEF WakeInv, LoneProducerWakes

\* Nobody waits at first.
LEMMA InitWakes == Init => WakeInv
<1> SUFFICES ASSUME Init PROVE WakeInv
  OBVIOUS
<1>1. \A q : OneWaiter(NewNotify, q, FALSE) /\ NewNotify.gen = 0
  BY DEF OneWaiter, NewNotify, Woken
<1>2. ConsumerWakes
  <2>1. notEmpty = NewNotify /\ cpc = "idle" /\ csnap = 0
    BY DEF Init
  <2>2. OneWaiter(notEmpty, Consumer, cpc = "parked")
    BY <1>1, <2>1
  <2>3. csnap <= notEmpty.gen
    BY <1>1, <2>1
  <2> QED
    BY <2>1, <2>2, <2>3 DEF ConsumerWakes
<1>3. ASSUME NEW p \in Producers PROVE ProducerWakes(p)
  <2>1. notFull = NewNotify /\ ppc[p] = "idle" /\ psnap[p] = 0
    BY DEF Init
  <2>2. OneWaiter(notFull, p, ppc[p] = "parked")
    BY <1>1, <2>1
  <2>3. psnap[p] <= notFull.gen
    BY <1>1, <2>1
  <2> QED
    BY <2>1, <2>2, <2>3 DEF ProducerWakes
<1>4. PushIsShort
  BY DEF Init, PushIsShort
<1> QED
  BY <1>2, <1>3, <1>4 DEF WakeInv, LoneProducerWakes

\* No wake-up is lost: the consumer, whatever the number of producers, and a producer that
\* is alone with the queue never sleep on what they wait for unless somebody is still
\* about to notify them.  Notified is made before the check it guards, and a wait that
\* ends passes on the notification it did not consume.
THEOREM NoWakeupIsLost == Spec => []NoLostWakeup
<1>1. IInv /\ WakeInv /\ [Next]_vars => WakeInv'
  BY StepWakes
<1>2. Spec => []WakeInv
  BY <1>1, InitWakes, InvariantHolds, PTL DEF Spec
<1>3. WakeInv => NoLostWakeup
  <2> SUFFICES ASSUME WakeInv PROVE NoLostWakeup
    OBVIOUS
  <2>1. cpc = "parked" /\ ~Woken(notEmpty, Consumer) /\ (Len(items) >= want \/ closed) => AnnouncementPending
    BY DEF WakeInv, ConsumerWakes, ItemOrClose
  <2>2. ASSUME NEW p \in Producers, Cardinality(Producers) = 1, ppc[p] = "parked", ~Woken(notFull, p),
               ~Full(Head(batch[p]).w) \/ closed
        PROVE  cpc = "notify" \/ closepc \in {"flagged", "half"}
    <3>1. PICK q : Producers = {q}
      BY <2>2, QueueAssumption, FS_Singleton
    <3>2. Producers = {p}
      BY <3>1
    <3>3. ProducerWakes(p)
      BY <3>2 DEF WakeInv, LoneProducerWakes
    <3> QED
      BY <2>2, <3>3 DEF ProducerWakes, RoomOrClose, RoomPending
  <2> QED
    BY <2>1, <2>2 DEF NoLostWakeup
<1> QED
  BY <1>2, <1>3, PTL
-----------------------------------------------------------------------------
(* The weight.  InMemoryBuffer::weight moves by saturating steps; the true sum moves by  *)
(* the same amounts exactly, and the two part only when an addition saturates, which the *)
(* weights of everything ever pushed bound.                                              *)

\* g is the recursive function WeightOf is defined by.
RunningWeight(s, r, n, g) ==
  g = [i \in 0..n |-> IF i = 0 THEN 0 ELSE g[i - 1] + s[r + i].w]

\* WeightOf is the last value of that function.
LEMMA WeightUnfold ==
  ASSUME NEW s, NEW r, NEW n
  PROVE  WeightOf(s, r, n) = (CHOOSE g : RunningWeight(s, r, n, g))[n]
BY DEF WeightOf, RunningWeight

\* WeightOf is the library's sum of the weights it runs over.
LEMMA WeightOfIs ==
  ASSUME NEW s, NEW r, NEW n \in Nat, NEW f, \A i \in 1..n : f[i] = s[r + i].w /\ f[i] \in Nat
  PROVE  WeightOf(s, r, n) = SumFunctionOnSet(f, 1..n) /\ WeightOf(s, r, n) \in Nat
<1> DEFINE sum(i) == SumFunctionOnSet(f, 1..i)
<1>1. sum(0) = 0
  <2>1. 1..0 = {}
    OBVIOUS
  <2> QED
    BY <2>1, TotalEmpty
<1>2. ASSUME NEW i \in 1..n PROVE sum(i) = sum(i - 1) + s[r + i].w
  <2>1. i - 1 \in Nat /\ (i - 1) + 1 = i /\ \A j \in 1..i : f[j] \in Int
    OBVIOUS
  <2> QED
    BY <2>1, TotalNext
<1>3. \A i \in 0..n : sum(i) \in Nat
  <2> TAKE i \in 0..n
  <2>1. IsFiniteSet(1..i) /\ \A j \in 1..i : f[j] \in Nat
    BY FS_Interval
  <2> QED
    BY <2>1, TotalNat
<1> HIDE DEF sum
<1>4. \E g : RunningWeight(s, r, n, g)
  <2> DEFINE g == [i \in 0..n |-> sum(i)]
             v(i) == IF i = 0 THEN 0 ELSE g[i - 1] + s[r + i].w
             h == [i \in 0..n |-> v(i)]
  <2>1. ASSUME NEW i \in 0..n PROVE g[i] = v(i)
    <3>1. CASE i = 0
      BY <1>1, <3>1
    <3>2. CASE i # 0
      <4>1. i \in 1..n /\ i - 1 \in 0..n
        BY <3>2
      <4>2. g[i] = sum(i) /\ g[i - 1] = sum(i - 1)
        BY <4>1
      <4> QED
        BY <1>2, <3>2, <4>1, <4>2
    <3> QED
      BY <3>1, <3>2
  <2>2. g = h
    <3>1. g = [i \in 0..n |-> g[i]]
      OBVIOUS
    <3> HIDE DEF g, v
    <3> QED
      BY <2>1, <3>1
  <2> HIDE DEF g
  <2> QED
    BY <2>2 DEF RunningWeight
<1> DEFINE g == CHOOSE h : RunningWeight(s, r, n, h)
<1>5. RunningWeight(s, r, n, g)
  BY <1>4
<1>6. WeightOf(s, r, n) = g[n]
  BY WeightUnfold
<1> HIDE DEF g
<1>7. \A i \in 0..n : g[i] = IF i = 0 THEN 0 ELSE g[i - 1] + s[r + i].w
  <2>1. g = [i \in 0..n |-> IF i = 0 THEN 0 ELSE g[i - 1] + s[r + i].w]
    BY <1>5 DEF RunningWeight
  <2> QED
    BY <2>1
<1> DEFINE T == {i \in 0..n : g[i] # sum(i)}
<1>8. ASSUME T # {} PROVE FALSE
  <2>1. \E m \in T : \A k \in T : m <= k
    <3>1. T \in SUBSET Nat
      OBVIOUS
    <3> HIDE DEF T
    <3> QED
      BY <1>8, <3>1, LeastNat
  <2>2. PICK m \in T : \A k \in T : m <= k
    BY <2>1
  <2>3. m \in 0..n /\ g[m] # sum(m)
    BY <2>2
  <2>4. m # 0
    BY <1>1, <1>7, <2>3
  <2>5. m \in 1..n /\ m - 1 \in 0..n
    BY <2>3, <2>4
  <2>6. g[m - 1] = sum(m - 1)
    BY <2>2, <2>5
  <2>7. g[m] = g[m - 1] + s[r + m].w
    BY <1>7, <2>3, <2>4
  <2> QED
    BY <1>2, <2>3, <2>5, <2>6, <2>7
<1>9. g[n] = sum(n) /\ sum(n) \in Nat
  <2>1. n \in 0..n
    OBVIOUS
  <2> QED
    BY <1>3, <1>8, <2>1
<1> QED
  BY <1>6, <1>9 DEF sum

\* The weights of a sequence of items, by position, and their true sum.
WeightsOf(s) == [i \in 1..Len(s) |-> s[i].w]
TrueWeight(s) == SumFunctionOnSet(WeightsOf(s), 1..Len(s))

\* An item's weight is a number.
LEMMA WeightsAre ==
  ASSUME NEW s \in Seq(Item)
  PROVE  /\ \A i \in 1..Len(s) : WeightsOf(s)[i] = s[i].w /\ WeightsOf(s)[i] \in Nat
         /\ TrueWeight(s) \in Nat /\ Len(s) \in Nat
         /\ TrueWeight(s) = WeightOf(s, 0, Len(s))
<1>1. ASSUME NEW i \in 1..Len(s) PROVE WeightsOf(s)[i] = s[i].w /\ WeightsOf(s)[i] \in Nat
  <2>1. s[i] \in Item
    OBVIOUS
  <2> QED
    BY <2>1, QueueAssumption DEF Item, WeightsOf
<1>2. Len(s) \in Nat /\ \A i \in 1..Len(s) : 0 + i = i
  OBVIOUS
<1>3. TrueWeight(s) = WeightOf(s, 0, Len(s)) /\ WeightOf(s, 0, Len(s)) \in Nat
  <2>1. \A i \in 1..Len(s) : WeightsOf(s)[i] = s[0 + i].w /\ WeightsOf(s)[i] \in Nat
    BY <1>1, <1>2
  <2> QED
    BY <1>2, <2>1, WeightOfIs DEF TrueWeight
<1> QED
  BY <1>1, <1>2, <1>3


\* Evicting k items after the first c and appending x takes the evicted weight off the
\* true sum and puts x's on.
LEMMA AdmittedWeighs ==
  ASSUME NEW s \in Seq(Item), NEW t \in Seq(Item), NEW x \in Item,
         NEW c \in Nat, NEW k \in 0..(Len(s) - c), Admitted(s, t, c, k, x)
  PROVE  /\ WeightOf(s, c, k) \in 0..TrueWeight(s)
         /\ TrueWeight(t) = TrueWeight(s) - WeightOf(s, c, k) + x.w
<1> DEFINE m == Len(s) - c - k
           r == k + m
           F == WeightsOf(s)
           G == WeightsOf(t)
           mid == [i \in 1..r |-> F[c + i]]
           end == [i \in 1..m |-> F[c + k + i]]
<1>1. /\ Len(s) \in Nat /\ m \in Nat /\ k \in Nat /\ Len(s) = c + r /\ Len(t) = (c + m) + 1
      /\ r \in Nat /\ c + m \in Nat /\ r = k + m
  BY DEF Admitted
<1>2. /\ \A i \in 1..Len(s) : F[i] = s[i].w /\ F[i] \in Nat
      /\ \A i \in 1..Len(t) : G[i] = t[i].w /\ G[i] \in Nat
      /\ TrueWeight(s) \in Nat /\ TrueWeight(t) \in Nat
  BY WeightsAre
<1>3. \A i \in 1..r : mid[i] = F[c + i]
  OBVIOUS
<1>4. \A i \in 1..m : end[i] = F[c + k + i]
  OBVIOUS
<1>5. TrueWeight(s) = SumFunctionOnSet(F, 1..Len(s)) /\ TrueWeight(t) = SumFunctionOnSet(G, 1..Len(t))
  BY DEF TrueWeight
<1>5a. t[(c + m) + 1] = x /\ \A i \in 1..(c + m) : t[i] = s[Before(i, c, k)]
  <2>1. Len(s) - k + 1 = (c + m) + 1 /\ Len(s) - k = c + m
    BY <1>1
  <2> QED
    BY <2>1 DEF Admitted
<1> HIDE DEF m, r, F, G, mid, end
<1>6. ASSUME NEW i \in 1..r PROVE c + i \in 1..Len(s) /\ mid[i] \in Nat
  <2>1. c + i \in 1..Len(s)
    BY <1>1
  <2>2. mid[i] = F[c + i]
    BY <1>3
  <2> QED
    BY <1>2, <2>1, <2>2
<1>7. ASSUME NEW i \in 1..m PROVE c + k + i \in 1..Len(s) /\ end[i] \in Nat /\ end[i] = mid[k + i]
  <2>1. c + k + i \in 1..Len(s) /\ k + i \in 1..r /\ c + (k + i) = c + k + i
    BY <1>1
  <2>2. end[i] = F[c + k + i] /\ mid[k + i] = F[c + (k + i)]
    BY <1>3, <1>4, <2>1
  <2> QED
    BY <1>2, <2>1, <2>2
<1> DEFINE A == SumFunctionOnSet(F, 1..c)
           B == SumFunctionOnSet(mid, 1..k)
           C == SumFunctionOnSet(end, 1..m)
<1>8. SumFunctionOnSet(F, 1..(c + r)) = A + SumFunctionOnSet(mid, 1..r)
  <2>1. ASSUME NEW i \in 1..(c + r) PROVE F[i] \in Int
    <3>1. i \in 1..Len(s)
      BY <1>1
    <3> QED
      BY <1>2, <3>1
  <2>2. r \in Nat
    BY <1>1
  <2>3. Splits(F, c, mid, r)
    BY <1>3, <2>1, <2>2 DEF Splits
  <2> QED
    BY <2>3, TotalConcat
<1>9. SumFunctionOnSet(mid, 1..(k + m)) = B + C
  <2>1. \A i \in 1..(k + m) : mid[i] \in Int
    BY <1>1, <1>6
  <2>2. k \in Nat /\ m \in Nat /\ \A i \in 1..m : end[i] = mid[k + i]
    BY <1>1, <1>7
  <2>3. Splits(mid, k, end, m)
    BY <2>1, <2>2 DEF Splits
  <2> QED
    BY <2>3, TotalConcat
<1>10. WeightOf(s, c, k) = B /\ B \in Nat
  <2>1. \A i \in 1..k : mid[i] = s[c + i].w /\ mid[i] \in Nat
    <3> TAKE i \in 1..k
    <3>1. i \in 1..r
      BY <1>1
    <3> QED
      BY <1>2, <1>3, <1>6, <3>1
  <2>2. k \in Nat
    BY <1>1
  <2> QED
    BY <2>1, <2>2, WeightOfIs
<1>11. SumFunctionOnSet(G, 1..((c + m) + 1)) = SumFunctionOnSet(G, 1..(c + m)) + x.w
  <2>1. ASSUME NEW i \in 1..((c + m) + 1) PROVE G[i] \in Int
    <3>1. i \in 1..Len(t)
      BY <1>1
    <3> QED
      BY <1>2, <3>1
  <2>2. G[(c + m) + 1] = x.w
    <3>1. (c + m) + 1 \in 1..Len(t)
      BY <1>1
    <3> QED
      BY <1>2, <1>5a, <3>1
  <2>3. c + m \in Nat
    BY <1>1
  <2> QED
    BY <2>1, <2>2, <2>3, TotalNext
<1>12. SumFunctionOnSet(G, 1..(c + m)) = SumFunctionOnSet(G, 1..c) + C
  <2>1. ASSUME NEW i \in 1..(c + m) PROVE G[i] \in Int
    <3>1. i \in 1..Len(t)
      BY <1>1
    <3> QED
      BY <1>2, <3>1
  <2>2. ASSUME NEW i \in 1..m PROVE end[i] = G[c + i]
    <3>1. c + i \in 1..(c + m) /\ c + i \in 1..Len(t) /\ Before(c + i, c, k) = c + k + i
      BY <1>1 DEF Before
    <3>2. G[c + i] = s[c + k + i].w
      BY <1>2, <1>5a, <3>1
    <3> QED
      BY <1>2, <1>4, <1>7, <3>2
  <2>3. m \in Nat
    BY <1>1
  <2>4. Splits(G, c, end, m)
    BY <2>1, <2>2, <2>3 DEF Splits
  <2> QED
    BY <2>4, TotalConcat
<1>13. SumFunctionOnSet(G, 1..c) = A
  <2>1. ASSUME NEW i \in 1..c PROVE G[i] = F[i]
    <3>1. i \in 1..(c + m) /\ i \in 1..Len(t) /\ i \in 1..Len(s) /\ Before(i, c, k) = i
      BY <1>1 DEF Before
    <3> QED
      BY <1>2, <1>5a, <3>1
  <2>2. IsFiniteSet(1..c)
    BY FS_Interval
  <2> QED
    BY <2>1, <2>2, TotalSame
<1>14. A \in Nat /\ C \in Nat
  <2>1. IsFiniteSet(1..c) /\ IsFiniteSet(1..m)
    BY <1>1, FS_Interval
  <2>2. ASSUME NEW i \in 1..c PROVE F[i] \in Nat
    <3>1. i \in 1..Len(s)
      BY <1>1
    <3> QED
      BY <1>2, <3>1
  <2>3. \A i \in 1..m : end[i] \in Nat
    BY <1>7
  <2>4. A \in Nat
    BY <2>1, <2>2, TotalNat
  <2> QED
    BY <2>1, <2>3, <2>4, TotalNat
<1>15. x.w \in Nat
  BY QueueAssumption DEF Item
<1> DEFINE S1 == SumFunctionOnSet(mid, 1..r)
           S2 == SumFunctionOnSet(G, 1..(c + m))
<1> HIDE DEF A, B, C, S1, S2
<1>16. TrueWeight(s) = A + S1 /\ S1 = B + C
  BY <1>1, <1>5, <1>8, <1>9 DEF S1
<1>17. TrueWeight(t) = S2 + x.w /\ S2 = A + C
  BY <1>1, <1>5, <1>11, <1>12, <1>13 DEF S2
<1> QED
  BY <1>10, <1>14, <1>15, <1>16, <1>17

\* Taking the first n items takes their weight off the true sum.
LEMMA CommittedWeighs ==
  ASSUME NEW s \in Seq(Item), NEW t \in Seq(Item), NEW n \in 0..Len(s), Len(t) = Len(s) - n,
         \A i \in 1..(Len(s) - n) : t[i] = s[i + n]
  PROVE  /\ WeightOf(s, 0, n) \in 0..TrueWeight(s)
         /\ TrueWeight(t) = TrueWeight(s) - WeightOf(s, 0, n)
<1> DEFINE m == Len(s) - n
           F == WeightsOf(s)
           G == WeightsOf(t)
<1>1. Len(s) \in Nat /\ m \in Nat /\ n \in Nat /\ Len(s) = n + m /\ Len(t) = m
  OBVIOUS
<1>2. /\ \A i \in 1..Len(s) : F[i] = s[i].w /\ F[i] \in Nat
      /\ \A i \in 1..Len(t) : G[i] = t[i].w /\ G[i] \in Nat
      /\ TrueWeight(s) \in Nat /\ TrueWeight(t) \in Nat
  BY WeightsAre
<1>3. TrueWeight(s) = SumFunctionOnSet(F, 1..Len(s)) /\ TrueWeight(t) = SumFunctionOnSet(G, 1..Len(t))
  BY DEF TrueWeight
<1> HIDE DEF m, F, G
<1>4. SumFunctionOnSet(F, 1..(n + m)) = SumFunctionOnSet(F, 1..n) + SumFunctionOnSet(G, 1..m)
  <2>1. ASSUME NEW i \in 1..(n + m) PROVE F[i] \in Int
    <3>1. i \in 1..Len(s)
      BY <1>1
    <3> QED
      BY <1>2, <3>1
  <2>2. ASSUME NEW i \in 1..m PROVE G[i] = F[n + i]
    <3>1. i \in 1..Len(t) /\ i \in 1..(Len(s) - n) /\ i + n = n + i /\ n + i \in 1..Len(s)
      BY <1>1
    <3> QED
      BY <1>2, <3>1
  <2>3. Splits(F, n, G, m)
    BY <1>1, <2>1, <2>2 DEF Splits
  <2> QED
    BY <2>3, TotalConcat
<1>5. WeightOf(s, 0, n) = SumFunctionOnSet(F, 1..n) /\ WeightOf(s, 0, n) \in Nat
  <2>1. ASSUME NEW i \in 1..n PROVE F[i] = s[0 + i].w /\ F[i] \in Nat
    <3>1. i \in 1..Len(s) /\ 0 + i = i
      BY <1>1
    <3> QED
      BY <1>2, <3>1
  <2>2. n \in Nat
    BY <1>1
  <2> QED
    BY <2>1, <2>2, WeightOfIs
<1>6. TrueWeight(s) = WeightOf(s, 0, n) + TrueWeight(t)
  BY <1>1, <1>3, <1>4, <1>5
<1> QED
  BY <1>2, <1>5, <1>6

\* The saturating steps stay at or below the true ones, and are exact while the result fits.
LEMMA SaturatingSteps ==
  ASSUME NEW w \in 0..WeightCeiling, NEW sum \in Nat, w <= sum,
         NEW out \in 0..sum, NEW in \in Nat
  PROVE  /\ SatSub(w, out) \in 0..(sum - out)
         /\ w = sum => SatSub(w, out) = sum - out
         /\ SatAdd(SatSub(w, out), in) <= sum - out + in
         /\ w = sum /\ sum - out + in <= WeightCeiling
              => SatAdd(SatSub(w, out), in) = sum - out + in
<1>1. WeightCeiling \in Nat
  BY QueueAssumption
<1>2. SatSub(w, out) \in 0..(sum - out) /\ (w = sum => SatSub(w, out) = sum - out)
  BY <1>1 DEF SatSub
<1>3. ASSUME NEW v \in Nat, v <= sum - out
      PROVE  /\ SatAdd(v, in) <= sum - out + in
             /\ v = sum - out /\ sum - out + in <= WeightCeiling => SatAdd(v, in) = sum - out + in
  BY <1>1, <1>3 DEF SatAdd
<1>4. SatSub(w, out) \in Nat /\ SatSub(w, out) <= sum - out
  BY <1>2
<1> QED
  BY <1>2, <1>3, <1>4

\* The weights of everything ever pushed.
AllWeights == [x \in Everywhere |-> x.w]

\* Producers number their items, so only finitely many were pushed.
LEMMA EverywhereFinite ==
  IInv /\ PlaceInv => /\ IsFiniteSet(Everywhere) /\ Everywhere \subseteq Item
                      /\ \A x \in Everywhere : AllWeights[x] = x.w /\ x.w \in Nat
<1> SUFFICES ASSUME IInv, PlaceInv
             PROVE  /\ IsFiniteSet(Everywhere) /\ Everywhere \subseteq Item
                    /\ \A x \in Everywhere : AllWeights[x] = x.w /\ x.w \in Nat
  OBVIOUS
<1>1. ExactlyOnePlace
  BY PlacesAreExact
<1>2. Placed
  BY PlacedFacts DEF IInv
<1>3. Everywhere \subseteq Item /\ \A x \in Item : x.from \in Producers
  BY <1>2, EverywhereSplit DEF Placed
<1> DEFINE Of(p) == {y \in Everywhere : y.from = p}
<1>4. ASSUME NEW p \in Producers PROVE IsFiniteSet(Of(p))
  <2> DEFINE N == 1..(next[p] - 1)
             f == [x \in Of(p) |-> x.num]
  <2>1. \A x \in Of(p) : x.num \in N
    BY <1>1 DEF ExactlyOnePlace
  <2>2. \A x, y \in Of(p) : x.num = y.num => x = y
    BY <1>1 DEF ExactlyOnePlace
  <2>3. f \in [Of(p) -> N] /\ \A x \in Of(p) : f[x] = x.num
    BY <2>1
  <2>4. next[p] - 1 \in Int
    BY <1>2 DEF Placed
  <2>5. IsFiniteSet(N)
    BY <2>4, FS_Interval
  <2> HIDE DEF f, N, Of
  <2>6. f \in Injection(Of(p), N)
    BY <2>2, <2>3 DEF Injection, IsInjective
  <2> QED
    BY <2>5, <2>6, FS_Injection
<1> DEFINE All == {Of(p) : p \in Producers}
<1>5. IsFiniteSet(All)
  <2> DEFINE f == [p \in Producers |-> Of(p)]
  <2>1. f \in Surjection(Producers, All)
    <3>1. f \in [Producers -> All] /\ \A t \in All : \E p \in Producers : f[p] = t
      OBVIOUS
    <3> HIDE DEF f, All
    <3> QED
      BY <3>1 DEF Surjection
  <2>2. IsFiniteSet(Producers)
    BY QueueAssumption
  <2> HIDE DEF f, All
  <2> QED
    BY <2>1, <2>2, FS_Surjection
<1>6. UNION All = Everywhere
  BY <1>3
<1>7. IsFiniteSet(UNION All)
  <2>1. \A T \in All : IsFiniteSet(T)
    BY <1>4
  <2> HIDE DEF All
  <2> QED
    BY <1>5, <2>1, FS_UNION
<1>8. \A x \in Everywhere : AllWeights[x] = x.w /\ x.w \in Nat
  BY <1>3, QueueAssumption DEF Item, AllWeights
<1> QED
  BY <1>3, <1>6, <1>7, <1>8

\* The queued items are among them, each once, so their true sum is no greater.
LEMMA QueuedWithinAll ==
  IInv /\ PlaceInv => /\ TrueWeight(items) <= SumFunctionOnSet(AllWeights, Everywhere)
                      /\ TrueWeight(items) \in Nat
                      /\ SumFunctionOnSet(AllWeights, Everywhere) \in Nat
<1> SUFFICES ASSUME IInv, PlaceInv
             PROVE  /\ TrueWeight(items) <= SumFunctionOnSet(AllWeights, Everywhere)
                    /\ TrueWeight(items) \in Nat
                    /\ SumFunctionOnSet(AllWeights, Everywhere) \in Nat
  OBVIOUS
<1>1. /\ IsFiniteSet(Everywhere)
      /\ \A x \in Everywhere : AllWeights[x] = x.w /\ x.w \in Nat
  BY EverywhereFinite
<1>2. items \in Seq(Item) /\ taken \in Seq(Item)
  BY DEF IInv, TypeOK
<1>3. /\ \A i \in 1..Len(items) : WeightsOf(items)[i] = items[i].w /\ WeightsOf(items)[i] \in Nat
      /\ TrueWeight(items) \in Nat /\ Len(items) \in Nat
  BY <1>2, WeightsAre
<1>4. Line \in Seq(Item) /\ Len(Line) = Len(taken) + Len(items) /\ Len(taken) \in Nat
      /\ \A i \in 1..Len(items) : Line[Len(taken) + i] = items[i] /\ Len(taken) + i \in 1..Len(Line)
  BY <1>2, ConcatProperties DEF Line
<1>5. IsInjective(Line)
  BY PlacesAreExact DEF ExactlyOnePlace
<1>6. DOMAIN Line = 1..Len(Line)
  BY <1>4
<1>7. \A i, j \in 1..Len(items) : items[i] = items[j] => i = j
  <2> TAKE i, j \in 1..Len(items)
  <2> HAVE items[i] = items[j]
  <2>1. Len(taken) + i = Len(taken) + j
    BY <1>4, <1>5, <1>6 DEF IsInjective
  <2> QED
    BY <1>4, <2>1
<1> DEFINE Q == {items[i] : i \in 1..Len(items)}
<1>8. Q \subseteq Everywhere
  <2>1. \A i \in 1..Len(items) : items[i] \in ToSet(Line)
    <3> TAKE i \in 1..Len(items)
    <3>1. Line[Len(taken) + i] \in ToSet(Line)
      BY <1>4, ToSetByIndex
    <3> QED
      BY <1>4, <3>1
  <2> QED
    BY <2>1 DEF Everywhere
<1>9. SumFunctionOnSet(WeightsOf(items), 1..Len(items)) = SumFunctionOnSet(AllWeights, Q)
  <2>1. ASSUME NEW i \in 1..Len(items)
        PROVE  WeightsOf(items)[i] = AllWeights[items[i]] /\ WeightsOf(items)[i] \in Int
    BY <1>1, <1>3, <1>8
  <2>2. Reads(WeightsOf(items), Len(items), items, AllWeights)
    BY <1>3, <1>7, <2>1 DEF Reads
  <2>3. SumFunctionOnSet(WeightsOf(items), 1..Len(items))
          = SumFunctionOnSet(AllWeights, {items[i] : i \in 1..Len(items)})
    BY <2>2, TotalOfRange
  <2> QED
    BY <2>3
<1> HIDE DEF Q
<1>10. \A x \in Everywhere : AllWeights[x] \in Nat
  BY <1>1
<1>11. SumFunctionOnSet(AllWeights, Q) <= SumFunctionOnSet(AllWeights, Everywhere)
  BY <1>1, <1>8, <1>10, TotalSub
<1>12. SumFunctionOnSet(AllWeights, Everywhere) \in Nat
  BY <1>1, <1>10, TotalNat
<1> QED
  BY <1>3, <1>9, <1>11, <1>12 DEF TrueWeight

\* A push leaves the buffer alone, or admits x behind what it evicts and moves the weight
\* by the same two amounts.
LEMMA PushAdmits ==
  ASSUME IInv, NEW x \in Item, BufferPush(x)
  PROVE  \/ UNCHANGED <<items, weight>>
         \/ \E k \in 0..(Len(items) - reserved) :
              /\ Admitted(items, items', reserved, k, x)
              /\ weight' = SatAdd(SatSub(weight, WeightOf(items, reserved, k)), x.w)
<1>1. items \in Seq(Item) /\ reserved \in Nat /\ reserved <= Len(items) /\ weight \in Nat
  BY QueueAssumption DEF IInv, TypeOK, InFlightIsPrefix
<1>2. CASE /\ items' = Append(items, x)
           /\ weight' = SatAdd(weight, x.w)
  <2>1. 0 \in 0..(Len(items) - reserved)
    BY <1>1
  <2>2. Admitted(items, items', reserved, 0, x)
    <3>1. /\ Len(items') = Len(items) + 1 /\ items'[Len(items) + 1] = x
          /\ \A i \in 1..Len(items) : items'[i] = items[i]
      BY <1>1, <1>2
    <3>2. Len(items) \in Nat /\ Len(items) - 0 = Len(items) /\ \A i \in 1..Len(items) : Before(i, reserved, 0) = i
      BY <1>1 DEF Before
    <3> QED
      BY <3>1, <3>2 DEF Admitted
  <2>3. WeightOf(items, reserved, 0) = 0
    <3>1. 1..0 = {} /\ 0 \in Nat
      OBVIOUS
    <3>2. \A i \in 1..0 : <<>>[i] = items[reserved + i].w /\ <<>>[i] \in Nat
      BY <3>1
    <3>3. WeightOf(items, reserved, 0) = SumFunctionOnSet(<<>>, 1..0)
      BY <3>1, <3>2, WeightOfIs
    <3> QED
      BY <3>1, <3>3, TotalEmpty
  <2>4. SatSub(weight, 0) = weight
    BY <1>1 DEF SatSub
  <2> QED
    BY <1>2, <2>1, <2>2, <2>3, <2>4
<1>3. ASSUME NEW k \in 0..(Len(items) - Protected),
             items' = Append(Without(items, Protected, k), x),
             weight' = SatAdd(SatSub(weight, WeightOf(items, Protected, k)), x.w)
      PROVE  \E j \in 0..(Len(items) - reserved) :
               /\ Admitted(items, items', reserved, j, x)
               /\ weight' = SatAdd(SatSub(weight, WeightOf(items, reserved, j)), x.w)
  <2> DEFINE rest == Without(items, reserved, k)
  <2>1. k \in 0..(Len(items) - reserved) /\ items' = Append(rest, x)
    BY <1>3 DEF Protected
  <2>2. rest \in Seq(Item) /\ Len(rest) = Len(items) - k
    BY <1>1, <2>1, WithoutType
  <2>3. ASSUME NEW i \in 1..(Len(items) - k) PROVE rest[i] = items[Before(i, reserved, k)]
    BY DEF Without, Before
  <2> HIDE DEF rest
  <2>4. Admitted(items, items', reserved, k, x)
    <3>1. /\ Len(items') = Len(rest) + 1 /\ items'[Len(rest) + 1] = x
          /\ \A i \in 1..Len(rest) : items'[i] = rest[i]
      BY <2>1, <2>2
    <3>2. Len(items') = Len(items) - k + 1 /\ items'[Len(items) - k + 1] = x
      BY <2>2, <3>1
    <3>3. \A i \in 1..(Len(items) - k) : items'[i] = items[Before(i, reserved, k)]
      BY <2>2, <2>3, <3>1
    <3> QED
      BY <3>2, <3>3 DEF Admitted
  <2> QED
    BY <1>3, <2>1, <2>4 DEF Protected
<1> QED
  BY <1>2, <1>3 DEF BufferPush

\* WeightIsSound over the true sum.
WeightInv ==
  /\ weight <= TrueWeight(items)
  /\ SumFunctionOnSet(AllWeights, Everywhere) <= WeightCeiling => weight = TrueWeight(items)

\* What the argument needs of everything ever pushed.
AllBound ==
  /\ IsFiniteSet(Everywhere) /\ \A x \in Everywhere : AllWeights[x] = x.w /\ x.w \in Nat
  /\ TrueWeight(items) <= SumFunctionOnSet(AllWeights, Everywhere)
  /\ TrueWeight(items) \in Nat /\ SumFunctionOnSet(AllWeights, Everywhere) \in Nat

\* In every state ...
LEMMA BoundHolds == IInv /\ PlaceInv => AllBound
BY EverywhereFinite, QueuedWithinAll DEF AllBound

\* ... and after every step.
LEMMA BoundHoldsNext == IInv' /\ PlaceInv' => AllBound'
BY BoundHolds, PTL

\* Nothing pushed is forgotten, so the bound on all weights only grows.
LEMMA BoundGrows ==
  ASSUME AllBound, AllBound', Everywhere \subseteq Everywhere'
  PROVE  SumFunctionOnSet(AllWeights, Everywhere) <= SumFunctionOnSet(AllWeights', Everywhere')
<1>1. \A x \in Everywhere' : AllWeights'[x] = x.w /\ AllWeights'[x] \in Nat
  BY DEF AllBound
<1>2. \A x \in Everywhere : AllWeights'[x] = AllWeights[x]
  BY <1>1 DEF AllBound
<1>3. IsFiniteSet(Everywhere) /\ IsFiniteSet(Everywhere')
  BY DEF AllBound
<1>4. SumFunctionOnSet(AllWeights', Everywhere) = SumFunctionOnSet(AllWeights, Everywhere)
  BY <1>2, <1>3, TotalSame
<1>5. SumFunctionOnSet(AllWeights', Everywhere) <= SumFunctionOnSet(AllWeights', Everywhere')
  BY <1>1, <1>3, TotalSub
<1> QED
  BY <1>4, <1>5

\* A step that moves the sum by out and in, saturating, keeps it sound.
LEMMA WeightMoves ==
  ASSUME IInv, AllBound, AllBound', WeightInv, Everywhere \subseteq Everywhere',
         NEW out \in 0..TrueWeight(items), NEW in \in Nat,
         TrueWeight(items)' = TrueWeight(items) - out + in,
         \/ weight' = SatAdd(SatSub(weight, out), in)
         \/ in = 0 /\ weight' = SatSub(weight, out)
  PROVE  WeightInv'
<1> DEFINE W == TrueWeight(items)
           A == SumFunctionOnSet(AllWeights, Everywhere)
           B == SumFunctionOnSet(AllWeights', Everywhere')
<1>1. /\ W \in Nat /\ A \in Nat /\ weight <= W /\ (A <= WeightCeiling => weight = W)
      /\ weight \in 0..WeightCeiling /\ WeightCeiling \in Nat
  BY QueueAssumption DEF AllBound, WeightInv, IInv, TypeOK
<1>2. TrueWeight(items)' <= B /\ B \in Nat
  BY DEF AllBound
<1>3. A <= B
  BY BoundGrows
<1>4. out \in 0..W /\ TrueWeight(items)' = W - out + in
  OBVIOUS
<1> HIDE DEF W, A, B
<1>5. /\ SatSub(weight, out) \in 0..(W - out)
      /\ weight = W => SatSub(weight, out) = W - out
      /\ SatAdd(SatSub(weight, out), in) <= W - out + in
      /\ weight = W /\ W - out + in <= WeightCeiling
           => SatAdd(SatSub(weight, out), in) = W - out + in
  BY <1>1, <1>4, SaturatingSteps
<1>6. weight' <= W - out + in
  BY <1>1, <1>4, <1>5
<1>7. B <= WeightCeiling => weight' = W - out + in
  BY <1>1, <1>2, <1>3, <1>4, <1>5
<1>8. weight' <= TrueWeight(items)' /\ (B <= WeightCeiling => weight' = TrueWeight(items)')
  BY <1>4, <1>6, <1>7
<1> QED
  BY <1>8 DEF WeightInv, B

\* Every step keeps the sum sound.
LEMMA WeightStep ==
  ASSUME IInv, IInv', PlaceInv, WeightInv, [Next]_vars
  PROVE  WeightInv'
<1>1. PlaceInv' /\ Everywhere \subseteq Everywhere'
  BY StepKeepsPlaces
<1>2. AllBound /\ AllBound'
  BY <1>1, BoundHolds, BoundHoldsNext
<1>3. items \in Seq(Item) /\ items' \in Seq(Item) /\ reserved \in Nat /\ TrueWeight(items) \in Nat
  BY <1>2 DEF IInv, TypeOK, AllBound
<1>4. CASE UNCHANGED <<items, weight>>
  <2>1. TrueWeight(items)' = TrueWeight(items)
    BY <1>4
  <2>2. SumFunctionOnSet(AllWeights, Everywhere) <= SumFunctionOnSet(AllWeights', Everywhere')
    BY <1>1, <1>2, BoundGrows
  <2>3. SumFunctionOnSet(AllWeights, Everywhere) \in Nat /\ SumFunctionOnSet(AllWeights', Everywhere') \in Nat
        /\ WeightCeiling \in Nat
    BY <1>2, QueueAssumption DEF AllBound
  <2>4. SumFunctionOnSet(AllWeights', Everywhere') <= WeightCeiling
          => SumFunctionOnSet(AllWeights, Everywhere) <= WeightCeiling
    BY <2>2, <2>3
  <2> QED
    BY <1>4, <2>1, <2>4 DEF WeightInv
<1>5. ASSUME NEW x \in Item, BufferPush(x) PROVE WeightInv'
  <2>1. CASE UNCHANGED <<items, weight>>
    BY <1>4, <2>1
  <2>2. ASSUME NEW k \in 0..(Len(items) - reserved), Admitted(items, items', reserved, k, x),
               weight' = SatAdd(SatSub(weight, WeightOf(items, reserved, k)), x.w)
        PROVE  WeightInv'
    <3>1. /\ WeightOf(items, reserved, k) \in 0..TrueWeight(items)
          /\ TrueWeight(items') = TrueWeight(items) - WeightOf(items, reserved, k) + x.w
      BY <1>3, <2>2, AdmittedWeighs
    <3>2. x.w \in Nat
      BY QueueAssumption DEF Item
    <3>3. TrueWeight(items)' = TrueWeight(items')
      BY DEF TrueWeight, WeightsOf
    <3> QED
      BY <1>1, <1>2, <2>2, <3>1, <3>2, <3>3, WeightMoves
  <2> QED
    BY <1>5, <2>1, <2>2, PushAdmits
<1>6. ASSUME NEW n \in 0..Len(items), BufferCommit(n) PROVE WeightInv'
  <2>1. Len(items') = Len(items) - n /\ \A i \in 1..(Len(items) - n) : items'[i] = items[i + n]
    BY <1>6, BufferCommitType
  <2>2. /\ WeightOf(items, 0, n) \in 0..TrueWeight(items)
        /\ TrueWeight(items') = TrueWeight(items) - WeightOf(items, 0, n)
    BY <1>3, <2>1, CommittedWeighs
  <2>3. TrueWeight(items)' = TrueWeight(items) - WeightOf(items, 0, n) + 0 /\ 0 \in Nat
    <3>1. TrueWeight(items)' = TrueWeight(items')
      BY DEF TrueWeight, WeightsOf
    <3> QED
      BY <1>3, <2>2, <3>1
  <2>4. weight' = SatSub(weight, WeightOf(items, 0, n))
    BY <1>6 DEF BufferCommit
  <2> QED
    BY <1>1, <1>2, <2>2, <2>3, <2>4, WeightMoves
<1>7. ASSUME NEW p \in Producers, Admit(p) PROVE WeightInv'
  <2>1. batch[p] \in Seq(Item) /\ batch[p] # <<>>
    BY <1>7 DEF Admit, IInv, TypeOK, CallsCarryItems
  <2>2. Head(batch[p]) \in Item
    BY <2>1
  <2>3. UNCHANGED <<items, weight>> \/ BufferPush(Head(batch[p]))
    BY <1>7 DEF Admit
  <2> QED
    BY <1>4, <1>5, <2>2, <2>3
<1>8. CASE Commit
  <2>1. 1 \in 0..Len(items)
    BY <1>3, <1>8 DEF Commit, IInv, InFlightIsPrefix, TypeOK
  <2> QED
    BY <1>6, <1>8, <2>1 DEF Commit
<1>9. CASE TakeAll
  <2>1. Len(items) \in 0..Len(items)
    BY <1>3
  <2> QED
    BY <1>6, <1>9, <2>1 DEF TakeAll
<1>10. CASE CheckTake
  <2>1. UNCHANGED <<items, weight>> \/ \E n \in 1..MaxBatch : n <= Len(items) /\ BufferCommit(n)
    BY <1>10 DEF CheckTake, Reserve, bufVars
  <2>2. \A n \in 1..MaxBatch : n <= Len(items) => n \in 0..Len(items)
    BY <1>3, QueueAssumption
  <2> QED
    BY <1>4, <1>6, <2>1, <2>2
<1>11. ASSUME NEW p \in Producers, Push(p) \/ PushMany(p) \/ CancelPush(p) \/ Announce(p) \/ PollNotFull(p)
              \/ WakePush(p) \/ TickPush(p)
       PROVE  UNCHANGED <<items, weight>>
  BY <1>11 DEF Push, PushMany, CallPush, CancelPush, Announce, PollNotFull, WakePush, TickPush, bufVars
<1>12. ASSUME StartPeek \/ StartWaitAt \/ StartPop \/ PeekAt \/ AbandonWait \/ PollNotEmpty \/ WakeConsumer
              \/ NotifyRoom \/ Close \/ CloseStep \/ UNCHANGED vars
       PROVE  UNCHANGED <<items, weight>>
  BY <1>12 DEF StartPeek, StartWaitAt, StartPop, StartTake, PeekAt, Reserve, AbandonWait, PollNotEmpty,
     WakeConsumer, NotifyRoom, Close, CloseStep, CloseWakeConsumer, CloseWakeProducers, bufVars, vars
<1> QED
  BY <1>4, <1>7, <1>8, <1>9, <1>10, <1>11, <1>12 DEF Next, PushStep, TakeStep

\* The saturating sum never exceeds the true weight of what is queued, and equals it as long
\* as the weights of everything ever pushed fit in a u64: evictions, commits and take_all
\* undo exactly what the pushes added (InMemoryBuffer::weight's comment).
THEOREM WeightStaysSound == Spec => []WeightIsSound
<1>1. Init => WeightInv
  <2> SUFFICES ASSUME Init PROVE WeightInv
    OBVIOUS
  <2>1. items = <<>> /\ weight = 0 /\ <<>> \in Seq(Item)
    BY DEF Init
  <2>2. TrueWeight(items) = 0
    <3>1. 1..Len(items) = {}
      BY <2>1
    <3> QED
      BY <3>1, TotalEmpty DEF TrueWeight
  <2> QED
    BY <2>1, <2>2 DEF WeightInv
<1>2. IInv /\ IInv' /\ PlaceInv /\ WeightInv /\ [Next]_vars => WeightInv'
  BY WeightStep
<1>3. Spec => []WeightInv
  BY <1>1, <1>2, InvariantHolds, PlacesHold, PTL DEF Spec
<1>4. IInv /\ WeightInv => WeightIsSound
  <2> SUFFICES ASSUME IInv, WeightInv PROVE WeightIsSound
    OBVIOUS
  <2>1. items \in Seq(Item)
    BY DEF IInv, TypeOK
  <2>2. TrueWeight(items) = WeightOf(items, 0, Len(items))
    BY <2>1, WeightsAre
  <2>3. SumFunction([x \in Everywhere |-> x.w]) = SumFunctionOnSet(AllWeights, Everywhere)
    BY DEF SumFunction, AllWeights
  <2> QED
    BY <2>2, <2>3 DEF WeightInv, WeightIsSound
<1> QED
  BY <1>3, <1>4, InvariantHolds, PTL
=============================================================================
