---------------------------- MODULE BoundedQueue ----------------------------
(***************************************************************************)
(* The queue between a node's I/O and what it is decoupled from:            *)
(* crates/logit-pipeline/src/queue.rs (BoundedQueue) over                   *)
(* crates/logit-proto/src/buffer.rs (InMemoryBuffer).                       *)
(*                                                                          *)
(* Producers call push and push_many, one consumer calls either             *)
(* peek/peek_at/wait_at/commit (a sink's write loop) or pop/pop_many/       *)
(* take_all (a listener's decode loop), anybody calls close.  A step is one  *)
(* critical section of the inner lock, one Notify call or one poll, so every *)
(* interleaving the lock allows on parallel threads is explored.            *)
(***************************************************************************)
EXTENDS Integers, FiniteSets, Sequences, SequencesExt, Functions, Notify

CONSTANTS
  Producers,     \* tasks that push
  Consumer,      \* the one task that takes
  Nobody,        \* the holder of a free lock
  Policies,      \* overflow policies a behaviour may be configured with
  Styles,        \* consumer styles: "sink", "listener" or both
  Weights,       \* weights an item may have
  MaxItems,      \* QueueConfig::max_items
  MaxWeight,     \* QueueConfig::max_weight
  WeightCeiling, \* u64::MAX, where the weight sum saturates
  MaxPushed,     \* bound: items one producer pushes
  MaxBatch,      \* bound: items of one push_many, and of one pop_many
  MaxCloses      \* bound: close calls

ASSUME QueueAssumption ==
  /\ Consumer \notin Producers
  /\ Nobody \notin Producers \cup {Consumer}
  /\ IsFiniteSet(Producers)
  /\ Policies \subseteq {"block", "drop_oldest", "drop_newest"}
  /\ Styles \subseteq {"sink", "listener"}
  /\ Weights \subseteq Nat
  /\ MaxItems \in Nat /\ MaxWeight \in Nat /\ WeightCeiling \in Nat
  /\ MaxWeight <= WeightCeiling
  /\ MaxPushed \in Nat /\ MaxBatch \in Nat /\ MaxCloses \in Nat

VARIABLES
  policy,    \* QueueConfig::overflow
  style,     \* which of the two consumers this queue has
  items,     \* InMemoryBuffer::items, the head first
  reserved,  \* InMemoryBuffer::reserved
  weight,    \* InMemoryBuffer::weight
  closed,    \* BoundedQueue::closed
  lock,      \* the holder of the inner lock between the items of one push_many
  notEmpty,  \* BoundedQueue::not_empty
  notFull,   \* BoundedQueue::not_full
  ppc,       \* where each producer's call is
  batch,     \* what each producer's call has not yet admitted
  psnap,     \* not_full's call count when the producer's Notified was made
  next,      \* the number each producer gives its next item
  cpc,       \* where the consumer's call is
  csnap,     \* not_empty's call count when the consumer's Notified was made
  want,      \* the position the consumer waits for, the head is 1
  held,      \* items peeked and not committed: the batches in flight
  owed,      \* not_full notifications the consumer still has to send
  taken,     \* items that left through commit, pop, pop_many or take_all
  dropped,   \* items counted as dropped, by reason
  returned,  \* items of cancelled push calls, still the caller's to count
  closepc,   \* how far the running close call is
  closes     \* close calls made

bufVars  == <<items, reserved, weight, lock>>
pushVars == <<ppc, batch, psnap, next, returned>>
takeVars == <<cpc, csnap, want, held, owed, taken>>
closeVars == <<closed, closepc, closes>>
confVars == <<policy, style>>
vars == <<confVars, bufVars, notEmpty, notFull, pushVars, takeVars, dropped, closeVars>>

Item == [from : Producers, num : Nat, w : Weights]
Reasons == {"overflow_oldest", "overflow_newest", "shutdown"}
Procs == Producers \cup {Consumer}

-----------------------------------------------------------------------------
(* InMemoryBuffer: pure operators over the items, the reservation, the sum. *)

SatAdd(a, b) == IF a + b > WeightCeiling THEN WeightCeiling ELSE a + b
PlainSub(a, b) == a - b
SatSub(a, b) == IF a - b \in 0..a THEN a - b ELSE 0

\* The true sum of the weights of the n items of s after the first r.
WeightOf(s, r, n) ==
  LET sum[i \in 0..n] == IF i = 0 THEN 0 ELSE sum[i - 1] + s[r + i].w IN sum[n]

\* would_overflow with k items of total weight out already removed.
WouldOverflow(k, out, w) ==
  \/ Len(items) - k >= MaxItems
  \/ SatAdd(SatSub(weight, out), w) > MaxWeight
Full(w) == WouldOverflow(0, 0, w)

\* items[..reserved] is never evicted.
NothingProtected == 0
Protected == reserved

EvictsNothing(k, w) == k = 0

\* evict_to_fit removes exactly k items past the reserved prefix for weight w:
\* the first count that makes it fit, or all of them.
EvictsToFit(k, w) ==
  /\ \A j \in 0..(k - 1) : WouldOverflow(j, WeightOf(items, Protected, j), w)
  /\ \/ k = Len(items) - Protected
     \/ ~WouldOverflow(k, WeightOf(items, Protected, k), w)

\* s without the k items that follow its first r.
Without(s, r, k) == [i \in 1..(Len(s) - k) |-> IF i <= r THEN s[i] ELSE s[i + k]]

\* InMemoryBuffer::push, with the drops its caller counts.
BufferPush(x) ==
  \/ /\ ~Full(x.w)
     /\ items' = Append(items, x)
     /\ weight' = SatAdd(weight, x.w)
     /\ UNCHANGED dropped
  \/ /\ Full(x.w)
     /\ policy # "drop_newest"
     /\ \E k \in 0..(Len(items) - Protected) :
          /\ EvictsToFit(k, x.w)
          /\ items' = Append(Without(items, Protected, k), x)
          /\ weight' = SatAdd(SatSub(weight, WeightOf(items, Protected, k)), x.w)
          /\ dropped' = [dropped EXCEPT !["overflow_oldest"] =
                           @ \cup {items[Protected + i] : i \in 1..k}]
  \/ /\ Full(x.w)
     /\ policy = "drop_newest"
     /\ dropped' = [dropped EXCEPT !["overflow_newest"] = @ \cup {x}]
     /\ UNCHANGED <<items, weight>>

CommitKeepsWeight(n) ==
  /\ items' = SubSeq(items, n + 1, Len(items))
  /\ reserved' = SatSub(reserved, n)
  /\ UNCHANGED weight

CommitFromBack(n) ==
  /\ items' = SubSeq(items, 1, Len(items) - n)
  /\ reserved' = SatSub(reserved, n)
  /\ weight' = SatSub(weight, WeightOf(items, Len(items) - n, n))

\* InMemoryBuffer::commit, n times under one lock.
BufferCommit(n) ==
  /\ items' = SubSeq(items, n + 1, Len(items))
  /\ reserved' = SatSub(reserved, n)
  /\ weight' = SatSub(weight, WeightOf(items, 0, n))

-----------------------------------------------------------------------------
(* push and push_many. *)

AlwaysFits(w) == FALSE
NeverFits(w) == w > MaxWeight \/ MaxItems = 0

WaitsOnCountOnly(w) ==
  policy = "block" /\ Len(items) >= MaxItems /\ ~NeverFits(w) /\ ~closed

\* A block push waits: no room, room possible, and nobody closed the queue.
MustWait(w) == policy = "block" /\ Full(w) /\ ~NeverFits(w) /\ ~closed

\* The numbered items a call of n items by p brings, with weights ws.
NewItems(p, ws) == [i \in 1..Len(ws) |-> [from |-> p, num |-> next[p] + i - 1, w |-> ws[i]]]

\* A call of push or push_many, up to the construction of its first Notified.
CallPush(p, ws) ==
  /\ ppc[p] = "idle"
  /\ next[p] + Len(ws) <= MaxPushed + 1
  /\ batch' = [batch EXCEPT ![p] = NewItems(p, ws)]
  /\ next' = [next EXCEPT ![p] = @ + Len(ws)]
  /\ psnap' = [psnap EXCEPT ![p] = notFull.gen]
  /\ ppc' = [ppc EXCEPT ![p] = "admit"]
  /\ UNCHANGED <<confVars, bufVars, notEmpty, notFull, returned, takeVars, dropped, closeVars>>

\* A sink's queue is filled by push, a listener's receive queue by push_many.
Push(p) == style = "sink" /\ \E w \in Weights : CallPush(p, <<w>>)
PushMany(p) ==
  style = "listener" /\ \E n \in 1..MaxBatch : \E ws \in [1..n -> Weights] : CallPush(p, ws)

\* Where a call that must wait goes: push_many announces what it admitted first.
BeforeWait == IF style = "listener" THEN "prewait" ELSE "poll"

\* The next item of p's call under the lock: admitted, shed or left to wait.
\* push_many keeps the lock from item to item and announces what it admitted
\* before it waits; push waits at once.
Admit(p) ==
  /\ ppc[p] = "admit"
  /\ lock \in {Nobody, p}
  /\ LET x == Head(batch[p]) IN
       \/ /\ MustWait(x.w)
          /\ lock' = Nobody
          /\ ppc' = [ppc EXCEPT ![p] = BeforeWait]
          /\ UNCHANGED <<items, weight, batch, dropped>>
       \/ /\ ~MustWait(x.w)
          /\ BufferPush(x)
          /\ batch' = [batch EXCEPT ![p] = Tail(@)]
          /\ IF Tail(batch[p]) = <<>>
             THEN lock' = Nobody /\ ppc' = [ppc EXCEPT ![p] = "announce"]
             ELSE lock' = p /\ UNCHANGED ppc
  /\ UNCHANGED <<confVars, reserved, notEmpty, notFull, psnap, next, returned,
                 takeVars, closeVars>>

\* not_empty.notify_one(), at the end of the call or before push_many waits.
Announce(p) ==
  /\ ppc[p] \in {"announce", "prewait"}
  /\ notEmpty' = NotifyOne(notEmpty)
  /\ ppc' = [ppc EXCEPT ![p] = IF @ = "announce" THEN "idle" ELSE "poll"]
  /\ UNCHANGED <<confVars, bufVars, notFull, batch, psnap, next, returned, takeVars,
                 dropped, closeVars>>

\* The wait's first poll: it resolves at once, and the loop makes its next
\* Notified, or the producer parks.
PollNotFull(p) ==
  /\ ppc[p] = "poll"
  /\ notFull' = FirstPoll(notFull, p, psnap[p])
  /\ IF ReadyAtFirstPoll(notFull, psnap[p])
     THEN /\ ppc' = [ppc EXCEPT ![p] = "admit"]
          /\ psnap' = [psnap EXCEPT ![p] = notFull.gen]
     ELSE /\ ppc' = [ppc EXCEPT ![p] = "parked"]
          /\ UNCHANGED psnap
  /\ UNCHANGED <<confVars, bufVars, notEmpty, batch, next, returned, takeVars,
                 dropped, closeVars>>

\* A parked producer re-checks: it was woken.
WakePush(p) ==
  /\ ppc[p] = "parked"
  /\ Woken(notFull, p)
  /\ notFull' = Resume(notFull, p)
  /\ ppc' = [ppc EXCEPT ![p] = "admit"]
  /\ psnap' = [psnap EXCEPT ![p] = notFull.gen]
  /\ UNCHANGED <<confVars, bufVars, notEmpty, batch, next, returned, takeVars,
                 dropped, closeVars>>

\* The gauge-refresh tick of FullWatch::wait ends the wait without a wake-up.
TickPush(p) ==
  /\ ppc[p] = "parked"
  /\ ~Woken(notFull, p)
  /\ notFull' = DropNotified(notFull, p)
  /\ ppc' = [ppc EXCEPT ![p] = "admit"]
  /\ psnap' = [psnap EXCEPT ![p] = notFull.gen]
  /\ UNCHANGED <<confVars, bufVars, notEmpty, batch, next, returned, takeVars,
                 dropped, closeVars>>

\* What CountedDrain still holds when it drops, the peeked item included.
Unreached(p) == ToSet(batch[p])

\* The call's future is dropped while it waits.  push_many's CountedDrain
\* counts the items it never reached; push's item is its caller's to count.
CancelPush(p) ==
  /\ ppc[p] = "parked"
  /\ notFull' = DropNotified(notFull, p)
  /\ IF style = "listener"
     THEN /\ dropped' = [dropped EXCEPT !["shutdown"] = @ \cup Unreached(p)]
          /\ UNCHANGED returned
     ELSE /\ returned' = returned \cup ToSet(batch[p])
          /\ UNCHANGED dropped
  /\ batch' = [batch EXCEPT ![p] = <<>>]
  /\ ppc' = [ppc EXCEPT ![p] = "idle"]
  /\ UNCHANGED <<confVars, bufVars, notEmpty, psnap, next, takeVars, closeVars>>

-----------------------------------------------------------------------------
(* The consumer. *)

\* SinkQueue::max_in_flight, which a write loop stays within.
MaxInFlight == IF MaxItems = 0 THEN 1 ELSE MaxItems

\* A call of peek (position 1) or wait_at (the position after what is held),
\* or of pop/pop_many, up to its Notified.
StartTake(n) ==
  /\ cpc = "idle"
  /\ want' = n
  /\ csnap' = notEmpty.gen
  /\ cpc' = "check"
  /\ UNCHANGED <<confVars, bufVars, notEmpty, notFull, pushVars, held, owed, taken,
                 dropped, closeVars>>

StartPeek == style = "sink" /\ StartTake(1)
StartWaitAt == /\ style = "sink"
               /\ Len(held) \in 1..(MaxInFlight - 1)
               /\ StartTake(Len(held) + 1)
StartPop == style = "listener" /\ StartTake(1)

\* InMemoryBuffer::peek_at(n - 1) for an item that is there.
Reserve(n) ==
  /\ reserved' = IF reserved < n THEN n ELSE reserved
  /\ held' = IF n > Len(held) THEN Append(held, items[n]) ELSE held
  /\ UNCHANGED <<items, weight, lock>>

\* How many not_full notifications removing n items owes: one each.
NoticeOnlyWhenEmptied(n) == IF Len(items) = n THEN n ELSE 0
RoomNotices(n) == n

\* The consumer's locked check: it returns the item with its prefix reserved,
\* or removes up to MaxBatch items, or finds the queue closed, or waits.
CheckTake ==
  /\ cpc = "check"
  /\ lock = Nobody
  /\ \/ /\ style = "sink" /\ Len(items) >= want
        /\ Reserve(want)
        /\ cpc' = "idle"
        /\ UNCHANGED <<owed, taken>>
     \/ /\ style = "listener" /\ items # <<>>
        /\ \E n \in 1..MaxBatch :
             /\ n <= Len(items)
             /\ BufferCommit(n)
             /\ taken' = taken \o SubSeq(items, 1, n)
             /\ owed' = RoomNotices(n)
             /\ cpc' = IF owed' = 0 THEN "idle" ELSE "notify"
        /\ UNCHANGED <<held, lock>>
     \/ /\ Len(items) < want
        /\ cpc' = IF ~closed THEN "poll" ELSE IF want = 1 THEN "done" ELSE "idle"
        /\ UNCHANGED <<bufVars, held, owed, taken>>
  /\ UNCHANGED <<confVars, notEmpty, notFull, pushVars, csnap, want, dropped, closeVars>>

\* The wait's first poll resolves at once or parks the consumer.
PollNotEmpty ==
  /\ cpc = "poll"
  /\ notEmpty' = FirstPoll(notEmpty, Consumer, csnap)
  /\ IF ReadyAtFirstPoll(notEmpty, csnap)
     THEN cpc' = "check" /\ csnap' = notEmpty.gen
     ELSE cpc' = "parked" /\ UNCHANGED csnap
  /\ UNCHANGED <<confVars, bufVars, notFull, pushVars, want, held, owed, taken, dropped,
                 closeVars>>

WakeConsumer ==
  /\ cpc = "parked"
  /\ Woken(notEmpty, Consumer)
  /\ notEmpty' = Resume(notEmpty, Consumer)
  /\ cpc' = "check"
  /\ csnap' = notEmpty.gen
  /\ UNCHANGED <<confVars, bufVars, notFull, pushVars, want, held, owed, taken, dropped,
                 closeVars>>

\* The waiting call ends without an item: wait_at's deadline or the pressure
\* signal, or the select! that holds the call took another arm.
AbandonWait ==
  /\ cpc = "parked"
  /\ notEmpty' = DropNotified(notEmpty, Consumer)
  /\ cpc' = "idle"
  /\ UNCHANGED <<confVars, bufVars, notFull, pushVars, csnap, want, held, owed, taken,
                 dropped, closeVars>>

\* peek_at: the item after those in flight, if it is queued; never waits.
PeekAt ==
  /\ style = "sink" /\ cpc = "idle"
  /\ lock = Nobody
  /\ Len(held) \in 1..(MaxInFlight - 1)
  /\ Len(items) > Len(held)
  /\ Reserve(Len(held) + 1)
  /\ UNCHANGED <<confVars, notEmpty, notFull, pushVars, cpc, csnap, want, owed, taken,
                 dropped, closeVars>>

\* commit of the oldest batch in flight, delivered or given up.
Commit ==
  /\ style = "sink" /\ cpc = "idle"
  /\ lock = Nobody
  /\ held # <<>>
  /\ BufferCommit(1)
  /\ held' = Tail(held)
  /\ taken' = Append(taken, Head(items))
  /\ owed' = RoomNotices(1)
  /\ cpc' = IF owed' = 0 THEN "idle" ELSE "notify"
  /\ UNCHANGED <<confVars, lock, notEmpty, notFull, pushVars, csnap, want, dropped, closeVars>>

\* not_full.notify_one(), once per item removed.
NotifyRoom ==
  /\ cpc = "notify"
  /\ notFull' = NotifyOne(notFull)
  /\ owed' = owed - 1
  /\ cpc' = IF owed = 1 THEN "idle" ELSE "notify"
  /\ UNCHANGED <<confVars, bufVars, notEmpty, pushVars, csnap, want, held, taken, dropped,
                 closeVars>>

\* take_all, the residual drain once no other future of the queue is alive.
TakeAll ==
  /\ style = "listener" /\ cpc = "idle"
  /\ \A p \in Producers : ppc[p] = "idle"
  /\ closed /\ closepc = "open"
  /\ BufferCommit(Len(items))
  /\ taken' = taken \o items
  /\ cpc' = "done"
  /\ UNCHANGED <<confVars, lock, notEmpty, notFull, pushVars, csnap, want, held, owed,
                 dropped, closeVars>>

-----------------------------------------------------------------------------
(* close: the flag, then both notify_waiters calls. *)

Close ==
  /\ closepc = "open" /\ closes < MaxCloses
  /\ closed' = TRUE
  /\ closes' = closes + 1
  /\ closepc' = "flagged"
  /\ UNCHANGED <<confVars, bufVars, notEmpty, notFull, pushVars, takeVars, dropped>>

CloseForgetsConsumer ==
  /\ closepc = "flagged"
  /\ closepc' = "half"
  /\ UNCHANGED <<confVars, bufVars, notEmpty, notFull, pushVars, takeVars, dropped, closed, closes>>

CloseWakeConsumer ==
  /\ closepc = "flagged"
  /\ notEmpty' = NotifyWaiters(notEmpty)
  /\ closepc' = "half"
  /\ UNCHANGED <<confVars, bufVars, notFull, pushVars, takeVars, dropped, closed, closes>>

CloseWakeProducers ==
  /\ closepc = "half"
  /\ notFull' = NotifyWaiters(notFull)
  /\ closepc' = "open"
  /\ UNCHANGED <<confVars, bufVars, notEmpty, pushVars, takeVars, dropped, closed, closes>>

-----------------------------------------------------------------------------

Init ==
  /\ policy \in Policies /\ style \in Styles
  /\ items = <<>> /\ reserved = 0 /\ weight = 0 /\ closed = FALSE /\ lock = Nobody
  /\ notEmpty = NewNotify /\ notFull = NewNotify
  /\ ppc = [p \in Producers |-> "idle"]
  /\ batch = [p \in Producers |-> <<>>]
  /\ psnap = [p \in Producers |-> 0]
  /\ next = [p \in Producers |-> 1]
  /\ cpc = "idle" /\ csnap = 0 /\ want = 1 /\ held = <<>> /\ owed = 0 /\ taken = <<>>
  /\ dropped = [r \in Reasons |-> {}]
  /\ returned = {}
  /\ closepc = "open" /\ closes = 0

PushStep(p) == \/ Admit(p) \/ Announce(p) \/ PollNotFull(p) \/ WakePush(p) \/ TickPush(p)
TakeStep == CheckTake \/ PollNotEmpty \/ WakeConsumer \/ NotifyRoom
CloseStep == CloseWakeConsumer \/ CloseWakeProducers

Next ==
  \/ \E p \in Producers : Push(p) \/ PushMany(p) \/ CancelPush(p)
  \/ \E p \in Producers : PushStep(p)
  \/ StartPeek \/ StartWaitAt \/ StartPop \/ PeekAt \/ Commit \/ TakeAll \/ AbandonWait
  \/ TakeStep
  \/ Close \/ CloseStep

\* A runtime polls every woken task and runs every call to its next await; the
\* consumer keeps asking for the head, and a sink's destination keeps settling
\* it, so the write loop commits again and again what it holds; wait_at has a
\* deadline.
Fairness ==
  /\ \A p \in Producers : WF_vars(PushStep(p))
  /\ WF_vars(TakeStep)
  /\ WF_vars(StartPeek \/ StartPop)
  /\ SF_vars(Commit)
  /\ WF_vars(want > 1 /\ AbandonWait)
  /\ WF_vars(CloseStep)

Spec == Init /\ [][Next]_vars
FairSpec == Spec /\ Fairness

-----------------------------------------------------------------------------
(* Properties. *)

TypeOK ==
  /\ policy \in Policies /\ style \in Styles
  /\ items \in Seq(Item) /\ reserved \in Nat /\ weight \in 0..WeightCeiling
  /\ closed \in BOOLEAN /\ lock \in Producers \cup {Nobody}
  /\ notEmpty \in NotifyType(Procs) /\ notFull \in NotifyType(Procs)
  /\ ppc \in [Producers -> {"idle", "admit", "announce", "prewait", "poll", "parked"}]
  /\ batch \in [Producers -> Seq(Item)]
  /\ psnap \in [Producers -> Nat] /\ next \in [Producers -> Nat]
  /\ cpc \in {"idle", "check", "poll", "parked", "notify", "done"}
  /\ csnap \in Nat /\ want \in Nat \ {0} /\ held \in Seq(Item) /\ owed \in Nat
  /\ taken \in Seq(Item)
  /\ dropped \in [Reasons -> SUBSET Item] /\ returned \in SUBSET Item
  /\ closepc \in {"open", "flagged", "half"} /\ closes \in Nat

\* The batches a write loop has in flight are exactly the reserved prefix of
\* the queue, in order, so a push between peek and commit never evicts one and
\* commit removes the batch that was delivered (Buffer::peek, Buffer::peek_at).
InFlightIsPrefix ==
  /\ reserved = Len(held)
  /\ Len(held) <= Len(items)
  /\ \A i \in 1..Len(held) : items[i] = held[i]

\* A consumer that stays within max_in_flight keeps the queue at most one item
\* over max_items, however pushes, evictions and a racing close interleave
\* (SinkQueue::max_in_flight's doc), and over it only while the other max_items
\* items are all in flight, so that evict_to_fit had nothing it may take.
AtMostOneOver ==
  MaxItems > 0 =>
    Len(items) <= MaxItems \/ (Len(items) = MaxItems + 1 /\ reserved = MaxItems)

\* Where an item a producer numbered can be: admitted and not evicted, in the order
\* it entered, counted as dropped, or still carried by a call.
Line == taken \o items
Shed == UNION {dropped[r] : r \in Reasons}
Unadmitted == UNION {ToSet(batch[p]) : p \in Producers}
Everywhere == ToSet(Line) \cup returned \cup Shed \cup Unadmitted

\* Every item handed to push or push_many is in exactly one place: still in the
\* call, queued, taken, handed back by a cancelled push, or counted under
\* exactly one drop reason (CountedDrain's and push_many's accounting).
ExactlyOnePlace ==
  /\ \A p \in Producers : {x.num : x \in {y \in Everywhere : y.from = p}} = 1..(next[p] - 1)
  /\ \A x, y \in Everywhere : x.from = y.from /\ x.num = y.num => x = y
  /\ IsInjective(Line) /\ \A p \in Producers : IsInjective(batch[p])
  /\ ToSet(Line) \cap (returned \cup Shed \cup Unadmitted) = {}
  /\ returned \cap (Shed \cup Unadmitted) = {} /\ Shed \cap Unadmitted = {}
  /\ \A r, q \in Reasons : r # q => dropped[r] \cap dropped[q] = {}
  /\ \A p, q \in Producers : p # q => ToSet(batch[p]) \cap ToSet(batch[q]) = {}

\* One producer's items leave the queue in the order it numbered them, which is
\* what lets the native hop's receiver keep one high mark per sender
\* (Numbering::next: "numbers follow push order").
LeaveInPushOrder ==
  \A i, j \in 1..Len(Line) :
    i < j /\ Line[i].from = Line[j].from => Line[i].num < Line[j].num

\* The saturating sum never exceeds the true one, so an empty queue weighs 0
\* and a block push never waits on it; it is exact while nothing saturated
\* (InMemoryBuffer::weight's comment).
WeightIsSound ==
  /\ weight <= WeightOf(items, 0, Len(items))
  /\ SumFunction([x \in Everywhere |-> x.w]) <= WeightCeiling
       => weight = WeightOf(items, 0, Len(items))

\* The comment on InMemoryBuffer::weight: the sum is "exact whenever the true
\* sum fits in a u64".
ExactWheneverItFits ==
  WeightOf(items, 0, Len(items)) <= WeightCeiling => weight = WeightOf(items, 0, Len(items))

\* Under block nothing is shed before close, unless an item too heavy for the
\* whole queue was pushed (BoundedQueue::push's never-fits fallback).
BlockKeepsEverything ==
  policy = "block" /\ ~closed
    /\ (\A x \in Everywhere : ~NeverFits(x.w))
  => dropped["overflow_oldest"] \cup dropped["overflow_newest"] = {}

\* Somebody is about to notify not_empty.
AnnouncementPending ==
  \/ \E p \in Producers : ppc[p] \in {"announce", "prewait"} \/ lock = p
  \/ closepc = "flagged"

\* No wake-up is lost.  The consumer never sleeps on an item it waits for, or on a
\* closed queue, unless somebody is still about to wake it: Notified is made before
\* the check it guards, and push_many announces before it waits.  And a lone producer
\* never sleeps on room for its next item, or on a closed queue, unless the consumer
\* or close is still about to wake it.
NoLostWakeup ==
  /\ cpc = "parked" /\ ~Woken(notEmpty, Consumer) /\ (Len(items) >= want \/ closed)
       => AnnouncementPending
  /\ \A p \in Producers :
       /\ Cardinality(Producers) = 1 /\ ppc[p] = "parked" /\ ~Woken(notFull, p)
       /\ ~Full(Head(batch[p]).w) \/ closed
       => cpc = "notify" \/ closepc \in {"flagged", "half"}

\* Every push and push_many call returns while the consumer keeps taking.
EveryPushReturns == \A p \in Producers : ppc[p] # "idle" ~> ppc[p] = "idle"

\* A closed queue is drained and its consumer told so.
CloseEndsTheConsumer == closed ~> cpc = "done"
=============================================================================
