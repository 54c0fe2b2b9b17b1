------------------------- MODULE SinkDeliveryProofs -------------------------
(***************************************************************************)
(* Proofs about SinkDelivery: the sink node keeps every batch it received in *)
(* exactly one place, hands its sink a prefix of the store, observes a batch *)
(* once, never makes an at-most-once destination apply a batch twice, and    *)
(* implements SinkContract, for every store bound, window and number of      *)
(* batches.                                                                 *)
(***************************************************************************)
EXTENDS SinkDelivery, SequenceFacts

-----------------------------------------------------------------------------
(* The inductive invariant. *)

AllDropped == UNION {dropped[r] : r \in Reasons}

\* Where upstream, drain_inbox and run_output are, one relative to the other.
HandOver ==
  /\ permit => next <= NBatches
  /\ Len(inHand) <= 1
  /\ dpc = "recv" => inHand = <<>>
  /\ dpc = "push" => inHand # <<>>
  /\ rpc # "run" => wpc = "gone" /\ dpc = "done" /\ closed
  /\ rpc \in {"sweep", "finish", "done"} => inHand = <<>>
  /\ rpc \in {"finish", "done"} => inbox = <<>> /\ abandoned = {}
  /\ rpc = "done" /\ Memory => items = <<>>
  /\ strayed # {} => ~permit /\ rpc \in {"finish", "done"}
  /\ \A b, c \in strayed : b = c
  /\ ~Memory => abandoned = {}

\* Batches stay in the order upstream sent them, from the inbox to delivery.
InOrder ==
  /\ Ascending(delivered) /\ Ascending(items) /\ Ascending(inbox)
  /\ Precedes(ToSet(delivered), ToSet(items) \cup ToSet(inHand) \cup ToSet(inbox))
  /\ Precedes(ToSet(items), ToSet(inHand) \cup ToSet(inbox))
  /\ Precedes(ToSet(inHand), ToSet(inbox))
  /\ \A i \in 1..Len(items) : items[i] >= i

\* A batch is in one place, and everything sent so far is in some place.
Within == ToSet(delivered) \cup ToSet(items) \cup ToSet(inHand)
OnePlace ==
  /\ \A r, q \in Reasons : r # q => dropped[r] \cap dropped[q] = {}
  /\ AllDropped \cap (Within \cup ToSet(inbox) \cup abandoned) = {}
  /\ abandoned \cap (Within \cup ToSet(inbox)) = {}
  /\ received = Within \cup abandoned \cup AllDropped
  /\ received \cup ToSet(inbox) \cup strayed = 1..(next - 1)

Collects == conf.sink = "collecting"

\* The head is on the send path.
OnSendPath == wpc \in {"attempt", "sending"} \/ (wpc = "backoff" /\ fast)

\* The head came back from the sink alone and waits for its resubmit.
Gap == IF wpc \in {"backoff", "round", "resubmitting"} /\ resubmit /\ fl.out > 0 THEN 1 ELSE 0

\* What the sink has is what the window says: the store's first items.
WindowInv ==
  /\ reserved <= Len(items)
  /\ resubmit => conf.sink = "windowed"
  /\ wpc = "gone" => snk.sub = <<>>
  /\ wpc # "gone" =>
       /\ fl.out <= fl.observed /\ fl.observed <= reserved
       /\ Len(snk.sub) = fl.out - Gap
       /\ \A i \in 1..(fl.out - Gap) : snk.sub[i] = items[i + Gap]
       /\ wpc # "peek" => reserved > 0
       /\ OnSendPath => fast /\ fl.out = 0 /\ fl.observed = 0
       /\ wpc \in {"round", "resubmitting", "fill", "submitting", "waiting", "acking"} => ~fast
       /\ wpc = "submitting" => fl.out < fl.observed
       /\ wpc \in {"resubmitting", "waiting", "acking"} => fl.out > 0
       /\ wpc = "resubmitting" => resubmit

\* A collecting sink's window: open while it fills, then closed, uploaded as one
\* object, and answered batch by batch.
CollectInv ==
  /\ ~Collects => ~snk.visible /\ snk.owed = 0 /\ ~snk.full /\ ~fl.collecting /\ ~fl.closed
  /\ Collects /\ wpc # "gone" =>
       /\ fl.collecting => ~fl.closed /\ fl.out > 0 /\ wpc \in {"fill", "submitting", "waiting"}
       /\ fl.closed => fl.out > 0 /\ (wpc = "acking" \/ snk.owed > 0)
       /\ snk.full => fl.out > 0 /\ wpc \in {"fill", "acking"}
       /\ fl.out > 0 /\ ~fl.collecting /\ ~fl.closed => fl.out = 1 /\ (snk.full \/ wpc = "acking")
       /\ snk.visible /\ fl.out > 0 => wpc = "acking" \/ snk.owed > 0
       /\ wpc = "waiting" => fl.collecting
       /\ wpc = "submitting" => ~snk.visible
  /\ snk.owed > 0 =>
       /\ snk.owed = fl.out /\ snk.visible /\ fl.closed
       /\ wpc \in {"peek", "round", "fill", "acking"}
       /\ wpc # "peek" => owedArm

\* How many of the store's first items were observed.
ObservedCount == IF OnSendPath THEN 1 ELSE fl.observed

\* Exactly the store's observed prefix was observed, and nothing behind it.
ObserveInv ==
  /\ \A b \in Batch : seen[b] <= 1 /\ (b \in exposed => seen[b] = 1)
  /\ wpc # "gone" =>
       /\ \A i \in 1..Len(items) : seen[items[i]] = IF i <= ObservedCount THEN 1 ELSE 0
       /\ \A b \in Batch : b \in ToSet(inHand) \cup ToSet(inbox) \/ b >= next => seen[b] = 0

\* What left the process may have reached the destination.
ExposeInv ==
  wpc # "gone" =>
    /\ ~Collects \/ snk.visible => \A i \in 1..fl.out : items[i] \in exposed
    /\ wpc = "submitting" /\ ~Collects => items[fl.out + 1] \in exposed
    /\ wpc = "sending" => items[1] \in exposed

\* Batches whose answer a collecting sink still owes: applied already.
Answered == IF snk.owed > 0 THEN ToSet(snk.sub) ELSE {}

\* Under at-most-once an applied batch is settled, or its answer is owed.
LandInv ==
  /\ \A b \in Answered : landed[b] > 0
  /\ AtMostOnce => \A b \in Batch :
       landed[b] <= 1 /\ (landed[b] > 0 => b \in ToSet(delivered) \cup AllDropped \cup Answered)

IInv ==
  /\ TypeOK /\ HandOver /\ InOrder /\ OnePlace /\ WindowInv /\ CollectInv
  /\ ObserveInv /\ ExposeInv /\ LandInv /\ DiskKeepsAtShutdown

-----------------------------------------------------------------------------
(* The store and the ledger of batches. *)

\* Batches are positive integers.
LEMMA BatchFacts == Batch \in SUBSET Int /\ \A b \in Batch : b >= 1 /\ b <= NBatches
BY SinkAssumption DEF Batch

\* What one commit of the store's first k items changes.
LEMMA CommitEffect ==
  ASSUME items \in Seq(Batch), reserved \in Nat, reserved <= Len(items),
         NEW k \in 0..Len(items), Committed(k)
  PROVE  /\ items' \in Seq(Batch) /\ Len(items') = Len(items) - k
         /\ \A i \in 1..(Len(items) - k) : items'[i] = items[i + k]
         /\ First(k) = {items[i] : i \in 1..k}
         /\ First(k) \subseteq ToSet(items)
         /\ ToSet(items) = ToSet(items') \cup First(k)
         /\ First(k) \subseteq Batch
         /\ reserved' \in Nat /\ reserved' <= Len(items')
         /\ reserved' = IF reserved > k THEN reserved - k ELSE 0
         /\ closed' = closed
<1>1. items' = SubSeq(items, k + 1, Len(items)) /\ closed' = closed
      /\ reserved' = IF reserved > k THEN reserved - k ELSE 0
  BY DEF Committed
<1>2. /\ items' \in Seq(Batch) /\ Len(items') = Len(items) - k
      /\ \A i \in 1..(Len(items) - k) : items'[i] = items[i + k]
      /\ ToSet(items) = ToSet(items') \cup {items[i] : i \in 1..k}
  BY <1>1, RestFacts
<1>3. First(k) = {items[i] : i \in 1..k}
  <2>1. (1..k) \cap DOMAIN items = 1..k
    OBVIOUS
  <2> QED
    BY <2>1 DEF First
<1>4. ToSet(items) \subseteq Batch
  BY ToSetByIndex
<1> QED
  BY <1>1, <1>2, <1>3, <1>4

\* Committed batches were queued in front of the ones that are left.
LEMMA CommitOrder ==
  ASSUME items \in Seq(Batch), NEW k \in 0..Len(items), Committed(k), Ascending(items)
  PROVE  Ascending(items') /\ Precedes(First(k), ToSet(items'))
<1>1. items' = SubSeq(items, k + 1, Len(items))
  BY DEF Committed
<1>2. First(k) = {items[i] : i \in 1..k}
  <2>1. (1..k) \cap DOMAIN items = 1..k
    OBVIOUS
  <2> QED
    BY <2>1 DEF First
<1>3. Ascending(SubSeq(items, k + 1, Len(items)))
      /\ Precedes({items[i] : i \in 1..k}, ToSet(SubSeq(items, k + 1, Len(items))))
  BY RestAscending, BatchFacts
<1> QED
  BY <1>1, <1>2, <1>3

\* Dropping bs for reason r adds them to what was dropped.
LEMMA DropEffect ==
  ASSUME dropped \in [Reasons -> SUBSET Batch], NEW r \in Reasons, NEW bs \in SUBSET Batch,
         Drop(r, bs)
  PROVE  /\ dropped' \in [Reasons -> SUBSET Batch]
         /\ AllDropped' = AllDropped \cup bs
         /\ dropped'[r] = dropped[r] \cup bs
         /\ \A q \in Reasons : q # r => dropped'[q] = dropped[q]
<1>1. dropped' = [dropped EXCEPT ![r] = dropped[r] \cup bs]
  BY DEF Drop
<1>2. /\ dropped' \in [Reasons -> SUBSET Batch]
      /\ dropped'[r] = dropped[r] \cup bs
      /\ \A q \in Reasons : q # r => dropped'[q] = dropped[q]
  BY <1>1
<1>3. ASSUME NEW b PROVE b \in AllDropped' <=> b \in AllDropped \cup bs
  BY <1>2 DEF AllDropped
<1> QED
  BY <1>2, <1>3

\* A reason's batches are among the dropped ones.
LEMMA DroppedIsUnion ==
  ASSUME dropped \in [Reasons -> SUBSET Batch]
  PROVE  /\ AllDropped \subseteq Batch
         /\ \A r \in Reasons : dropped[r] \subseteq AllDropped
         /\ \A b : b \in AllDropped <=> \E r \in Reasons : b \in dropped[r]
BY DEF AllDropped

\* What the destination applies is counted once per batch.
LEMMA LandEffect ==
  ASSUME landed \in [Batch -> Nat], NEW bs, Land(bs)
  PROVE  /\ landed' \in [Batch -> Nat]
         /\ \A b \in Batch : landed'[b] = IF b \in bs THEN landed[b] + 1 ELSE landed[b]
BY DEF Land

\* The ledger's variables outside the store.
ledgerVars == <<next, inbox, inHand, abandoned, received, strayed>>

\* The write loop delivers the head.
Delivers ==
  /\ Committed(1) /\ delivered' = Append(delivered, HeadItem) /\ UNCHANGED dropped

\* The write loop gives up the store's first n items for reason r.
GivesUp(n, r) ==
  /\ Committed(n) /\ Drop(r, First(n)) /\ UNCHANGED delivered

\* A member of a set that precedes another is not in the other.
LEMMA PrecedesApart ==
  ASSUME NEW S \in SUBSET Int, NEW T \in SUBSET Int, Precedes(S, T)
  PROVE  S \cap T = {}
<1> SUFFICES ASSUME NEW x \in S \cap T PROVE FALSE
  OBVIOUS
<1>1. x < x /\ x \in Int
  BY DEF Precedes
<1> QED
  BY <1>1

\* The contents of the channels and of the store, as sets of batches.
LEMMA ContentsFacts ==
  ASSUME TypeOK
  PROVE  /\ items \in Seq(Batch) /\ inHand \in Seq(Batch) /\ inbox \in Seq(Batch)
         /\ delivered \in Seq(Batch)
         /\ ToSet(items) \in SUBSET Int /\ ToSet(inHand) \in SUBSET Int
         /\ ToSet(inbox) \in SUBSET Int /\ ToSet(delivered) \in SUBSET Int
         /\ ToSet(items) \subseteq Batch /\ ToSet(inHand) \subseteq Batch
         /\ ToSet(inbox) \subseteq Batch /\ ToSet(delivered) \subseteq Batch
<1>1. /\ items \in Seq(Batch) /\ inHand \in Seq(Batch) /\ inbox \in Seq(Batch)
      /\ delivered \in Seq(Batch)
  BY DEF TypeOK
<1>2. /\ ToSet(items) \subseteq Batch /\ ToSet(inHand) \subseteq Batch
      /\ ToSet(inbox) \subseteq Batch /\ ToSet(delivered) \subseteq Batch
  BY <1>1, ToSetByIndex
<1> QED
  BY <1>1, <1>2, BatchFacts

\* Delivering the head keeps every batch in its one place and the order.
LEMMA DeliversKeepsPlaces ==
  ASSUME IInv, items # <<>>, Delivers, UNCHANGED ledgerVars
  PROVE  InOrder' /\ OnePlace' /\ delivered' \in Seq(Batch)
         /\ ToSet(delivered') = ToSet(delivered) \cup {HeadItem}
<1>0. TypeOK /\ InOrder /\ OnePlace /\ WindowInv
  BY DEF IInv
<1>1. /\ next' = next /\ inbox' = inbox /\ inHand' = inHand /\ abandoned' = abandoned
      /\ received' = received /\ strayed' = strayed /\ dropped' = dropped
  BY DEF ledgerVars, Delivers
<1>2. /\ items \in Seq(Batch) /\ delivered \in Seq(Batch) /\ reserved \in Nat /\ Len(items) \in Nat
      /\ 1 \in 0..Len(items) /\ reserved <= Len(items) /\ 1 \in 1..Len(items)
  <2>1. items \in Seq(Batch) /\ delivered \in Seq(Batch) /\ reserved \in Nat /\ reserved <= Len(items)
    BY <1>0 DEF TypeOK, WindowInv
  <2> QED
    BY <2>1
<1>3. HeadItem = items[1] /\ HeadItem \in Batch
  BY <1>2 DEF HeadItem
<1>4. Committed(1) /\ delivered' = Append(delivered, HeadItem)
  BY DEF Delivers
<1>5. /\ Len(items') = Len(items) - 1
      /\ \A i \in 1..(Len(items) - 1) : items'[i] = items[i + 1]
      /\ First(1) = {items[i] : i \in 1..1}
      /\ ToSet(items) = ToSet(items') \cup First(1)
  BY <1>2, <1>4, CommitEffect
<1>6. First(1) = {HeadItem}
  BY <1>3, <1>5
<1>7. Ascending(items') /\ Precedes({HeadItem}, ToSet(items'))
  BY <1>0, <1>2, <1>4, <1>6, CommitOrder DEF InOrder
<1>8. /\ delivered' \in Seq(Batch) /\ ToSet(delivered') = ToSet(delivered) \cup {HeadItem}
  BY <1>2, <1>3, <1>4, AppendFacts
<1>9. HeadItem \in ToSet(items) /\ ToSet(items') \subseteq ToSet(items)
      /\ ToSet(items) = ToSet(items') \cup {HeadItem}
  BY <1>5, <1>6
<1>10. Ascending(delivered')
  <2>1. Precedes(ToSet(delivered), {HeadItem})
    BY <1>0, <1>9 DEF InOrder, Precedes
  <2> QED
    BY <1>0, <1>2, <1>3, <1>4, <2>1, AppendAscending, BatchFacts DEF InOrder
<1>11. InOrder'
  <2>1. \A i \in 1..Len(items') : items'[i] >= i
    <3> TAKE i \in 1..Len(items')
    <3>1. i \in 1..(Len(items) - 1) /\ i + 1 \in 1..Len(items) /\ i \in Nat
      BY <1>2, <1>5
    <3>2. items[i + 1] >= i + 1
      BY <1>0, <3>1 DEF InOrder
    <3>3. items[i + 1] \in Batch
      BY <1>2, <3>1
    <3>4. items[i + 1] \in Int
      BY <3>3, BatchFacts
    <3> QED
      BY <1>5, <3>1, <3>2, <3>4
  <2>2. Precedes(ToSet(delivered'), ToSet(items') \cup ToSet(inHand) \cup ToSet(inbox))
    BY <1>0, <1>7, <1>8, <1>9 DEF InOrder, Precedes
  <2>3. Precedes(ToSet(items'), ToSet(inHand) \cup ToSet(inbox))
    BY <1>0, <1>9 DEF InOrder, Precedes
  <2> QED
    BY <1>0, <1>1, <1>7, <1>10, <2>1, <2>2, <2>3 DEF InOrder
<1>12. OnePlace'
  <2>1. Within' = Within
    BY <1>1, <1>8, <1>9 DEF Within
  <2>2. AllDropped' = AllDropped
    BY <1>1 DEF AllDropped
  <2> QED
    BY <1>0, <1>1, <2>1, <2>2 DEF OnePlace
<1> QED
  BY <1>8, <1>11, <1>12

\* So does giving up the store's first n items.
LEMMA GivesUpKeepsPlaces ==
  ASSUME IInv, NEW n \in 0..Len(items), NEW r \in Reasons, GivesUp(n, r), UNCHANGED ledgerVars
  PROVE  /\ InOrder' /\ OnePlace'
         /\ dropped' \in [Reasons -> SUBSET Batch] /\ AllDropped' = AllDropped \cup First(n)
<1>0. TypeOK /\ InOrder /\ OnePlace /\ WindowInv
  BY DEF IInv
<1>1. /\ next' = next /\ inbox' = inbox /\ inHand' = inHand /\ abandoned' = abandoned
      /\ received' = received /\ strayed' = strayed /\ delivered' = delivered
  BY DEF ledgerVars, GivesUp
<1>a. items \in Seq(Batch) /\ reserved \in Nat /\ reserved <= Len(items)
      /\ dropped \in [Reasons -> SUBSET Batch]
  BY <1>0 DEF TypeOK, WindowInv
<1>b. Len(items) \in Nat
  BY <1>a
<1>2. items \in Seq(Batch) /\ reserved \in Nat /\ Len(items) \in Nat /\ reserved <= Len(items)
      /\ dropped \in [Reasons -> SUBSET Batch] /\ n \in Nat /\ n <= Len(items)
  BY <1>a, <1>b
<1>3. Committed(n) /\ Drop(r, First(n))
  BY DEF GivesUp
<1>4. /\ Len(items') = Len(items) - n /\ items' \in Seq(Batch)
      /\ \A i \in 1..(Len(items) - n) : items'[i] = items[i + n]
      /\ First(n) \subseteq ToSet(items) /\ First(n) \subseteq Batch
      /\ ToSet(items) = ToSet(items') \cup First(n)
  BY <1>2, <1>3, CommitEffect
<1>5. Ascending(items') /\ Precedes(First(n), ToSet(items'))
  BY <1>0, <1>2, <1>3, CommitOrder DEF InOrder
<1>6. First(n) \in SUBSET Batch
  BY <1>4
<1>7. /\ dropped' \in [Reasons -> SUBSET Batch]
      /\ AllDropped' = AllDropped \cup First(n)
      /\ dropped'[r] = dropped[r] \cup First(n)
      /\ \A q \in Reasons : q # r => dropped'[q] = dropped[q]
  BY <1>2, <1>3, <1>6, DropEffect
<1>8. /\ ToSet(items) \in SUBSET Int /\ ToSet(inHand) \in SUBSET Int /\ First(n) \in SUBSET Int
      /\ ToSet(inbox) \in SUBSET Int /\ ToSet(delivered) \in SUBSET Int
      /\ ToSet(items') \in SUBSET Int
  BY <1>0, <1>4, ContentsFacts, BatchFacts
<1>9. First(n) \cap ToSet(items') = {}
  BY <1>5, <1>8, PrecedesApart
<1>10. First(n) \cap (ToSet(inHand) \cup ToSet(inbox)) = {}
  <2>1. Precedes(First(n), ToSet(inHand) \cup ToSet(inbox))
    BY <1>0, <1>4 DEF InOrder, Precedes
  <2>2. ToSet(inHand) \cup ToSet(inbox) \in SUBSET Int
    BY <1>8
  <2> QED
    BY <1>8, <2>1, <2>2, PrecedesApart
<1>11. First(n) \cap ToSet(delivered) = {}
  <2>1. Precedes(ToSet(delivered), First(n))
    BY <1>0, <1>4 DEF InOrder, Precedes
  <2> QED
    BY <1>8, <2>1, PrecedesApart
<1>12. First(n) \cap (AllDropped \cup abandoned) = {}
  BY <1>0, <1>4 DEF OnePlace, Within
<1>13. InOrder'
  <2>1. \A i \in 1..Len(items') : items'[i] >= i
    <3> TAKE i \in 1..Len(items')
    <3>1. i \in 1..(Len(items) - n) /\ i + n \in 1..Len(items) /\ i \in Nat
      BY <1>2, <1>4
    <3>2. items[i + n] >= i + n
      BY <1>0, <3>1 DEF InOrder
    <3>3. items[i + n] \in Batch
      BY <1>2, <3>1
    <3>4. items[i + n] \in Int
      BY <3>3, BatchFacts
    <3> QED
      BY <1>2, <1>4, <3>1, <3>2, <3>4
  <2>2. ToSet(items') \subseteq ToSet(items)
    BY <1>4
  <2>3. Precedes(ToSet(delivered), ToSet(items') \cup ToSet(inHand) \cup ToSet(inbox))
    BY <1>0, <2>2 DEF InOrder, Precedes
  <2>4. Precedes(ToSet(items'), ToSet(inHand) \cup ToSet(inbox))
    BY <1>0, <2>2 DEF InOrder, Precedes
  <2> QED
    BY <1>0, <1>1, <1>5, <2>1, <2>3, <2>4 DEF InOrder
<1>14. OnePlace'
  <2>1. Within' \cup First(n) = Within /\ Within' \cap First(n) = {}
    BY <1>1, <1>4, <1>9, <1>10, <1>11 DEF Within
  <2>2. \A q \in Reasons : dropped[q] \subseteq AllDropped
    BY <1>2, DroppedIsUnion
  <2>3. \A q \in Reasons : q # r => dropped'[q] \cap dropped'[r] = {}
    BY <1>0, <1>7, <1>12, <2>2 DEF OnePlace
  <2>4. \A p, q \in Reasons : p # q => dropped'[p] \cap dropped'[q] = {}
    <3> TAKE p, q \in Reasons
    <3>1. CASE p = r
      BY <2>3, <3>1
    <3>2. CASE q = r
      BY <2>3, <3>2
    <3>3. CASE p # r /\ q # r
      BY <1>0, <1>7, <3>3 DEF OnePlace
    <3> QED
      BY <3>1, <3>2, <3>3
  <2>5. received' = Within' \cup abandoned' \cup AllDropped'
    BY <1>0, <1>1, <1>7, <2>1 DEF OnePlace
  <2>6. AllDropped' \cap (Within' \cup ToSet(inbox') \cup abandoned') = {}
    BY <1>0, <1>1, <1>7, <1>10, <1>12, <2>1 DEF OnePlace
  <2>7. abandoned' \cap (Within' \cup ToSet(inbox')) = {}
    BY <1>0, <1>1, <2>1 DEF OnePlace
  <2> QED
    BY <1>0, <1>1, <2>4, <2>5, <2>6, <2>7 DEF OnePlace
<1> QED
  BY <1>7, <1>13, <1>14

\* What SinkStore::push of b leaves: lost is given up for reason r, the rest and b
\* stay, the reserved prefix untouched.
Pushed(b, lost, r) ==
  /\ items' \in Seq(Batch) /\ reserved' = reserved /\ closed' = closed /\ reserved <= Len(items')
  /\ \A i \in 1..reserved : items'[i] = items[i]
  /\ \A i \in 1..Len(items') :
       i > reserved => items'[i] = b \/ \E j \in 1..Len(items) : j > reserved /\ items'[i] = items[j]
  /\ dropped' \in [Reasons -> SUBSET Batch] /\ AllDropped' = AllDropped \cup lost
  /\ dropped'[r] = dropped[r] \cup lost
  /\ \A q \in Reasons : q # r => dropped'[q] = dropped[q]
  /\ lost \cap ToSet(items') = {} /\ lost \cup ToSet(items') = ToSet(items) \cup {b}
  /\ Ascending(items') /\ \A i \in 1..Len(items') : items'[i] >= i
  /\ faults' \in Nat

\* Evicts never reaches into the reserved prefix.
LEMMA EvictsFacts ==
  ASSUME Len(items) \in Nat, reserved \in Nat, reserved <= Len(items)
  PROVE  Evicts \in Nat /\ reserved + Evicts <= Len(items)
BY SinkAssumption DEF Evicts, Full

\* Every outcome of a push is of that form.
LEMMA PushEffect ==
  ASSUME IInv, NEW b \in Batch, Precedes(ToSet(items), {b}), StorePush(b)
  PROVE  \E lost \in SUBSET Batch, r \in Reasons : r # "shutdown" /\ Pushed(b, lost, r)
<1>0. TypeOK /\ InOrder /\ WindowInv
  BY DEF IInv
<1>1. items \in Seq(Batch) /\ reserved \in Nat /\ reserved <= Len(items)
      /\ dropped \in [Reasons -> SUBSET Batch] /\ faults \in Nat /\ Ascending(items)
      /\ \A i \in 1..Len(items) : items[i] >= i
  BY <1>0 DEF TypeOK, InOrder, WindowInv
<1>2. Len(items) \in Nat /\ ToSet(items) \subseteq Batch
  BY <1>1, ToSetByIndex
<1>3. b \notin ToSet(items) /\ b \in Int
  <2>1. {b} \in SUBSET Int /\ ToSet(items) \in SUBSET Int
    BY <1>2, BatchFacts
  <2> QED
    BY <2>1, PrecedesApart
<1>4. ASSUME NEW r \in Reasons, r # "shutdown", Drop(r, {b}), UNCHANGED storeVars, faults' \in Nat
      PROVE  r # "shutdown" /\ Pushed(b, {b}, r)
  <2>1. items' = items /\ reserved' = reserved /\ closed' = closed
    BY <1>4 DEF storeVars
  <2>2. {b} \in SUBSET Batch
    OBVIOUS
  <2>3. /\ dropped' \in [Reasons -> SUBSET Batch] /\ AllDropped' = AllDropped \cup {b}
        /\ dropped'[r] = dropped[r] \cup {b}
        /\ \A q \in Reasons : q # r => dropped'[q] = dropped[q]
    BY <1>1, <1>4, <2>2, DropEffect
  <2>4. \A i \in 1..Len(items) : i > reserved =>
           items[i] = b \/ \E j \in 1..Len(items) : j > reserved /\ items[i] = items[j]
    OBVIOUS
  <2> QED
    BY <1>1, <1>3, <1>4, <2>1, <2>3, <2>4 DEF Pushed
<1>5. CASE PushRejects /\ Drop("overflow_newest", {b}) /\ UNCHANGED <<storeVars, faults>>
  <2>1. "overflow_newest" \in Reasons /\ "overflow_newest" # "shutdown" /\ faults' \in Nat
    BY <1>1, <1>5 DEF Reasons
  <2> QED
    BY <1>4, <1>5, <2>1
<1>6. CASE faults' = faults + 1 /\ Drop("disk_error", {b}) /\ UNCHANGED storeVars
  <2>1. "disk_error" \in Reasons /\ "disk_error" # "shutdown" /\ faults' \in Nat
    BY <1>1, <1>6 DEF Reasons
  <2> QED
    BY <1>4, <1>6, <2>1
<1>7. CASE /\ items' = SubSeq(items, 1, reserved) \o SubSeq(items, reserved + Evicts + 1, Len(items))
                        \o <<b>>
           /\ Drop("overflow_oldest", {items[reserved + i] : i \in 1..Evicts})
           /\ UNCHANGED <<reserved, closed, faults>>
  <2> DEFINE k == Evicts
             lost == Middle(items, reserved, k)
  <2>1. k \in Nat /\ reserved + k <= Len(items)
    BY <1>1, <1>2, EvictsFacts
  <2>2. items' = Readmit(items, reserved, k, b) /\ Drop("overflow_oldest", lost)
        /\ reserved' = reserved /\ closed' = closed /\ faults' = faults
    BY <1>7 DEF Readmit, Middle
  <2> HIDE DEF k
  <2> DEFINE t == Readmit(items, reserved, k, b)
  <2>0. items \in Seq(Batch) /\ reserved \in Nat /\ k \in Nat /\ reserved + k <= Len(items)
    BY <1>1, <2>1
  <2>a. /\ t \in Seq(Batch) /\ Len(t) = Len(items) - k + 1
        /\ \A i \in 1..reserved : t[i] = items[i]
        /\ \A i \in (reserved + 1)..(Len(items) - k) : t[i] = items[i + k]
        /\ t[Len(items) - k + 1] = b
    <3> DEFINE Is(u, s, r, n, x) == /\ u \in Seq(Batch) /\ Len(u) = Len(s) - n + 1
                                    /\ \A i \in 1..r : u[i] = s[i]
                                    /\ \A i \in (r + 1)..(Len(s) - n) : u[i] = s[i + n]
                                    /\ u[Len(s) - n + 1] = x
    <3>1. ASSUME NEW s \in Seq(Batch), NEW x \in Batch, NEW r \in Nat, NEW n \in Nat, r + n <= Len(s)
          PROVE  Is(Readmit(s, r, n, x), s, r, n, x)
      BY <3>1, ReadmitFacts
    <3> HIDE DEF Is, t
    <3>2. Is(t, items, reserved, k, b)
      BY <2>0, <3>1 DEF t
    <3> QED
      BY <3>2 DEF Is
  <2>d. ToSet(t) \cup lost = ToSet(items) \cup {b}
    <3>1. ASSUME NEW s \in Seq(Batch), NEW x \in Batch, NEW r \in Nat, NEW n \in Nat, r + n <= Len(s)
          PROVE  ToSet(Readmit(s, r, n, x)) \cup Middle(s, r, n) = ToSet(s) \cup {x}
      BY <3>1, ReadmitFacts
    <3> QED
      BY <2>0, <3>1
  <2>3. /\ items' \in Seq(Batch) /\ Len(items') = Len(items) - k + 1
        /\ \A i \in 1..reserved : items'[i] = items[i]
        /\ \A i \in (reserved + 1)..(Len(items) - k) : items'[i] = items[i + k]
        /\ items'[Len(items) - k + 1] = b
        /\ ToSet(items') \cup lost = ToSet(items) \cup {b}
    BY <2>2, <2>a, <2>d
  <2>b. Ascending(items) /\ Precedes(ToSet(items), {b}) /\ Batch \in SUBSET Int
    BY <1>1, BatchFacts
  <2>c. Ascending(t) /\ ToSet(t) \cap lost = {}
    BY <2>0, <2>b, ReadmitAscending
  <2>4. Ascending(items') /\ ToSet(items') \cap lost = {}
    BY <2>2, <2>c
  <2>5. \A i \in 1..k : items[reserved + i] \in Batch
    BY <1>1, <1>2, <2>1
  <2>6. lost \in SUBSET Batch
    BY <2>5 DEF Middle
  <2> HIDE DEF lost
  <2>7. "overflow_oldest" \in Reasons /\ "overflow_oldest" # "shutdown"
    BY DEF Reasons
  <2>8. /\ dropped' \in [Reasons -> SUBSET Batch] /\ AllDropped' = AllDropped \cup lost
        /\ dropped'["overflow_oldest"] = dropped["overflow_oldest"] \cup lost
        /\ \A q \in Reasons : q # "overflow_oldest" => dropped'[q] = dropped[q]
    BY <1>1, <2>2, <2>6, <2>7, DropEffect
  <2>9. Len(items') \in Nat /\ Len(items') = Len(items) - k + 1 /\ reserved <= Len(items')
    BY <1>1, <1>2, <2>1, <2>3
  <2>10. ASSUME NEW i \in 1..Len(items')
         PROVE  /\ i > reserved => items'[i] = b \/ \E j \in 1..Len(items) : j > reserved /\ items'[i] = items[j]
                /\ items'[i] >= i
    <3>1. i <= reserved \/ i \in (reserved + 1)..(Len(items) - k) \/ i = Len(items) - k + 1
      BY <1>1, <1>2, <2>1, <2>9
    <3>2. CASE i <= reserved
      <4>1. i \in 1..reserved /\ i \in 1..Len(items) /\ items'[i] = items[i]
        BY <1>1, <1>2, <2>3, <3>2
      <4> QED
        BY <1>1, <3>2, <4>1
    <3>3. CASE i \in (reserved + 1)..(Len(items) - k)
      <4>1. i + k \in 1..Len(items) /\ i + k > reserved /\ items'[i] = items[i + k] /\ i \in Nat
        BY <1>1, <1>2, <2>1, <2>3, <3>3
      <4>2. items[i + k] >= i + k
        BY <1>1, <4>1
      <4>3. items[i + k] \in Batch
        BY <1>1, <4>1
      <4>4. items[i + k] \in Int
        BY <4>3, BatchFacts
      <4> QED
        BY <2>1, <4>1, <4>2, <4>4
    <3>4. CASE i = Len(items) - k + 1
      <4>1. items'[i] = b
        BY <2>3, <3>4
      <4>2. b >= Len(items) + 1
        <5>1. CASE Len(items) = 0
          BY <5>1, BatchFacts
        <5>2. CASE Len(items) > 0
          <6>1. Len(items) \in 1..Len(items) /\ items[Len(items)] \in ToSet(items)
            BY <1>1, <1>2, <5>2, ToSetByIndex
          <6>2. items[Len(items)] >= Len(items) /\ items[Len(items)] < b
            BY <1>1, <6>1 DEF Precedes
          <6>3. items[Len(items)] \in Int
            BY <1>2, <6>1, BatchFacts
          <6> QED
            BY <1>2, <1>3, <6>2, <6>3
        <5> QED
          BY <1>2, <5>1, <5>2
      <4> QED
        BY <1>2, <1>3, <2>1, <3>4, <4>1, <4>2
    <3> QED
      BY <3>1, <3>2, <3>3, <3>4
  <2>11. Pushed(b, lost, "overflow_oldest")
    BY <1>1, <2>2, <2>3, <2>4, <2>8, <2>9, <2>10 DEF Pushed
  <2> QED
    BY <2>6, <2>7, <2>11
<1> QED
  BY <1>5, <1>6, <1>7 DEF StorePush

-----------------------------------------------------------------------------
(* The steps outside the write loop. *)

\* What the invariant says of the write loop and the sink.
Inner ==
  /\ WindowInv /\ CollectInv /\ ObserveInv /\ ExposeInv /\ LandInv /\ DiskKeepsAtShutdown

\* Nothing new is in the node's inbox, but what upstream sends next.
FeedsInOrder ==
  /\ next' \in Int /\ next' >= next
  /\ \A b \in ToSet(inHand') \cup ToSet(inbox') : b \in ToSet(inHand) \cup ToSet(inbox) \/ b >= next

\* A step that leaves the store and the write loop alone keeps what concerns them.
LEMMA InnerFrame ==
  ASSUME IInv, FeedsInOrder,
         UNCHANGED <<conf, items, reserved, loopVars, snk, ghostVars, delivered, dropped>>
  PROVE  Inner'
<1>1. /\ conf' = conf /\ items' = items /\ reserved' = reserved /\ wpc' = wpc /\ fast' = fast
      /\ owedArm' = owedArm /\ resubmit' = resubmit /\ fl' = fl /\ snk' = snk
      /\ landed' = landed /\ seen' = seen /\ exposed' = exposed
      /\ delivered' = delivered /\ dropped' = dropped
  BY DEF loopVars, ghostVars
<1>2. WindowInv' /\ CollectInv' /\ ExposeInv'
  BY <1>1 DEF IInv, WindowInv, CollectInv, ExposeInv, Gap, OnSendPath, Collects
<1>3. LandInv' /\ DiskKeepsAtShutdown'
  BY <1>1 DEF IInv, LandInv, DiskKeepsAtShutdown, Answered, AllDropped, AtMostOnce, Memory
<1>4. ObserveInv'
  <2>1. ASSUME wpc # "gone", NEW b \in Batch,
               b \in ToSet(inHand') \cup ToSet(inbox') \/ b >= next'
        PROVE  seen[b] = 0
    <3>1. b \in ToSet(inHand) \cup ToSet(inbox) \/ b >= next
      <4>1. b \in Int /\ next \in Int
        BY BatchFacts, SinkAssumption DEF IInv, TypeOK
      <4> QED
        BY <2>1, <4>1 DEF FeedsInOrder
    <3> QED
      BY <2>1, <3>1 DEF IInv, ObserveInv
  <2>2. ObservedCount' = ObservedCount
    BY <1>1 DEF ObservedCount, OnSendPath
  <2> QED
    BY <1>1, <2>1, <2>2 DEF IInv, ObserveInv
<1> QED
  BY <1>2, <1>3, <1>4 DEF Inner

\* A push of a batch nobody observed keeps it too: it reaches only past the
\* reserved prefix.
LEMMA InnerPush ==
  ASSUME IInv, FeedsInOrder, NEW b \in ToSet(inHand) \cup ToSet(inbox),
         NEW lost \in SUBSET Batch, NEW r \in Reasons, r # "shutdown", Pushed(b, lost, r),
         UNCHANGED <<conf, loopVars, snk, ghostVars, delivered>>
  PROVE  Inner'
<1>0. TypeOK /\ WindowInv /\ CollectInv /\ ObserveInv /\ ExposeInv /\ LandInv /\ DiskKeepsAtShutdown
  BY DEF IInv
<1>1. /\ conf' = conf /\ reserved' = reserved /\ wpc' = wpc /\ fast' = fast
      /\ owedArm' = owedArm /\ resubmit' = resubmit /\ fl' = fl /\ snk' = snk
      /\ landed' = landed /\ seen' = seen /\ exposed' = exposed /\ delivered' = delivered
  BY DEF loopVars, ghostVars, Pushed
<1>2. /\ reserved \in Nat /\ fl.out \in Nat /\ fl.observed \in Nat /\ Len(items) \in Nat
      /\ Len(items') \in Nat /\ reserved <= Len(items') /\ reserved <= Len(items)
      /\ next \in Int
  <2>1. reserved \in Nat /\ fl.out \in Nat /\ fl.observed \in Nat /\ items \in Seq(Batch)
        /\ next \in 1..(NBatches + 1)
    BY <1>0 DEF TypeOK
  <2>2. items' \in Seq(Batch) /\ reserved <= Len(items') /\ reserved <= Len(items)
    BY <1>0 DEF WindowInv, Pushed
  <2> QED
    BY <2>1, <2>2, SinkAssumption
<1>3. \A i \in 1..reserved : items'[i] = items[i]
  BY DEF Pushed
<1>4. WindowInv'
  <2>1. ASSUME wpc # "gone", NEW i \in 1..(fl.out - Gap) PROVE snk.sub[i] = items'[i + Gap]
    <3>1. Gap \in {0, 1}
      BY DEF Gap
    <3>2. i + Gap \in 1..reserved
      BY <1>0, <1>2, <2>1, <3>1 DEF WindowInv
    <3>3. snk.sub[i] = items[i + Gap]
      BY <1>0, <2>1 DEF WindowInv
    <3> QED
      BY <1>3, <3>2, <3>3
  <2>2. Gap' = Gap /\ OnSendPath' = OnSendPath
    BY <1>1 DEF Gap, OnSendPath
  <2> QED
    BY <1>0, <1>1, <1>2, <2>1, <2>2 DEF WindowInv
<1>5. CollectInv'
  BY <1>0, <1>1 DEF CollectInv, Collects
<1>6. ExposeInv'
  <2>1. ASSUME wpc # "gone" PROVE \A i \in 1..fl.out : items'[i] = items[i]
    BY <1>0, <1>2, <1>3, <2>1 DEF WindowInv
  <2>2. ASSUME wpc = "submitting" PROVE items'[fl.out + 1] = items[fl.out + 1]
    BY <1>0, <1>2, <1>3, <2>2 DEF WindowInv
  <2>3. ASSUME wpc = "sending" PROVE items'[1] = items[1]
    BY <1>0, <1>2, <1>3, <2>3 DEF WindowInv
  <2> QED
    BY <1>0, <1>1, <2>1, <2>2, <2>3 DEF ExposeInv, Collects
<1>7. LandInv'
  BY <1>0, <1>1 DEF LandInv, Answered, AtMostOnce, Pushed
<1>8. DiskKeepsAtShutdown'
  <2>1. dropped'["shutdown"] = dropped["shutdown"]
    BY DEF Pushed, Reasons
  <2> QED
    BY <1>0, <1>1, <2>1 DEF DiskKeepsAtShutdown, Memory, AtMostOnce
<1>9. ObserveInv'
  <2>0. ObservedCount' = ObservedCount
    BY <1>1 DEF ObservedCount, OnSendPath
  <2>1. ASSUME wpc # "gone" PROVE ObservedCount \in Nat /\ ObservedCount <= reserved
    BY <1>0, <1>2, <2>1 DEF WindowInv, ObservedCount, OnSendPath
  <2>2. ASSUME wpc # "gone", NEW i \in 1..Len(items')
        PROVE  seen[items'[i]] = IF i <= ObservedCount THEN 1 ELSE 0
    <3>1. CASE i <= reserved
      <4>1. i \in 1..Len(items) /\ items'[i] = items[i]
        BY <1>2, <1>3, <3>1
      <4> QED
        BY <1>0, <2>2, <4>1 DEF ObserveInv
    <3>2. CASE i > reserved
      <4>1. ~(i <= ObservedCount)
        BY <1>2, <2>1, <2>2, <3>2
      <4>2. CASE items'[i] = b
        <5>1. b \in Batch
          BY <1>0, ContentsFacts
        <5> QED
          BY <1>0, <2>2, <4>1, <4>2, <5>1 DEF ObserveInv
      <4>3. CASE \E j \in 1..Len(items) : j > reserved /\ items'[i] = items[j]
        <5>1. PICK j \in 1..Len(items) : j > reserved /\ items'[i] = items[j]
          BY <4>3
        <5>2. ~(j <= ObservedCount)
          BY <1>2, <2>1, <2>2, <5>1
        <5> QED
          BY <1>0, <2>2, <4>1, <5>1, <5>2 DEF ObserveInv
      <4> QED
        BY <3>2, <4>2, <4>3 DEF Pushed
    <3> QED
      BY <1>2, <3>1, <3>2
  <2>3. ASSUME wpc # "gone", NEW c \in Batch,
               c \in ToSet(inHand') \cup ToSet(inbox') \/ c >= next'
        PROVE  seen[c] = 0
    <3>1. c \in ToSet(inHand) \cup ToSet(inbox) \/ c >= next
      <4>1. c \in Int
        BY BatchFacts
      <4> QED
        BY <1>2, <2>3, <4>1 DEF FeedsInOrder
    <3> QED
      BY <1>0, <2>3, <3>1 DEF ObserveInv
  <2> QED
    BY <1>0, <1>1, <2>0, <2>2, <2>3 DEF ObserveInv
<1> QED
  BY <1>4, <1>5, <1>6, <1>7, <1>8, <1>9 DEF Inner

\* b leaves the inbox or the hand for the store: the ledger stays exact.
LEMMA PushKeepsPlaces ==
  ASSUME IInv, NEW b \in ToSet(inHand) \cup ToSet(inbox),
         NEW lost \in SUBSET Batch, NEW r \in Reasons, Pushed(b, lost, r),
         ToSet(inHand') = ToSet(inHand) \ {b}, ToSet(inbox') = ToSet(inbox) \ {b},
         Precedes({b}, ToSet(inHand') \cup ToSet(inbox')), Ascending(inbox'),
         UNCHANGED <<delivered, abandoned, strayed, next>>, received' = received \cup {b}
  PROVE  InOrder' /\ OnePlace'
<1>0. TypeOK /\ InOrder /\ OnePlace
  BY DEF IInv
<1>1. delivered' = delivered /\ abandoned' = abandoned /\ strayed' = strayed /\ next' = next
  OBVIOUS
<1>2. /\ dropped' \in [Reasons -> SUBSET Batch] /\ AllDropped' = AllDropped \cup lost
      /\ dropped'[r] = dropped[r] \cup lost
      /\ \A q \in Reasons : q # r => dropped'[q] = dropped[q]
      /\ lost \cap ToSet(items') = {} /\ lost \cup ToSet(items') = ToSet(items) \cup {b}
      /\ Ascending(items') /\ \A i \in 1..Len(items') : items'[i] >= i
  BY DEF Pushed
<1>3. /\ ToSet(items) \in SUBSET Int /\ ToSet(inHand) \in SUBSET Int
      /\ ToSet(inbox) \in SUBSET Int /\ ToSet(delivered) \in SUBSET Int
      /\ dropped \in [Reasons -> SUBSET Batch]
  BY <1>0, ContentsFacts DEF TypeOK
<1>4. InOrder'
  <2>1. Precedes(ToSet(delivered), ToSet(items') \cup ToSet(inHand') \cup ToSet(inbox'))
    BY <1>0, <1>2 DEF InOrder, Precedes
  <2>2. Precedes(ToSet(items'), ToSet(inHand') \cup ToSet(inbox'))
    BY <1>0, <1>2 DEF InOrder, Precedes
  <2>3. Precedes(ToSet(inHand'), ToSet(inbox'))
    BY <1>0 DEF InOrder, Precedes
  <2> QED
    BY <1>0, <1>1, <1>2, <2>1, <2>2, <2>3 DEF InOrder
<1>5. ToSet(items) \cap (ToSet(inHand) \cup ToSet(inbox)) = {}
  <2>1. ToSet(inHand) \cup ToSet(inbox) \in SUBSET Int
    BY <1>3
  <2> QED
    BY <1>0, <1>3, <2>1, PrecedesApart DEF InOrder
<1>6. ToSet(delivered) \cap (ToSet(items) \cup ToSet(inHand) \cup ToSet(inbox)) = {}
  <2>1. ToSet(items) \cup ToSet(inHand) \cup ToSet(inbox) \in SUBSET Int
    BY <1>3
  <2> QED
    BY <1>0, <1>3, <2>1, PrecedesApart DEF InOrder
<1>7. lost \cap (Within' \cup ToSet(inbox') \cup abandoned' \cup AllDropped) = {}
  BY <1>0, <1>1, <1>2, <1>5, <1>6 DEF OnePlace, Within
<1>8. Within' \cup lost = Within \cup {b}
  BY <1>1, <1>2 DEF Within
<1>9. OnePlace'
  <2>2. \A q \in Reasons : dropped[q] \subseteq AllDropped
    BY <1>3, DroppedIsUnion
  <2>3. \A q \in Reasons : q # r => dropped'[q] \cap dropped'[r] = {}
    BY <1>0, <1>2, <1>7, <2>2 DEF OnePlace
  <2>4. \A p, q \in Reasons : p # q => dropped'[p] \cap dropped'[q] = {}
    <3> TAKE p, q \in Reasons
    <3>1. CASE p = r
      BY <2>3, <3>1
    <3>2. CASE q = r
      BY <2>3, <3>2
    <3>3. CASE p # r /\ q # r
      BY <1>0, <1>2, <3>3 DEF OnePlace
    <3> QED
      BY <3>1, <3>2, <3>3
  <2>5. received' = Within' \cup abandoned' \cup AllDropped'
    BY <1>0, <1>1, <1>2, <1>8 DEF OnePlace
  <2>6. AllDropped' \cap (Within' \cup ToSet(inbox') \cup abandoned') = {}
    <3>1. b \notin AllDropped
      BY <1>0 DEF OnePlace, Within
    <3>2. AllDropped \cap (Within \cup ToSet(inbox) \cup abandoned) = {}
      BY <1>0 DEF OnePlace
    <3> QED
      BY <1>1, <1>2, <1>7, <1>8, <3>1, <3>2
  <2>7. abandoned' \cap (Within' \cup ToSet(inbox')) = {}
    BY <1>0, <1>1, <1>8 DEF OnePlace, Within
  <2>8. received' \cup ToSet(inbox') \cup strayed' = 1..(next' - 1)
    BY <1>0, <1>1 DEF OnePlace, Within
  <2> QED
    BY <2>4, <2>5, <2>6, <2>7, <2>8 DEF OnePlace
<1> QED
  BY <1>4, <1>9

\* A memory store cannot take b any more: the sweep keeps it aside.
LEMMA AbandonKeepsPlaces ==
  ASSUME IInv, NEW b \in ToSet(inHand) \cup ToSet(inbox),
         ToSet(inHand') = ToSet(inHand) \ {b}, ToSet(inbox') = ToSet(inbox) \ {b},
         Ascending(inbox'),
         UNCHANGED <<items, delivered, dropped, strayed, next>>,
         abandoned' = abandoned \cup {b}, received' = received \cup {b}
  PROVE  InOrder' /\ OnePlace'
<1>0. TypeOK /\ InOrder /\ OnePlace
  BY DEF IInv
<1>1. items' = items /\ delivered' = delivered /\ dropped' = dropped /\ strayed' = strayed /\ next' = next
  OBVIOUS
<1>2. /\ ToSet(items) \in SUBSET Int /\ ToSet(inHand) \in SUBSET Int
      /\ ToSet(inbox) \in SUBSET Int /\ ToSet(delivered) \in SUBSET Int
  BY <1>0, ContentsFacts
<1>3. InOrder'
  <2>1. Precedes(ToSet(delivered), ToSet(items) \cup ToSet(inHand') \cup ToSet(inbox'))
        /\ Precedes(ToSet(items), ToSet(inHand') \cup ToSet(inbox'))
        /\ Precedes(ToSet(inHand'), ToSet(inbox'))
    BY <1>0 DEF InOrder, Precedes
  <2> QED
    BY <1>0, <1>1, <2>1 DEF InOrder
<1>4. b \notin ToSet(items) /\ b \notin ToSet(delivered)
  <2>1. ToSet(inHand) \cup ToSet(inbox) \in SUBSET Int
        /\ ToSet(items) \cup ToSet(inHand) \cup ToSet(inbox) \in SUBSET Int
    BY <1>2
  <2>2. ToSet(items) \cap (ToSet(inHand) \cup ToSet(inbox)) = {}
    BY <1>0, <1>2, <2>1, PrecedesApart DEF InOrder
  <2>3. ToSet(delivered) \cap (ToSet(items) \cup ToSet(inHand) \cup ToSet(inbox)) = {}
    BY <1>0, <1>2, <2>1, PrecedesApart DEF InOrder
  <2> QED
    BY <2>2, <2>3
<1>5. AllDropped' = AllDropped
  BY <1>1 DEF AllDropped
<1>6. Within' = Within \ {b}
  BY <1>1, <1>4 DEF Within
<1>7. received' = Within' \cup abandoned' \cup AllDropped'
  BY <1>0, <1>5, <1>6 DEF OnePlace
<1>8. received' \cup ToSet(inbox') \cup strayed' = 1..(next' - 1)
  BY <1>0, <1>1 DEF OnePlace, Within
<1>9. AllDropped' \cap (Within' \cup ToSet(inbox') \cup abandoned') = {}
  BY <1>0, <1>5, <1>6 DEF OnePlace, Within
<1>10. abandoned' \cap (Within' \cup ToSet(inbox')) = {}
  BY <1>0, <1>6 DEF OnePlace
<1> QED
  BY <1>0, <1>1, <1>3, <1>7, <1>8, <1>9, <1>10 DEF OnePlace

\* Taking the head of the inbox.
LEMMA InboxHead ==
  ASSUME IInv, inbox # <<>>, inbox' = Tail(inbox)
  PROVE  /\ Head(inbox) \in Batch /\ Head(inbox) \in ToSet(inbox)
         /\ inbox' \in Seq(Batch) /\ Ascending(inbox')
         /\ ToSet(inbox') = ToSet(inbox) \ {Head(inbox)}
         /\ Precedes({Head(inbox)}, ToSet(inbox'))
<1>0. inbox \in Seq(Batch) /\ Ascending(inbox)
  BY DEF IInv, TypeOK, InOrder
<1>1. Head(inbox) \in Batch /\ inbox' \in Seq(Batch)
      /\ ToSet(inbox) = {Head(inbox)} \cup ToSet(inbox')
  BY <1>0, TailFacts
<1>2. Ascending(inbox') /\ Precedes({Head(inbox)}, ToSet(inbox'))
  BY <1>0, TailAscending, BatchFacts
<1>3. {Head(inbox)} \cap ToSet(inbox') = {}
  <2>1. {Head(inbox)} \in SUBSET Int /\ ToSet(inbox') \in SUBSET Int
    BY <1>1, BatchFacts, ToSetByIndex
  <2> QED
    BY <1>2, <2>1, PrecedesApart
<1> QED
  BY <1>1, <1>2, <1>3

\* What drain_inbox holds is one batch.
LEMMA HandHead ==
  ASSUME IInv, inHand # <<>>
  PROVE  Head(inHand) \in Batch /\ ToSet(inHand) = {Head(inHand)}
<1>1. inHand \in Seq(Batch) /\ Len(inHand) <= 1
  BY DEF IInv, TypeOK, HandOver
<1>2. /\ Head(inHand) \in Batch /\ Tail(inHand) \in Seq(Batch) /\ Len(Tail(inHand)) = Len(inHand) - 1
      /\ ToSet(inHand) = {Head(inHand)} \cup ToSet(Tail(inHand))
  BY <1>1, TailFacts
<1>3. Tail(inHand) = <<>>
  BY <1>1, <1>2
<1>4. ToSet(Tail(inHand)) = {}
  BY <1>2, <1>3, ToSetEmpty
<1> QED
  BY <1>2, <1>4

\* The invariant, put together from its parts.
LEMMA Assemble ==
  TypeOK' /\ HandOver' /\ InOrder' /\ OnePlace' /\ Inner' => IInv'
BY DEF IInv, Inner

\* A step that moves no batch keeps the ledger.
LEMMA PlacesFrame ==
  ASSUME IInv, UNCHANGED <<items, delivered, dropped, ledgerVars>>
  PROVE  InOrder' /\ OnePlace'
BY DEF IInv, InOrder, OnePlace, Within, AllDropped, ledgerVars

\* Upstream keeps the invariant.
LEMMA UpstreamKeeps ==
  ASSUME IInv, Upstream
  PROVE  IInv'
<1> USE SinkAssumption
<1>0. TypeOK /\ HandOver /\ InOrder /\ OnePlace
  BY DEF IInv
<1>1. next \in 1..(NBatches + 1) /\ next \in Int
  BY <1>0 DEF TypeOK
<1>2. CASE Reserve \/ HangUp
  <2>1. UNCHANGED <<conf, next, inbox, drainVars, storeVars, loopVars, snk, grace, rpc,
                    abandoned, countVars, ghostVars, faults>>
        /\ permit' \in BOOLEAN /\ hungUp' \in BOOLEAN
        /\ (permit' => (permit \/ (next <= NBatches /\ rpc = "run")))
    <3>1. permit \in BOOLEAN /\ hungUp \in BOOLEAN
      BY <1>0 DEF TypeOK
    <3>2. CASE Reserve
      BY <3>1, <3>2 DEF Reserve
    <3>3. CASE HangUp
      BY <3>1, <3>3 DEF HangUp
    <3> QED
      BY <1>2, <3>2, <3>3
  <2>2. TypeOK'
    BY <1>0, <2>1 DEF TypeOK, drainVars, storeVars, loopVars, countVars, ghostVars
  <2>3. HandOver'
    BY <1>0, <2>1 DEF HandOver, Memory, drainVars, storeVars, loopVars, countVars
  <2>4. FeedsInOrder /\ UNCHANGED <<conf, items, reserved, loopVars, snk, ghostVars, delivered, dropped>>
    BY <1>1, <2>1 DEF FeedsInOrder, drainVars, storeVars, countVars
  <2>5. UNCHANGED <<items, delivered, dropped, ledgerVars>>
    BY <2>1 DEF drainVars, storeVars, countVars, ledgerVars
  <2> QED
    BY <2>2, <2>3, <2>4, <2>5, Assemble, PlacesFrame, InnerFrame
<1>3. CASE Send
  <2>1. /\ permit /\ permit' = FALSE /\ next' = next + 1 /\ next <= NBatches
        /\ UNCHANGED <<conf, hungUp, drainVars, storeVars, loopVars, snk, grace, rpc, abandoned,
                       received, delivered, dropped, ghostVars, faults>>
        /\ strayed = {}
    BY <1>0, <1>3 DEF Send, HandOver
  <2>2. next \in Batch /\ next' \in 1..(NBatches + 1) /\ next' \in Int /\ next' - 1 = next
    BY <1>1, <2>1 DEF Batch
  <2>3. /\ delivered' = delivered /\ items' = items /\ inHand' = inHand /\ abandoned' = abandoned
        /\ received' = received /\ dropped' = dropped /\ rpc' = rpc /\ Within' = Within
        /\ AllDropped' = AllDropped
    BY <2>1 DEF drainVars, storeVars, Within, AllDropped
  <2>4. /\ ToSet(delivered) \subseteq 1..(next - 1) /\ ToSet(items) \subseteq 1..(next - 1)
        /\ ToSet(inHand) \subseteq 1..(next - 1) /\ ToSet(inbox) \subseteq 1..(next - 1)
        /\ AllDropped \subseteq 1..(next - 1) /\ abandoned \subseteq 1..(next - 1)
    BY <1>0 DEF OnePlace, Within
  <2>5. 1..next = 1..(next - 1) \cup {next} /\ next \notin 1..(next - 1)
        /\ \A x \in 1..(next - 1) : x < next
    BY <1>1
  <2>6. CASE rpc \in {"run", "parked", "sweep"} /\ inbox' = Append(inbox, next) /\ strayed' = strayed
    <3>1. inbox \in Seq(Batch)
      BY <1>0 DEF TypeOK
    <3>2. inbox' \in Seq(Batch) /\ ToSet(inbox') = ToSet(inbox) \cup {next}
      BY <2>2, <2>6, <3>1, AppendFacts
    <3>3. Ascending(inbox')
      <4>1. Precedes(ToSet(inbox), {next})
        BY <2>4, <2>5 DEF Precedes
      <4> QED
        BY <1>0, <2>2, <2>6, <3>1, <4>1, AppendAscending, BatchFacts DEF InOrder
    <3>4. InOrder'
      <4>1. Precedes(ToSet(delivered), ToSet(items) \cup ToSet(inHand) \cup ToSet(inbox'))
            /\ Precedes(ToSet(items), ToSet(inHand) \cup ToSet(inbox'))
            /\ Precedes(ToSet(inHand), ToSet(inbox'))
        BY <1>0, <2>4, <2>5, <3>2 DEF InOrder, Precedes
      <4> QED
        BY <1>0, <2>3, <3>3, <4>1 DEF InOrder
    <3>5. OnePlace'
      <4>1. received' \cup ToSet(inbox') \cup strayed' = 1..(next' - 1)
        BY <1>0, <2>1, <2>2, <2>3, <2>5, <2>6, <3>2 DEF OnePlace
      <4>2. AllDropped \cap (Within \cup ToSet(inbox') \cup abandoned) = {}
            /\ abandoned \cap (Within \cup ToSet(inbox')) = {}
        BY <1>0, <2>4, <2>5, <3>2 DEF OnePlace
      <4> QED
        BY <1>0, <2>3, <4>1, <4>2 DEF OnePlace
    <3>6. HandOver'
      BY <1>0, <2>1, <2>3, <2>6 DEF HandOver, Memory, drainVars, storeVars, loopVars
    <3>7. TypeOK'
      <4>1. strayed' \in SUBSET Batch /\ inbox' \in Seq(Batch)
        BY <1>0, <2>2, <2>6, <3>2 DEF TypeOK
      <4>2. permit' \in BOOLEAN
        BY <2>1
      <4>3. UNCHANGED <<conf, hungUp, drainVars, storeVars, loopVars, snk, grace, rpc, abandoned,
                        received, delivered, dropped, ghostVars, faults>>
        BY <2>1
      <4>4. next' \in 1..(NBatches + 1)
        BY <2>2
      <4> QED
        BY <1>0, <4>1, <4>2, <4>3, <4>4 DEF TypeOK, drainVars, storeVars, loopVars, ghostVars
    <3>8. FeedsInOrder
      BY <1>1, <2>1, <2>2, <2>3, <3>2 DEF FeedsInOrder
    <3>9. UNCHANGED <<conf, items, reserved, loopVars, snk, ghostVars, delivered, dropped>>
      BY <2>1 DEF storeVars
    <3> QED
      BY <3>4, <3>5, <3>6, <3>7, <3>8, <3>9, Assemble, InnerFrame
  <2>7. CASE rpc \in {"finish", "done"} /\ inbox' = inbox /\ strayed' = strayed \cup {next}
    <3>1. InOrder'
      BY <1>0, <2>3, <2>7 DEF InOrder
    <3>2. OnePlace'
      <4>1. received' \cup ToSet(inbox') \cup strayed' = 1..(next' - 1)
        BY <1>0, <2>1, <2>2, <2>3, <2>5, <2>7 DEF OnePlace
      <4> QED
        BY <1>0, <2>3, <2>7, <4>1 DEF OnePlace
    <3>3. HandOver'
      BY <1>0, <2>1, <2>3, <2>7 DEF HandOver, Memory, drainVars, storeVars, loopVars
    <3>4. TypeOK'
      <4>1. strayed' \in SUBSET Batch /\ inbox' \in Seq(Batch)
        BY <1>0, <2>2, <2>7 DEF TypeOK
      <4>2. permit' \in BOOLEAN
        BY <2>1
      <4>3. UNCHANGED <<conf, hungUp, drainVars, storeVars, loopVars, snk, grace, rpc, abandoned,
                        received, delivered, dropped, ghostVars, faults>>
        BY <2>1
      <4>4. next' \in 1..(NBatches + 1)
        BY <2>2
      <4> QED
        BY <1>0, <4>1, <4>2, <4>3, <4>4 DEF TypeOK, drainVars, storeVars, loopVars, ghostVars
    <3>5. FeedsInOrder
      BY <1>1, <2>1, <2>2, <2>3, <2>7 DEF FeedsInOrder
    <3>6. UNCHANGED <<conf, items, reserved, loopVars, snk, ghostVars, delivered, dropped>>
      BY <2>1 DEF storeVars
    <3> QED
      BY <3>1, <3>2, <3>3, <3>4, <3>5, <3>6, Assemble, InnerFrame
  <2>8. rpc \in {"run", "parked", "sweep", "finish", "done"}
    BY <1>0 DEF TypeOK
  <2> QED
    BY <1>3, <2>6, <2>7, <2>8 DEF Send
<1> QED
  BY <1>2, <1>3 DEF Upstream

\* The signal and the clock keep the invariant.
LEMMA ClockKeeps ==
  ASSUME IInv, Signal \/ Anchor \/ DeadlinePasses
  PROVE  IInv'
<1>0. TypeOK /\ HandOver
  BY DEF IInv
<1>1. UNCHANGED <<conf, upVars, inbox, drainVars, storeVars, loopVars, snk, rpc, abandoned,
                  countVars, ghostVars, faults>>
      /\ grace' \in {"none", "signalled", "anchored", "expired"}
  BY DEF Signal, Anchor, DeadlinePasses
<1>2. TypeOK'
  BY <1>0, <1>1 DEF TypeOK, upVars, drainVars, storeVars, loopVars, countVars, ghostVars
<1>3. HandOver'
  BY <1>0, <1>1 DEF HandOver, Memory, upVars, drainVars, storeVars, loopVars, countVars
<1>4. FeedsInOrder
  BY <1>0, <1>1, SinkAssumption DEF TypeOK, FeedsInOrder, upVars, drainVars
<1>5. UNCHANGED <<conf, items, reserved, loopVars, snk, ghostVars, delivered, dropped>>
      /\ UNCHANGED <<items, delivered, dropped, ledgerVars>>
  BY <1>1 DEF upVars, drainVars, storeVars, countVars, ledgerVars
<1> QED
  BY <1>2, <1>3, <1>4, <1>5, Assemble, PlacesFrame, InnerFrame

\* What is in hand goes to the store: by drain_inbox, or by the sweep.
LEMMA HandPushKeeps ==
  ASSUME IInv, inHand # <<>>, StorePush(Head(inHand)), inHand' = <<>>,
         UNCHANGED <<conf, next, inbox, loopVars, snk, abandoned, received, delivered, strayed,
                     ghostVars>>
  PROVE  /\ InOrder' /\ OnePlace' /\ Inner'
         /\ items' \in Seq(Batch) /\ reserved' = reserved /\ closed' = closed
         /\ dropped' \in [Reasons -> SUBSET Batch] /\ faults' \in Nat
<1> DEFINE b == Head(inHand)
<1>0. TypeOK /\ InOrder /\ OnePlace
  BY DEF IInv
<1>1. b \in Batch /\ ToSet(inHand) = {b}
  BY HandHead
<1>2. Precedes(ToSet(items), {b})
  BY <1>0, <1>1 DEF InOrder, Precedes
<1>3. PICK lost \in SUBSET Batch, r \in Reasons : r # "shutdown" /\ Pushed(b, lost, r)
  BY <1>1, <1>2, PushEffect
<1> HIDE DEF b
<1>4. ToSet(<<>>) = {}
  BY DEF ToSet
<1>5. ToSet(inHand') = {} /\ ToSet(inbox') = ToSet(inbox)
  BY <1>4
<1>6. Precedes({b}, ToSet(inbox)) /\ Ascending(inbox)
  BY <1>0, <1>1 DEF InOrder
<1>7. b \notin ToSet(inbox)
  <2>1. {b} \in SUBSET Int /\ ToSet(inbox) \in SUBSET Int
    BY <1>0, <1>1, ContentsFacts, BatchFacts
  <2> QED
    BY <1>6, <2>1, PrecedesApart
<1>8. b \in ToSet(inHand) \cup ToSet(inbox)
      /\ ToSet(inHand') = ToSet(inHand) \ {b} /\ ToSet(inbox') = ToSet(inbox) \ {b}
      /\ Precedes({b}, ToSet(inHand') \cup ToSet(inbox')) /\ Ascending(inbox')
  BY <1>1, <1>5, <1>6, <1>7
<1>9. received' = received \cup {b}
  BY <1>0, <1>1 DEF OnePlace, Within
<1>10. InOrder' /\ OnePlace'
  BY <1>3, <1>8, <1>9, PushKeepsPlaces
<1>11. FeedsInOrder
  BY <1>0, <1>5, SinkAssumption DEF FeedsInOrder, TypeOK
<1>12. Inner'
  BY <1>3, <1>8, <1>11, InnerPush
<1> QED
  BY <1>3, <1>10, <1>12 DEF Pushed

\* drain_inbox keeps the invariant.
LEMMA DrainKeeps ==
  ASSUME IInv, DrainStep
  PROVE  IInv'
<1>0. TypeOK /\ HandOver /\ InOrder /\ OnePlace
  BY DEF IInv
<1>1. CASE DrainRecv
  <2>1. /\ rpc = "run" /\ dpc = "recv" /\ inbox # <<>> /\ inbox' = Tail(inbox)
        /\ inHand' = <<Head(inbox)>> /\ received' = received \cup {Head(inbox)} /\ dpc' = "push"
        /\ UNCHANGED <<conf, upVars, storeVars, loopVars, snk, grace, rpc, abandoned, delivered,
                       dropped, strayed, ghostVars, faults>>
        /\ inHand = <<>>
    BY <1>0, <1>1 DEF DrainRecv, HandOver
  <2> DEFINE b == Head(inbox)
  <2>2. /\ b \in Batch /\ b \in ToSet(inbox) /\ inbox' \in Seq(Batch) /\ Ascending(inbox')
        /\ ToSet(inbox') = ToSet(inbox) \ {b} /\ Precedes({b}, ToSet(inbox'))
    BY <2>1, InboxHead
  <2> HIDE DEF b
  <2>3. inHand' = <<b>> /\ received' = received \cup {b}
    BY <2>1 DEF b
  <2>4. inHand' \in Seq(Batch) /\ Len(inHand') = 1 /\ inHand' # <<>>
    BY <2>2, <2>3
  <2>5. ToSet(inHand') = {b} /\ ToSet(inHand) = {}
    BY <2>1, <2>3 DEF ToSet
  <2>6. InOrder'
    <3>1. Precedes(ToSet(delivered), ToSet(items) \cup ToSet(inHand') \cup ToSet(inbox'))
          /\ Precedes(ToSet(items), ToSet(inHand') \cup ToSet(inbox'))
          /\ Precedes(ToSet(inHand'), ToSet(inbox'))
      BY <1>0, <2>2, <2>5 DEF InOrder, Precedes
    <3> QED
      BY <1>0, <2>1, <2>2, <3>1 DEF InOrder, storeVars
  <2>7. OnePlace'
    <3>1. Within' = Within \cup {b} /\ AllDropped' = AllDropped
      BY <2>1, <2>5 DEF Within, AllDropped, storeVars
    <3>2. /\ next' = next /\ abandoned' = abandoned /\ strayed' = strayed /\ dropped' = dropped
      BY <2>1 DEF upVars
    <3>3. received' = Within' \cup abandoned' \cup AllDropped'
          /\ received' \cup ToSet(inbox') \cup strayed' = 1..(next' - 1)
      BY <1>0, <2>2, <2>3, <3>1, <3>2 DEF OnePlace
    <3>4. AllDropped' \cap (Within' \cup ToSet(inbox') \cup abandoned') = {}
          /\ abandoned' \cap (Within' \cup ToSet(inbox')) = {}
      BY <1>0, <2>2, <3>1, <3>2 DEF OnePlace
    <3> QED
      BY <1>0, <3>2, <3>3, <3>4 DEF OnePlace
  <2>8. HandOver'
    BY <1>0, <2>1, <2>4 DEF HandOver, Memory, upVars, storeVars, loopVars
  <2>9. TypeOK'
    <3>1. received' \in SUBSET Batch
      BY <1>0, <2>2, <2>3 DEF TypeOK
    <3>2. UNCHANGED <<conf, upVars, storeVars, loopVars, snk, grace, rpc, abandoned, delivered,
                      dropped, strayed, ghostVars, faults>> /\ dpc' = "push"
      BY <2>1
    <3>3. inHand' \in Seq(Batch) /\ inbox' \in Seq(Batch)
      BY <2>2, <2>4
    <3> QED
      BY <1>0, <3>1, <3>2, <3>3 DEF TypeOK, upVars, storeVars, loopVars, ghostVars
  <2>10. FeedsInOrder
    <3>1. next' = next /\ next \in Int
      BY <1>0, <2>1, SinkAssumption DEF TypeOK, upVars
    <3> QED
      BY <2>2, <2>5, <3>1 DEF FeedsInOrder
  <2>11. UNCHANGED <<conf, items, reserved, loopVars, snk, ghostVars, delivered, dropped>>
    BY <2>1 DEF storeVars
  <2> QED
    BY <2>6, <2>7, <2>8, <2>9, <2>10, <2>11, Assemble, InnerFrame
<1>2. CASE DrainPush
  <2>1. /\ rpc = "run" /\ dpc = "push" /\ inHand # <<>> /\ StorePush(Head(inHand)) /\ inHand' = <<>>
        /\ dpc' = "recv"
        /\ UNCHANGED <<conf, upVars, inbox, loopVars, snk, grace, rpc, abandoned, received, delivered,
                       strayed, ghostVars>>
    BY <1>0, <1>2 DEF DrainPush, HandOver
  <2>2. UNCHANGED <<conf, next, inbox, loopVars, snk, abandoned, received, delivered, strayed, ghostVars>>
    BY <2>1 DEF upVars
  <2>3. /\ InOrder' /\ OnePlace' /\ Inner'
        /\ items' \in Seq(Batch) /\ reserved' = reserved /\ closed' = closed
        /\ dropped' \in [Reasons -> SUBSET Batch] /\ faults' \in Nat
    BY <2>1, <2>2, HandPushKeeps
  <2>4. HandOver'
    BY <1>0, <2>1, <2>3 DEF HandOver, Memory, upVars, loopVars
  <2>5. inHand' \in Seq(Batch)
    BY <2>1
  <2>6. TypeOK'
    <3>1. UNCHANGED <<conf, upVars, inbox, loopVars, snk, grace, rpc, abandoned, received, delivered,
                      strayed, ghostVars>> /\ dpc' = "recv"
      BY <2>1
    <3>2. /\ items' \in Seq(Batch) /\ reserved' = reserved /\ closed' = closed
          /\ dropped' \in [Reasons -> SUBSET Batch] /\ faults' \in Nat
      BY <2>3
    <3> QED
      BY <1>0, <2>5, <3>1, <3>2, SMTT(30) DEF TypeOK, upVars, loopVars, ghostVars
  <2> QED
    BY <2>3, <2>4, <2>6, Assemble
<1>3. CASE DrainDone
  <2>1. /\ rpc = "run" /\ dpc = "recv" /\ closed' = TRUE /\ dpc' = "done"
        /\ UNCHANGED <<conf, upVars, inbox, inHand, items, reserved, loopVars, snk, grace, rpc,
                       abandoned, countVars, ghostVars, faults>>
    BY <1>3 DEF DrainDone
  <2>2. TypeOK'
    BY <1>0, <2>1 DEF TypeOK, upVars, loopVars, countVars, ghostVars
  <2>3. HandOver'
    BY <1>0, <2>1 DEF HandOver, Memory, upVars, loopVars, countVars
  <2>4. FeedsInOrder
    BY <1>0, <2>1, SinkAssumption DEF TypeOK, FeedsInOrder, upVars
  <2>5. UNCHANGED <<conf, items, reserved, loopVars, snk, ghostVars, delivered, dropped>>
        /\ UNCHANGED <<items, delivered, dropped, ledgerVars>>
    BY <2>1 DEF upVars, countVars, ledgerVars
  <2> QED
    BY <2>2, <2>3, <2>4, <2>5, Assemble, PlacesFrame, InnerFrame
<1> QED
  BY <1>1, <1>2, <1>3 DEF DrainStep

\* run_output's end keeps the invariant.
LEMMA StopKeeps ==
  ASSUME IInv, StopStep
  PROVE  IInv'
<1>0. TypeOK /\ HandOver /\ InOrder /\ OnePlace
  BY DEF IInv
<1>n. next \in Int
  BY <1>0, SinkAssumption DEF TypeOK
<1>1. CASE StopDrain
  <2>1. /\ rpc = "run" /\ wpc = "gone" /\ closed' = TRUE /\ dpc' = "done" /\ rpc' = "parked"
        /\ UNCHANGED <<conf, upVars, inbox, inHand, items, reserved, loopVars, snk, grace, abandoned,
                       countVars, ghostVars, faults>>
    BY <1>1 DEF StopDrain
  <2>2. TypeOK'
    BY <1>0, <2>1 DEF TypeOK, upVars, loopVars, countVars, ghostVars
  <2>3. HandOver'
    BY <1>0, <2>1 DEF HandOver, Memory, upVars, loopVars, countVars
  <2>4. FeedsInOrder
    BY <1>n, <2>1 DEF FeedsInOrder, upVars
  <2>5. UNCHANGED <<conf, items, reserved, loopVars, snk, ghostVars, delivered, dropped>>
        /\ UNCHANGED <<items, delivered, dropped, ledgerVars>>
    BY <2>1 DEF upVars, countVars, ledgerVars
  <2> QED
    BY <2>2, <2>3, <2>4, <2>5, Assemble, PlacesFrame, InnerFrame
<1>2. CASE SweepParked
  <2>1. /\ rpc = "parked" /\ inHand' = <<>> /\ rpc' = "sweep" /\ dpc = "done" /\ closed /\ wpc = "gone"
        /\ UNCHANGED <<conf, upVars, inbox, dpc, loopVars, snk, grace, received, delivered, strayed,
                       ghostVars>>
    BY <1>0, <1>2 DEF SweepParked, HandOver
  <2>2. inHand' \in Seq(Batch) /\ ToSet(inHand') = {}
    BY <2>1 DEF ToSet
  <2>3. UNCHANGED <<conf, upVars, inbox, dpc, loopVars, snk, grace, received, delivered, strayed,
                    ghostVars>> /\ rpc' = "sweep"
    BY <2>1
  <2>4. CASE inHand # <<>> /\ Memory
    <3> DEFINE b == Head(inHand)
    <3>1. abandoned' = abandoned \cup {b} /\ UNCHANGED <<storeVars, dropped, faults>>
      BY <1>2, <2>4 DEF SweepParked, Sweep
    <3>2. b \in Batch /\ ToSet(inHand) = {b}
      BY <2>4, HandHead
    <3> HIDE DEF b
    <3>3. b \notin ToSet(inbox)
      <4>1. {b} \in SUBSET Int /\ ToSet(inbox) \in SUBSET Int /\ Precedes({b}, ToSet(inbox))
        BY <1>0, <3>2, ContentsFacts, BatchFacts DEF InOrder
      <4> QED
        BY <4>1, PrecedesApart
    <3>4. /\ b \in ToSet(inHand) \cup ToSet(inbox)
          /\ ToSet(inHand') = ToSet(inHand) \ {b} /\ ToSet(inbox') = ToSet(inbox) \ {b}
          /\ Ascending(inbox') /\ received' = received \cup {b}
          /\ UNCHANGED <<items, delivered, dropped, strayed, next>>
      <4>1. inbox' = inbox /\ received' = received
        BY <2>3
      <4>2. b \in received /\ Ascending(inbox)
        BY <1>0, <3>2 DEF OnePlace, Within, InOrder
      <4>3. UNCHANGED <<items, delivered, dropped, strayed, next>>
        BY <2>3, <3>1 DEF upVars, storeVars
      <4> QED
        BY <2>2, <3>2, <3>3, <4>1, <4>2, <4>3
    <3>5. InOrder' /\ OnePlace'
      BY <3>1, <3>4, AbandonKeepsPlaces
    <3>6. HandOver'
      BY <1>0, <2>1, <2>4, <3>1 DEF HandOver, Memory, upVars, loopVars, storeVars
    <3>7. TypeOK'
      <4>1. abandoned' \in SUBSET Batch
        BY <1>0, <3>1, <3>2 DEF TypeOK
      <4>2. UNCHANGED <<storeVars, dropped, faults>>
        BY <3>1
      <4> QED
        BY <1>0, <2>2, <2>3, <4>1, <4>2 DEF TypeOK, upVars, loopVars, ghostVars, storeVars
    <3>8. FeedsInOrder
      <4>1. next' = next /\ inbox' = inbox
        BY <2>3 DEF upVars
      <4> QED
        BY <1>n, <2>2, <4>1 DEF FeedsInOrder
    <3>9. UNCHANGED <<conf, items, reserved, loopVars, snk, ghostVars, delivered, dropped>>
      BY <2>3, <3>1 DEF storeVars
    <3> QED
      BY <3>5, <3>6, <3>7, <3>8, <3>9, Assemble, InnerFrame
  <2>5. CASE inHand # <<>> /\ ~Memory
    <3>1. StorePush(Head(inHand)) /\ UNCHANGED abandoned
      BY <1>2, <2>5 DEF SweepParked, Sweep
    <3>2. UNCHANGED <<conf, next, inbox, loopVars, snk, abandoned, received, delivered, strayed, ghostVars>>
      BY <2>3, <3>1 DEF upVars
    <3>3. /\ InOrder' /\ OnePlace' /\ Inner'
          /\ items' \in Seq(Batch) /\ reserved' = reserved /\ closed' = closed
          /\ dropped' \in [Reasons -> SUBSET Batch] /\ faults' \in Nat
      BY <2>1, <2>5, <3>1, <3>2, HandPushKeeps
    <3>4. HandOver'
      BY <1>0, <2>1, <2>5, <3>1, <3>3 DEF HandOver, Memory, upVars, loopVars
    <3>5. TypeOK'
      <4>1. /\ items' \in Seq(Batch) /\ reserved' = reserved /\ closed' = closed
            /\ dropped' \in [Reasons -> SUBSET Batch] /\ faults' \in Nat /\ abandoned' = abandoned
        BY <3>1, <3>3
      <4> QED
        BY <1>0, <2>2, <2>3, <4>1, SMTT(30) DEF TypeOK, upVars, loopVars, ghostVars
    <3> QED
      BY <3>3, <3>4, <3>5, Assemble
  <2>6. CASE inHand = <<>>
    <3>1. UNCHANGED <<storeVars, dropped, faults, abandoned>> /\ inHand' = inHand
      BY <1>2, <2>1, <2>6 DEF SweepParked
    <3>2. TypeOK'
      <4>1. UNCHANGED <<storeVars, dropped, faults, abandoned>>
        BY <3>1
      <4>2. inHand' \in Seq(Batch)
        BY <2>2
      <4> QED
        BY <1>0, <2>3, <4>1, <4>2 DEF TypeOK, upVars, loopVars, ghostVars, storeVars
    <3>3. HandOver'
      BY <1>0, <2>1, <2>6, <3>1 DEF HandOver, Memory, upVars, loopVars, storeVars
    <3>4. FeedsInOrder
      BY <1>n, <2>3, <3>1 DEF FeedsInOrder, upVars
    <3>5. UNCHANGED <<conf, items, reserved, loopVars, snk, ghostVars, delivered, dropped>>
          /\ UNCHANGED <<items, delivered, dropped, ledgerVars>>
      BY <2>3, <3>1 DEF upVars, ledgerVars, storeVars
    <3> QED
      BY <3>2, <3>3, <3>4, <3>5, Assemble, PlacesFrame, InnerFrame
  <2> QED
    BY <2>4, <2>5, <2>6
<1>3. CASE SweepRecv
  <2> DEFINE b == Head(inbox)
  <2>1. /\ rpc = "sweep" /\ inbox # <<>> /\ Sweep(b) /\ inbox' = Tail(inbox)
        /\ received' = received \cup {b} /\ inHand = <<>> /\ wpc = "gone" /\ dpc = "done"
        /\ UNCHANGED <<conf, upVars, drainVars, loopVars, snk, grace, rpc, delivered, strayed, ghostVars>>
    BY <1>0, <1>3 DEF SweepRecv, HandOver
  <2>2. /\ b \in Batch /\ b \in ToSet(inbox) /\ inbox' \in Seq(Batch) /\ Ascending(inbox')
        /\ ToSet(inbox') = ToSet(inbox) \ {b} /\ Precedes({b}, ToSet(inbox'))
    BY <2>1, InboxHead
  <2> HIDE DEF b
  <2>3. ToSet(inHand) = {} /\ ToSet(inHand') = {}
    BY <2>1 DEF ToSet, drainVars
  <2>4. UNCHANGED <<conf, upVars, drainVars, loopVars, snk, grace, rpc, delivered, strayed, ghostVars>>
        /\ received' = received \cup {b}
    BY <2>1
  <2>5. FeedsInOrder
    <3>1. next' = next
      BY <2>4 DEF upVars
    <3> QED
      BY <1>n, <2>2, <2>3, <3>1 DEF FeedsInOrder
  <2>6. received' \in SUBSET Batch
    BY <1>0, <2>2, <2>4 DEF TypeOK
  <2>7. CASE Memory
    <3>1. abandoned' = abandoned \cup {b} /\ UNCHANGED <<storeVars, dropped, faults>>
      BY <2>1, <2>7 DEF Sweep
    <3>2. UNCHANGED <<items, delivered, dropped, strayed, next>>
      BY <2>4, <3>1 DEF upVars, storeVars
    <3>3. ToSet(inHand') = ToSet(inHand) \ {b}
      BY <2>3
    <3>4. InOrder' /\ OnePlace'
      BY <2>2, <2>4, <3>1, <3>2, <3>3, AbandonKeepsPlaces
    <3>5. HandOver'
      BY <1>0, <2>1, <2>7, <3>1 DEF HandOver, Memory, upVars, loopVars, storeVars, drainVars
    <3>6. TypeOK'
      <4>1. abandoned' \in SUBSET Batch /\ inbox' \in Seq(Batch)
        BY <1>0, <2>2, <3>1 DEF TypeOK
      <4>2. UNCHANGED <<storeVars, dropped, faults>>
        BY <3>1
      <4>3. UNCHANGED <<conf, upVars, drainVars, loopVars, snk, grace, rpc, delivered, strayed, ghostVars>>
        BY <2>4
      <4> QED
        BY <1>0, <2>6, <4>1, <4>2, <4>3 DEF TypeOK, upVars, loopVars, ghostVars, storeVars, drainVars
    <3>7. UNCHANGED <<conf, items, reserved, loopVars, snk, ghostVars, delivered, dropped>>
      BY <2>4, <3>1 DEF storeVars
    <3> QED
      BY <2>5, <3>4, <3>5, <3>6, <3>7, Assemble, InnerFrame
  <2>8. CASE ~Memory
    <3>1. StorePush(b) /\ UNCHANGED abandoned
      BY <2>1, <2>8 DEF Sweep
    <3>2. Precedes(ToSet(items), {b})
      BY <1>0, <2>2 DEF InOrder, Precedes
    <3>3. PICK lost \in SUBSET Batch, r \in Reasons : r # "shutdown" /\ Pushed(b, lost, r)
      BY <2>2, <3>1, <3>2, PushEffect
    <3>4. /\ b \in ToSet(inHand) \cup ToSet(inbox)
          /\ ToSet(inHand') = ToSet(inHand) \ {b}
          /\ Precedes({b}, ToSet(inHand') \cup ToSet(inbox'))
      BY <2>2, <2>3
    <3>5. UNCHANGED <<delivered, abandoned, strayed, next>>
      BY <2>4, <3>1 DEF upVars
    <3>6. InOrder' /\ OnePlace'
      BY <2>2, <2>4, <3>3, <3>4, <3>5, PushKeepsPlaces
    <3>7. Inner'
      BY <2>4, <2>5, <3>3, <3>4, InnerPush
    <3>8. /\ items' \in Seq(Batch) /\ reserved' = reserved /\ closed' = closed
          /\ dropped' \in [Reasons -> SUBSET Batch] /\ faults' \in Nat /\ abandoned' = abandoned
      BY <3>1, <3>3 DEF Pushed
    <3>9. HandOver'
      BY <1>0, <2>1, <2>8, <3>8 DEF HandOver, Memory, upVars, loopVars, drainVars
    <3>10. TypeOK'
      <4>1. inbox' \in Seq(Batch)
        BY <2>2
      <4>2. UNCHANGED <<conf, upVars, drainVars, loopVars, snk, grace, rpc, delivered, strayed, ghostVars>>
        BY <2>4
      <4> QED
        BY <1>0, <2>6, <3>8, <4>1, <4>2, SMTT(30) DEF TypeOK, upVars, loopVars, ghostVars, drainVars
    <3> QED
      BY <3>6, <3>7, <3>9, <3>10, Assemble
  <2> QED
    BY <2>7, <2>8
<1>4. CASE SweepEnds
  <2>1. /\ rpc = "sweep" /\ inbox = <<>> /\ rpc' = "finish" /\ Drop("shutdown", abandoned)
        /\ abandoned' = {} /\ inHand = <<>>
        /\ UNCHANGED <<conf, upVars, inbox, drainVars, storeVars, loopVars, snk, grace, received,
                       delivered, strayed, ghostVars, faults>>
    BY <1>0, <1>4 DEF SweepEnds, HandOver
  <2>2. "shutdown" \in Reasons /\ abandoned \in SUBSET Batch /\ dropped \in [Reasons -> SUBSET Batch]
    BY <1>0 DEF TypeOK, Reasons
  <2>3. /\ dropped' \in [Reasons -> SUBSET Batch]
        /\ AllDropped' = AllDropped \cup abandoned
        /\ dropped'["shutdown"] = dropped["shutdown"] \cup abandoned
        /\ \A q \in Reasons : q # "shutdown" => dropped'[q] = dropped[q]
    BY <2>1, <2>2, DropEffect
  <2>4. UNCHANGED <<conf, upVars, inbox, drainVars, storeVars, loopVars, snk, grace, received,
                    delivered, strayed, ghostVars, faults>> /\ rpc' = "finish" /\ abandoned' = {}
    BY <2>1
  <2>5. InOrder'
    BY <1>0, <2>4 DEF InOrder, storeVars, drainVars
  <2>6. OnePlace'
    <3>1. Within' = Within
      BY <2>4 DEF Within, storeVars, drainVars
    <3>2. \A q \in Reasons : dropped[q] \subseteq AllDropped
      BY <2>2, DroppedIsUnion
    <3>3. \A q \in Reasons : q # "shutdown" => dropped'[q] \cap dropped'["shutdown"] = {}
      BY <1>0, <2>2, <2>3, <3>2 DEF OnePlace
    <3>4. \A p, q \in Reasons : p # q => dropped'[p] \cap dropped'[q] = {}
      <4> TAKE p, q \in Reasons
      <4>1. CASE p = "shutdown"
        BY <3>3, <4>1
      <4>2. CASE q = "shutdown"
        BY <3>3, <4>2
      <4>3. CASE p # "shutdown" /\ q # "shutdown"
        BY <1>0, <2>3, <4>3 DEF OnePlace
      <4> QED
        BY <4>1, <4>2, <4>3
    <3>5. next' = next /\ inbox' = inbox /\ received' = received /\ strayed' = strayed
      BY <2>4 DEF upVars
    <3>6. received' = Within' \cup abandoned' \cup AllDropped'
          /\ received' \cup ToSet(inbox') \cup strayed' = 1..(next' - 1)
      BY <1>0, <2>3, <2>4, <3>1, <3>5 DEF OnePlace
    <3>7. AllDropped' \cap (Within' \cup ToSet(inbox') \cup abandoned') = {}
          /\ abandoned' \cap (Within' \cup ToSet(inbox')) = {}
      BY <1>0, <2>3, <2>4, <3>1, <3>5 DEF OnePlace
    <3> QED
      BY <3>4, <3>6, <3>7 DEF OnePlace
  <2>7. HandOver'
    BY <1>0, <2>1 DEF HandOver, Memory, upVars, loopVars, storeVars, drainVars
  <2>8. TypeOK'
    <3>1. dropped' \in [Reasons -> SUBSET Batch] /\ abandoned' \in SUBSET Batch
      BY <2>3, <2>4
    <3> QED
      BY <1>0, <2>4, <3>1 DEF TypeOK, upVars, loopVars, ghostVars, storeVars, drainVars
  <2>9. Inner'
    <3>1. WindowInv /\ CollectInv /\ ObserveInv /\ ExposeInv /\ LandInv /\ DiskKeepsAtShutdown
      BY DEF IInv
    <3>2. WindowInv' /\ CollectInv' /\ ExposeInv'
      BY <2>4, <3>1 DEF WindowInv, CollectInv, ExposeInv, Gap, OnSendPath, Collects, storeVars, loopVars,
                        ghostVars
    <3>3. ObserveInv'
      BY <2>4, <3>1 DEF ObserveInv, ObservedCount, OnSendPath, upVars, storeVars, loopVars, ghostVars,
                        drainVars
    <3>4. LandInv'
      BY <2>3, <2>4, <3>1 DEF LandInv, Answered, AtMostOnce, ghostVars
    <3>5. DiskKeepsAtShutdown'
      BY <1>0, <2>3, <2>4, <3>1 DEF HandOver, DiskKeepsAtShutdown, AtMostOnce, Memory, ghostVars
    <3> QED
      BY <3>2, <3>3, <3>4, <3>5 DEF Inner
  <2> QED
    BY <2>5, <2>6, <2>7, <2>8, <2>9, Assemble
<1>5. CASE Finish
  <2>1. /\ rpc = "finish" /\ rpc' = "done" /\ wpc = "gone" /\ dpc = "done" /\ closed
        /\ inHand = <<>> /\ inbox = <<>> /\ abandoned = {}
        /\ UNCHANGED <<conf, upVars, inbox, drainVars, loopVars, snk, grace, abandoned, received,
                       delivered, strayed, ghostVars, faults>>
    BY <1>0, <1>5 DEF Finish, HandOver
  <2>2. UNCHANGED <<conf, upVars, inbox, drainVars, loopVars, snk, grace, abandoned, received,
                    delivered, strayed, ghostVars, faults>> /\ rpc' = "done"
    BY <2>1
  <2>3. CASE Memory
    <3>1. Committed(Len(items)) /\ Drop("shutdown", ToSet(items))
      BY <1>5, <2>3 DEF Finish
    <3>2. items \in Seq(Batch) /\ reserved \in Nat /\ reserved <= Len(items)
      BY DEF IInv, TypeOK, WindowInv
    <3>3. Len(items) \in 0..Len(items) /\ "shutdown" \in Reasons
      BY <3>2 DEF Reasons
    <3>4. /\ items' \in Seq(Batch) /\ Len(items') = Len(items) - Len(items)
          /\ First(Len(items)) = {items[i] : i \in 1..Len(items)}
          /\ reserved' \in Nat /\ reserved' <= Len(items') /\ closed' = closed
      BY <3>1, <3>2, <3>3, CommitEffect
    <3>5. items' = <<>>
      BY <3>2, <3>4
    <3>6. GivesUp(Len(items), "shutdown")
      <4>1. First(Len(items)) = ToSet(items)
        BY <3>2, <3>4, ToSetByIndex
      <4> QED
        BY <2>2, <3>1, <4>1 DEF GivesUp
    <3>7. UNCHANGED ledgerVars
      BY <2>2 DEF ledgerVars, upVars, drainVars
    <3>8. /\ InOrder' /\ OnePlace'
          /\ dropped' \in [Reasons -> SUBSET Batch] /\ AllDropped' = AllDropped \cup First(Len(items))
      BY <3>3, <3>6, <3>7, GivesUpKeepsPlaces
    <3>9. HandOver'
      BY <1>0, <2>1, <3>4, <3>5 DEF HandOver, Memory, upVars, loopVars, drainVars
    <3>10. TypeOK'
      <4>1. /\ items' \in Seq(Batch) /\ reserved' \in Nat /\ closed' = closed
            /\ dropped' \in [Reasons -> SUBSET Batch]
        BY <3>4, <3>8
      <4> QED
        BY <1>0, <2>2, <4>1 DEF TypeOK, upVars, loopVars, ghostVars, drainVars
    <3>11. Inner'
      <4>1. WindowInv /\ CollectInv /\ ObserveInv /\ ExposeInv /\ LandInv /\ DiskKeepsAtShutdown
            /\ wpc' = "gone"
        BY <2>1 DEF IInv, loopVars
      <4>2. WindowInv' /\ CollectInv' /\ ExposeInv'
        BY <2>2, <3>4, <4>1 DEF WindowInv, CollectInv, ExposeInv, Collects, loopVars
      <4>3. ObserveInv'
        BY <2>2, <4>1 DEF ObserveInv, ghostVars
      <4>4. LandInv'
        BY <2>2, <3>8, <4>1 DEF LandInv, Answered, AtMostOnce, ghostVars
      <4>5. DiskKeepsAtShutdown'
        BY <2>2, <2>3 DEF DiskKeepsAtShutdown, Memory
      <4> QED
        BY <4>2, <4>3, <4>4, <4>5 DEF Inner
    <3> QED
      BY <3>8, <3>9, <3>10, <3>11, Assemble
  <2>4. CASE ~Memory
    <3>1. UNCHANGED <<storeVars, dropped>>
      BY <1>5, <2>4 DEF Finish
    <3>2. TypeOK'
      BY <1>0, <2>2, <3>1 DEF TypeOK, upVars, loopVars, ghostVars, storeVars, drainVars
    <3>3. HandOver'
      BY <1>0, <2>1, <2>4, <3>1 DEF HandOver, Memory, upVars, loopVars, storeVars, drainVars
    <3>4. FeedsInOrder
      BY <1>n, <2>2 DEF FeedsInOrder, upVars, drainVars
    <3>5. UNCHANGED <<conf, items, reserved, loopVars, snk, ghostVars, delivered, dropped>>
          /\ UNCHANGED <<items, delivered, dropped, ledgerVars>>
      BY <2>2, <3>1 DEF upVars, ledgerVars, storeVars, drainVars
    <3> QED
      BY <3>2, <3>3, <3>4, <3>5, Assemble, PlacesFrame, InnerFrame
  <2> QED
    BY <2>3, <2>4
<1> QED
  BY <1>1, <1>2, <1>3, <1>4, <1>5 DEF StopStep


-----------------------------------------------------------------------------
(* The write loop. *)

\* What the parts of the invariant say together while the write loop runs.
LEMMA LoopFacts ==
  ASSUME IInv, wpc # "gone"
  PROVE  /\ items \in Seq(Batch) /\ snk.sub \in Seq(Batch)
         /\ Len(items) \in Nat /\ Len(snk.sub) \in Nat /\ reserved \in Nat
         /\ fl.out \in Nat /\ fl.observed \in Nat /\ snk.owed \in Nat
         /\ fl.out <= fl.observed /\ fl.observed <= reserved /\ reserved <= Len(items)
         /\ fl.out <= Len(items)
         /\ Gap \in {0, 1} /\ Len(snk.sub) = fl.out - Gap
         /\ \A i \in 1..(fl.out - Gap) : snk.sub[i] = items[i + Gap]
<1>1. items \in Seq(Batch) /\ reserved \in Nat
      /\ fl \in [out : Nat, observed : Nat, collecting : BOOLEAN, closed : BOOLEAN]
      /\ snk \in [win : Nat, sub : Seq(Batch), full : BOOLEAN, visible : BOOLEAN, owed : Nat]
  BY DEF IInv, TypeOK
<1>2. snk.sub \in Seq(Batch) /\ fl.out \in Nat /\ fl.observed \in Nat /\ snk.owed \in Nat
  BY <1>1
<1>3. Len(items) \in Nat /\ Len(snk.sub) \in Nat
  BY <1>1, <1>2
<1>4. /\ fl.out <= fl.observed /\ fl.observed <= reserved /\ reserved <= Len(items)
      /\ Len(snk.sub) = fl.out - Gap
      /\ \A i \in 1..(fl.out - Gap) : snk.sub[i] = items[i + Gap]
  BY DEF IInv, WindowInv
<1>5. Gap \in {0, 1}
  BY DEF Gap
<1> QED
  BY <1>1, <1>2, <1>3, <1>4, <1>5

\* What the sink has are among the store's first fl.out items.
LEMMA SubFacts ==
  ASSUME IInv, wpc # "gone"
  PROVE  /\ ToSet(snk.sub) \subseteq {items[i] : i \in 1..fl.out}
         /\ ToSet(snk.sub) \subseteq ToSet(items)
         /\ Gap = 0 => ToSet(snk.sub) = {items[i] : i \in 1..fl.out}
<1>1. /\ items \in Seq(Batch) /\ snk.sub \in Seq(Batch) /\ Len(items) \in Nat
      /\ fl.out \in Nat /\ fl.out <= Len(items)
      /\ Gap \in {0, 1} /\ Len(snk.sub) = fl.out - Gap
      /\ \A i \in 1..(fl.out - Gap) : snk.sub[i] = items[i + Gap]
  BY LoopFacts
<1>2. ToSet(snk.sub) = {snk.sub[i] : i \in 1..Len(snk.sub)} /\ ToSet(items) = {items[i] : i \in 1..Len(items)}
  BY <1>1, ToSetByIndex
<1>3. ASSUME NEW i \in 1..Len(snk.sub) PROVE \E j \in 1..fl.out : snk.sub[i] = items[j]
  <2>1. i + Gap \in 1..fl.out /\ snk.sub[i] = items[i + Gap]
    BY <1>1
  <2> QED
    BY <2>1
<1>4. 1..fl.out \subseteq 1..Len(items)
  BY <1>1
<1>5. Gap = 0 => \A i \in 1..fl.out : i \in 1..Len(snk.sub) /\ snk.sub[i] = items[i]
  BY <1>1
<1>6. ToSet(snk.sub) \subseteq {items[i] : i \in 1..fl.out}
  BY <1>2, <1>3
<1>7. {items[i] : i \in 1..fl.out} \subseteq ToSet(items)
  BY <1>2, <1>4
<1>8. Gap = 0 => {items[i] : i \in 1..fl.out} \subseteq ToSet(snk.sub)
  BY <1>2, <1>5
<1> QED
  BY <1>6, <1>7, <1>8

\* The store's first k items, by position.
LEMMA FirstFacts ==
  ASSUME items \in Seq(Batch), NEW k \in 0..Len(items)
  PROVE  First(k) = {items[i] : i \in 1..k} /\ First(k) \subseteq ToSet(items)
<1>1. (1..k) \cap DOMAIN items = 1..k
  OBVIOUS
<1>2. First(k) = {items[i] : i \in 1..k}
  BY <1>1 DEF First
<1>3. ToSet(items) = {items[i] : i \in 1..Len(items)} /\ 1..k \subseteq 1..Len(items)
  BY ToSetByIndex
<1> QED
  BY <1>2, <1>3

\* What stays as it is around a step of the write loop.
LEMMA LoopContext ==
  ASSUME IInv, wpc # "gone", UNCHANGED <<outside, received, strayed>>, closed' = closed
  PROVE  /\ HandOver' /\ UNCHANGED ledgerVars /\ conf' = conf
         /\ rpc = "run" /\ strayed = {} /\ next' = next /\ inbox' = inbox /\ inHand' = inHand
<1>1. HandOver /\ TypeOK
  BY DEF IInv
<1>2. /\ conf' = conf /\ next' = next /\ permit' = permit /\ hungUp' = hungUp /\ inbox' = inbox
      /\ dpc' = dpc /\ inHand' = inHand /\ grace' = grace /\ rpc' = rpc /\ abandoned' = abandoned
      /\ received' = received /\ strayed' = strayed
  BY DEF outside, upVars, drainVars
<1>3. rpc = "run" /\ strayed = {}
  BY <1>1 DEF HandOver
<1>4. HandOver'
  BY <1>1, <1>2, <1>3 DEF HandOver, Memory
<1> QED
  BY <1>2, <1>3, <1>4 DEF ledgerVars

\* What a store of numbered batches can hold.
LEMMA StoreBound ==
  ASSUME IInv
  PROVE  Len(items) \in Nat /\ Len(items) <= NBatches
<1>1. items \in Seq(Batch) /\ \A i \in 1..Len(items) : items[i] >= i
  BY DEF IInv, TypeOK, InOrder
<1>2. Len(items) \in Nat
  BY <1>1
<1>3. CASE Len(items) > 0
  <2>1. Len(items) \in 1..Len(items) /\ items[Len(items)] \in Batch
    BY <1>1, <1>2, <1>3
  <2>2. items[Len(items)] >= Len(items) /\ items[Len(items)] <= NBatches /\ items[Len(items)] \in Int
    BY <1>1, <2>1, BatchFacts
  <2> QED
    BY <1>2, <2>2, SinkAssumption
<1>4. CASE Len(items) = 0
  BY <1>4, SinkAssumption
<1> QED
  BY <1>2, <1>3, <1>4

\* A closed window's answers are read to the end: the grace arm is off.
LEMMA OwedFacts ==
  ASSUME IInv, wpc # "gone", snk.owed > 0
  PROVE  OwedRound /\ Window = fl.out /\ Collects /\ fl.out > 0
<1>1. CollectInv /\ fl.out \in Nat /\ fl.out <= Len(items) /\ snk.owed \in Nat
  BY LoopFacts DEF IInv
<1>2. Collects /\ fl.closed /\ snk.owed = fl.out
  BY <1>1 DEF CollectInv
<1>3. Window = fl.out
  BY <1>2 DEF Window, Collects
<1>4. fl.out # Unbounded
  BY <1>1, StoreBound, SinkAssumption DEF Unbounded
<1> QED
  BY <1>2, <1>3, <1>4 DEF OwedRound

\* Under at-most-once nothing in the store was applied, unless its answer is owed.
LEMMA NotYetLanded ==
  ASSUME IInv, AtMostOnce, snk.owed = 0, NEW b \in ToSet(items)
  PROVE  landed[b] = 0 /\ b \in Batch
<1>0. TypeOK /\ InOrder /\ OnePlace /\ LandInv
  BY DEF IInv
<1>1. b \in Batch
  BY <1>0, ContentsFacts
<1>2. b \notin AllDropped
  BY <1>0 DEF OnePlace, Within
<1>3. b \notin ToSet(delivered)
  <2>1. Precedes(ToSet(delivered), ToSet(items)) /\ ToSet(items) \in SUBSET Int /\ ToSet(delivered) \in SUBSET Int
    BY <1>0, ContentsFacts DEF InOrder, Precedes
  <2> QED
    BY <2>1, PrecedesApart
<1>4. landed[b] \in Nat
  BY <1>0, <1>1 DEF TypeOK
<1>5. Answered = {}
  BY DEF Answered
<1> QED
  BY <1>0, <1>1, <1>2, <1>3, <1>4, <1>5 DEF LandInv

\* write_loop gives up at the grace: what may have been applied is dropped under
\* at-most-once, so that no later run applies it again.
LEMMA GiveUpKeeps ==
  ASSUME IInv, wpc # "gone", snk.owed = 0, NEW n \in 0..Len(items),
         NEW bs \in SUBSET First(n), GiveUp(n, bs), UNCHANGED outside,
         ~Collects \/ snk.visible => First(n) \subseteq exposed
  PROVE  IInv'
<1>0. TypeOK /\ WindowInv /\ CollectInv /\ ObserveInv /\ LandInv /\ DiskKeepsAtShutdown
  BY DEF IInv
<1> DEFINE k == DropsCutOff(n)
<1>1. /\ Committed(k) /\ Drop("shutdown", First(k)) /\ wpc' = "gone"
      /\ snk' = [snk EXCEPT !.sub = <<>>]
      /\ UNCHANGED <<fast, owedArm, resubmit, fl, received, delivered, strayed, seen, exposed, faults>>
  BY DEF GiveUp
<1>2. PICK applied \in SUBSET AtRisk(bs) : Land(applied)
  BY DEF GiveUp
<1>3. /\ items \in Seq(Batch) /\ reserved \in Nat /\ reserved <= Len(items) /\ Len(items) \in Nat
      /\ dropped \in [Reasons -> SUBSET Batch]
  BY <1>0, LoopFacts DEF TypeOK
<1>4. k \in 0..Len(items) /\ (AtMostOnce => k = Reached(n)) /\ (~AtMostOnce => k = 0)
  BY <1>3 DEF DropsCutOff, Reached
<1>5. n \in Nat /\ n <= Len(items)
  BY <1>3
<1> HIDE DEF k
<1>6. /\ items' \in Seq(Batch) /\ reserved' \in Nat /\ reserved' <= Len(items') /\ closed' = closed
      /\ First(k) \subseteq Batch
  BY <1>1, <1>3, <1>4, CommitEffect
<1>7. /\ HandOver' /\ UNCHANGED ledgerVars /\ conf' = conf
  BY <1>1, <1>6, LoopContext
<1>8. GivesUp(k, "shutdown") /\ "shutdown" \in Reasons
  BY <1>1 DEF GivesUp, Reasons
<1>9. /\ InOrder' /\ OnePlace'
      /\ dropped' \in [Reasons -> SUBSET Batch] /\ AllDropped' = AllDropped \cup First(k)
  BY <1>4, <1>7, <1>8, GivesUpKeepsPlaces
<1>10. /\ snk' \in [win : Nat, sub : Seq(Batch), full : BOOLEAN, visible : BOOLEAN, owed : Nat]
       /\ snk'.sub = <<>> /\ snk'.owed = 0 /\ snk'.visible = snk.visible /\ snk'.full = snk.full
  <2>1. <<>> \in Seq(Batch) /\ snk \in [win : Nat, sub : Seq(Batch), full : BOOLEAN, visible : BOOLEAN, owed : Nat]
    BY <1>0 DEF TypeOK
  <2> QED
    BY <1>1, <2>1
<1>11. landed' \in [Batch -> Nat]
       /\ \A b \in Batch : landed'[b] = IF b \in applied THEN landed[b] + 1 ELSE landed[b]
  <2>1. landed \in [Batch -> Nat]
    BY <1>0 DEF TypeOK
  <2> QED
    BY <1>2, <2>1, LandEffect
<1>12. TypeOK'
  <2>1. UNCHANGED <<conf, upVars, inbox, drainVars, grace, rpc, abandoned>>
    BY DEF outside
  <2>2. UNCHANGED <<fast, owedArm, resubmit, fl, received, delivered, strayed, seen, exposed, faults>>
        /\ wpc' = "gone"
    BY <1>1
  <2>3. /\ items' \in Seq(Batch) /\ reserved' \in Nat /\ closed' = closed
        /\ dropped' \in [Reasons -> SUBSET Batch] /\ landed' \in [Batch -> Nat]
        /\ snk' \in [win : Nat, sub : Seq(Batch), full : BOOLEAN, visible : BOOLEAN, owed : Nat]
    BY <1>6, <1>9, <1>10, <1>11
  <2> QED
    BY <1>0, <2>1, <2>2, <2>3, SMTT(30) DEF TypeOK, upVars, drainVars
<1>13. WindowInv'
  BY <1>0, <1>1, <1>6, <1>7, <1>10 DEF WindowInv
<1>14. CollectInv' /\ ExposeInv'
  BY <1>0, <1>1, <1>7, <1>10 DEF CollectInv, ExposeInv, Collects
<1>15. ObserveInv'
  BY <1>0, <1>1 DEF ObserveInv
<1>16. First(0) = {}
  BY <1>3 DEF First
<1>17. LandInv'
  <2>1. Answered' = {} /\ AtMostOnce' = AtMostOnce /\ ToSet(delivered') = ToSet(delivered)
    BY <1>1, <1>7, <1>10 DEF Answered, AtMostOnce
  <2>2. Answered = {}
    BY DEF Answered
  <2>3. ASSUME AtMostOnce, NEW b \in applied PROVE landed[b] = 0 /\ b \in First(k) /\ b \in Batch
    <3>1. b \in First(n) /\ b \in ToSet(items)
      BY <1>3, <1>5, <2>3, FirstFacts DEF AtRisk
    <3>2. k = n
      BY <1>2, <1>4, <2>3 DEF AtRisk, Reached
    <3> QED
      BY <2>3, <3>1, <3>2, NotYetLanded
  <2>4. ASSUME AtMostOnce, NEW b \in Batch
        PROVE  landed'[b] <= 1 /\ (landed'[b] > 0 => b \in ToSet(delivered) \cup AllDropped')
    <3>1. CASE b \in applied
      BY <1>9, <1>11, <2>3, <2>4, <3>1
    <3>2. CASE b \notin applied
      BY <1>0, <1>9, <1>11, <2>2, <2>4, <3>2 DEF LandInv
    <3> QED
      BY <3>1, <3>2
  <2> QED
    BY <2>1, <2>4 DEF LandInv
<1>18. DiskKeepsAtShutdown'
  <2>1. dropped'["shutdown"] = dropped["shutdown"] \cup First(k)
    BY <1>1, <1>3, <1>6, <1>8, DropEffect
  <2>2. AtMostOnce => First(k) \subseteq exposed
    BY <1>4, <1>16 DEF Reached, Collects
  <2>3. ~AtMostOnce => First(k) = {}
    BY <1>4, <1>16
  <2> QED
    BY <1>0, <1>1, <1>7, <2>1, <2>2, <2>3 DEF DiskKeepsAtShutdown, AtMostOnce, Memory
<1> QED
  BY <1>7, <1>9, <1>12, <1>13, <1>14, <1>15, <1>17, <1>18, Assemble DEF Inner

\* The types of the sink's and the window's records.
SinkType == [win : Nat, sub : Seq(Batch), full : BOOLEAN, visible : BOOLEAN, owed : Nat]
WindowType == [out : Nat, observed : Nat, collecting : BOOLEAN, closed : BOOLEAN]

LoopPlaces == {"peek", "attempt", "sending", "backoff", "round", "resubmitting", "fill",
               "submitting", "waiting", "acking", "gone"}

\* The types of what a step of the write loop may change.
LoopTyped ==
  /\ items \in Seq(Batch) /\ reserved \in Nat /\ closed \in BOOLEAN
  /\ wpc \in LoopPlaces /\ fast \in BOOLEAN /\ owedArm \in BOOLEAN /\ resubmit \in BOOLEAN
  /\ fl \in WindowType /\ snk \in SinkType
  /\ received \in SUBSET Batch /\ delivered \in Seq(Batch)
  /\ dropped \in [Reasons -> SUBSET Batch] /\ strayed \in SUBSET Batch
  /\ landed \in [Batch -> Nat] /\ seen \in [Batch -> Nat]
  /\ exposed \in SUBSET Batch /\ faults \in Nat

\* A step of the write loop keeps the types of what is outside it.
LEMMA TypeFrame ==
  /\ TypeOK => LoopTyped
  /\ TypeOK /\ UNCHANGED outside /\ LoopTyped' => TypeOK'
<1>1. TypeOK => LoopTyped
  BY DEF TypeOK, LoopTyped, LoopPlaces, WindowType, SinkType
<1>2. ASSUME TypeOK, UNCHANGED outside, LoopTyped' PROVE TypeOK'
  <2>1. /\ conf' = conf /\ next' = next /\ permit' = permit /\ hungUp' = hungUp /\ inbox' = inbox
        /\ dpc' = dpc /\ inHand' = inHand /\ grace' = grace /\ rpc' = rpc /\ abandoned' = abandoned
    BY <1>2 DEF outside, upVars, drainVars
  <2> QED
    BY <1>2, <2>1 DEF TypeOK, LoopTyped, LoopPlaces, WindowType, SinkType
<1> QED
  BY <1>1, <1>2

\* The sink's side of a delivered head: the next one is its oldest, and a collecting
\* sink owes the answers of the others.
HeadAnswered ==
  /\ snk' \in SinkType /\ landed' \in [Batch -> Nat]
  /\ snk'.visible = snk.visible /\ ~snk'.full
  /\ Len(snk'.sub) = Sub1(fl.out)
  /\ \A i \in 1..Sub1(fl.out) : snk'.sub[i] = items[i + 1]
  /\ Collects => snk'.owed = Sub1(fl.out) /\ (wpc = "acking" => snk.visible)
  /\ ~Collects => snk'.owed = 0

\* Delivery::Delivered: the head leaves the store and the window.
LEMMA DeliveredKeeps ==
  ASSUME IInv, wpc \in {"sending", "acking"}, HeadDelivered, HeadAnswered,
         UNCHANGED <<outside, seen, exposed, faults>>, LandInv'
  PROVE  IInv'
<1>0. TypeOK /\ InOrder /\ WindowInv /\ CollectInv /\ ObserveInv /\ ExposeInv /\ DiskKeepsAtShutdown
  BY DEF IInv
<1>1. /\ items \in Seq(Batch) /\ reserved \in Nat /\ Len(items) \in Nat
      /\ fl.out \in Nat /\ fl.observed \in Nat
      /\ fl.out <= fl.observed /\ fl.observed <= reserved /\ reserved <= Len(items)
  BY LoopFacts
<1>2. /\ reserved > 0 /\ (wpc = "acking" => fl.out > 0)
      /\ (wpc = "sending" => fl.out = 0 /\ fl.observed = 0)
  BY <1>0 DEF WindowInv, OnSendPath
<1>3. 1 \in 0..Len(items) /\ items # <<>> /\ 1 \in 1..Len(items)
  BY <1>1, <1>2
<1>4. /\ Committed(1) /\ fl' = SettleHead(fl) /\ delivered' = Append(delivered, HeadItem)
      /\ wpc' = "peek" /\ UNCHANGED <<fast, owedArm, resubmit, received, dropped, strayed>>
  BY DEF HeadDelivered
<1>5. /\ items' \in Seq(Batch) /\ Len(items') = Len(items) - 1
      /\ \A i \in 1..(Len(items) - 1) : items'[i] = items[i + 1]
      /\ reserved' \in Nat /\ reserved' <= Len(items')
      /\ reserved' = (IF reserved > 1 THEN reserved - 1 ELSE 0)
      /\ closed' = closed
  BY <1>1, <1>3, <1>4, CommitEffect
<1>6. /\ HandOver' /\ UNCHANGED ledgerVars /\ conf' = conf
      /\ next' = next /\ inbox' = inbox /\ inHand' = inHand
  BY <1>4, <1>5, LoopContext
<1>7. /\ InOrder' /\ OnePlace' /\ delivered' \in Seq(Batch)
  BY <1>3, <1>4, <1>6, DeliversKeepsPlaces DEF Delivers
<1>8. /\ fl' \in WindowType
      /\ fl'.out = Sub1(fl.out) /\ fl'.observed = Sub1(fl.observed) /\ fl'.collecting = fl.collecting
      /\ fl'.closed = IF Sub1(fl.out) = 0 THEN FALSE ELSE fl.closed
  <2>1. fl \in [out : Nat, observed : Nat, collecting : BOOLEAN, closed : BOOLEAN]
    BY <1>0 DEF TypeOK
  <2>2. Sub1(fl.out) \in Nat /\ Sub1(fl.observed) \in Nat
    BY <1>1 DEF Sub1
  <2> QED
    BY <1>4, <2>1, <2>2 DEF SettleHead, WindowType
<1>9. /\ Sub1(fl.out) = (IF fl.out = 0 THEN 0 ELSE fl.out - 1)
      /\ Sub1(fl.observed) = (IF fl.observed = 0 THEN 0 ELSE fl.observed - 1)
  BY DEF Sub1
<1>10. TypeOK'
  <2>1. /\ fast \in BOOLEAN /\ owedArm \in BOOLEAN /\ resubmit \in BOOLEAN /\ closed \in BOOLEAN
        /\ received \in SUBSET Batch /\ dropped \in [Reasons -> SUBSET Batch] /\ strayed \in SUBSET Batch
        /\ seen \in [Batch -> Nat] /\ exposed \in SUBSET Batch /\ faults \in Nat
    BY <1>0 DEF TypeOK
  <2>2. /\ fast' \in BOOLEAN /\ owedArm' \in BOOLEAN /\ resubmit' \in BOOLEAN /\ closed' \in BOOLEAN
        /\ received' \in SUBSET Batch /\ dropped' \in [Reasons -> SUBSET Batch] /\ strayed' \in SUBSET Batch
        /\ seen' \in [Batch -> Nat] /\ exposed' \in SUBSET Batch /\ faults' \in Nat
    BY <1>4, <1>5, <2>1
  <2>3. LoopTyped'
    BY <1>4, <1>5, <1>7, <1>8, <2>2 DEF LoopTyped, LoopPlaces, WindowType, HeadAnswered
  <2> QED
    BY <1>0, <2>3, TypeFrame
<1>11. Gap' = 0 /\ ~OnSendPath'
  BY <1>4 DEF Gap, OnSendPath
<1>12. WindowInv'
  <2>1. fl'.out <= fl'.observed /\ fl'.observed <= reserved'
    BY <1>1, <1>5, <1>8, <1>9
  <2>2. ASSUME NEW i \in 1..fl'.out PROVE snk'.sub[i] = items'[i + 0]
    <3>1. i \in 1..Sub1(fl.out) /\ i \in 1..(Len(items) - 1) /\ i + 0 = i
      BY <1>1, <1>8, <1>9
    <3>2. snk'.sub[i] = items[i + 1]
      BY <3>1 DEF HeadAnswered
    <3> QED
      BY <1>5, <3>1, <3>2
  <2>3. Len(snk'.sub) = fl'.out - 0 /\ fl'.out - 0 = fl'.out
    BY <1>1, <1>8, <1>9 DEF HeadAnswered
  <2>4. resubmit' => conf'.sink = "windowed"
    BY <1>0, <1>4, <1>6 DEF WindowInv
  <2> QED
    BY <1>4, <1>5, <1>11, <2>1, <2>2, <2>3, <2>4 DEF WindowInv
<1>13. CollectInv'
  <2>1. CASE ~Collects
    BY <1>0, <1>4, <1>6, <1>8, <2>1 DEF CollectInv, Collects, HeadAnswered
  <2>2. CASE Collects
    <3>1. ~fl.collecting
      BY <1>0, <2>2 DEF CollectInv
    <3>2. fl'.out \in Nat /\ snk'.owed = fl'.out
      BY <1>1, <1>8, <1>9, <2>2 DEF HeadAnswered
    <3>3. ASSUME fl'.out > 0 PROVE fl'.closed /\ snk.visible
      <4>1. fl.out > 1 /\ Sub1(fl.out) # 0 /\ wpc = "acking"
        BY <1>1, <1>2, <1>8, <1>9, <3>3
      <4>2. fl.closed
        BY <1>0, <1>1, <2>2, <3>1, <4>1 DEF CollectInv
      <4> QED
        BY <1>8, <2>2, <4>1, <4>2 DEF HeadAnswered
    <3>4. fl'.closed => fl'.out > 0
      <4>1. Sub1(fl.out) = 0 => ~fl'.closed
        BY <1>8
      <4>2. Sub1(fl.out) # 0 => Sub1(fl.out) > 0
        BY <1>1, <1>9
      <4> QED
        BY <1>8, <4>1, <4>2
    <3> QED
      BY <1>4, <1>6, <1>8, <2>2, <3>1, <3>2, <3>3, <3>4 DEF CollectInv, Collects, HeadAnswered
  <2> QED
    BY <2>1, <2>2
<1>14. ObserveInv'
  <2>1. ObservedCount' = Sub1(fl.observed)
    BY <1>8, <1>11 DEF ObservedCount
  <2>2. ASSUME NEW i \in 1..Len(items')
        PROVE  seen[items'[i]] = IF i <= Sub1(fl.observed) THEN 1 ELSE 0
    <3>1. i \in 1..(Len(items) - 1) /\ i + 1 \in 1..Len(items) /\ items'[i] = items[i + 1]
      BY <1>1, <1>5
    <3>2. seen[items[i + 1]] = IF i + 1 <= ObservedCount THEN 1 ELSE 0
      BY <1>0, <3>1 DEF ObserveInv
    <3>3. i + 1 <= ObservedCount <=> i <= Sub1(fl.observed)
      BY <1>1, <1>2, <1>9, <3>1 DEF ObservedCount, OnSendPath
    <3> QED
      BY <3>1, <3>2, <3>3
  <2> QED
    BY <1>0, <1>4, <1>6, <2>1, <2>2 DEF ObserveInv
<1>15. ExposeInv'
  <2>1. ASSUME ~Collects \/ snk.visible, NEW i \in 1..fl'.out PROVE items'[i] \in exposed
    <3>1. i \in 1..(Len(items) - 1) /\ i + 1 \in 1..fl.out /\ items'[i] = items[i + 1]
      BY <1>1, <1>5, <1>8, <1>9
    <3> QED
      BY <1>0, <2>1, <3>1 DEF ExposeInv
  <2> QED
    BY <1>4, <1>6, <2>1 DEF ExposeInv, Collects, HeadAnswered
<1>16. DiskKeepsAtShutdown'
  BY <1>0, <1>4, <1>6 DEF DiskKeepsAtShutdown, Memory, AtMostOnce
<1> QED
  BY <1>6, <1>7, <1>10, <1>12, <1>13, <1>14, <1>15, <1>16, Assemble DEF Inner

\* Where a step may land batches without applying one twice: in the store, with
\* no answer owed.
LEMMA LandKeeps ==
  ASSUME IInv, AtMostOnce, snk.owed = 0, NEW applied \in SUBSET ToSet(items), Land(applied)
  PROVE  \A b \in Batch :
           landed'[b] <= 1 /\ (landed'[b] > 0 => b \in ToSet(delivered) \cup AllDropped \cup applied)
<1>1. landed \in [Batch -> Nat] /\ LandInv
  BY DEF IInv, TypeOK
<1>2. \A b \in Batch : landed'[b] = IF b \in applied THEN landed[b] + 1 ELSE landed[b]
  BY <1>1, LandEffect
<1> TAKE b \in Batch
<1>3. CASE b \in applied
  <2>1. landed[b] = 0
    BY <1>3, NotYetLanded
  <2> QED
    BY <1>2, <1>3, <2>1
<1>4. CASE b \notin applied
  <2>1. Answered = {}
    BY DEF Answered
  <2> QED
    BY <1>1, <1>2, <1>4, <2>1 DEF LandInv
<1> QED
  BY <1>3, <1>4

\* Output::send delivers the head.
LEMMA SendDelivers ==
  ASSUME IInv, wpc = "sending", HeadDelivered, Land({HeadItem}),
         NEW w \in Windows, snk' = [snk EXCEPT !.win = w],
         UNCHANGED <<outside, seen, exposed, faults>>
  PROVE  IInv'
<1>0. TypeOK /\ WindowInv /\ CollectInv /\ LandInv
  BY DEF IInv
<1>1. /\ items \in Seq(Batch) /\ Len(items) \in Nat /\ reserved \in Nat /\ reserved <= Len(items)
      /\ snk.sub \in Seq(Batch) /\ Len(snk.sub) = fl.out - Gap
  BY LoopFacts
<1>2. reserved > 0 /\ fl.out = 0 /\ Gap = 0
  BY <1>0 DEF WindowInv, OnSendPath, Gap
<1>3. w \in Nat /\ snk \in SinkType
  BY <1>0, SinkAssumption, SMTT(30) DEF Windows, TypeOK, SinkType
<1>4. /\ snk' \in SinkType /\ snk'.sub = snk.sub /\ snk'.full = snk.full
      /\ snk'.visible = snk.visible /\ snk'.owed = snk.owed
  BY <1>3 DEF SinkType
<1>5. snk.owed = 0 /\ ~snk.full
  <2>1. snk.owed \in Nat
    BY LoopFacts
  <2> QED
    BY <1>0, <2>1 DEF CollectInv
<1>6. landed \in [Batch -> Nat]
  BY <1>0 DEF TypeOK
<1>7. landed' \in [Batch -> Nat]
      /\ \A b \in Batch : landed'[b] = IF b \in {HeadItem} THEN landed[b] + 1 ELSE landed[b]
  BY <1>6, LandEffect
<1>8. Sub1(fl.out) = 0 /\ Len(snk.sub) = 0
  BY <1>1, <1>2 DEF Sub1
<1>9. HeadAnswered
  BY <1>4, <1>5, <1>7, <1>8 DEF HeadAnswered
<1>10. {HeadItem} \in SUBSET ToSet(items) /\ HeadItem \in Batch
  <2>1. 1 \in 1..Len(items)
    BY <1>1, <1>2
  <2> QED
    BY <1>1, <2>1, ToSetByIndex DEF HeadItem
<1>11. LandInv'
  <2>1. Answered' = {} /\ AtMostOnce' = AtMostOnce
    BY <1>4, <1>5 DEF Answered, AtMostOnce, outside
  <2>2. delivered \in Seq(Batch) /\ delivered' = Append(delivered, HeadItem) /\ dropped' = dropped
    BY <1>0 DEF TypeOK, HeadDelivered
  <2>3. ToSet(delivered') = ToSet(delivered) \cup {HeadItem} /\ AllDropped' = AllDropped
    BY <1>10, <2>2, AppendFacts DEF AllDropped
  <2>4. AtMostOnce => \A b \in Batch : landed'[b] <= 1 /\
          (landed'[b] > 0 => b \in ToSet(delivered) \cup AllDropped \cup {HeadItem})
    BY <1>5, <1>10, LandKeeps
  <2> QED
    BY <2>1, <2>3, <2>4 DEF LandInv
<1> QED
  BY <1>9, <1>11, DeliveredKeeps

\* The sink's oldest batch is answered: it is the head, and what a collecting sink
\* applied with it is owed.
LEMMA AckDeliversKeeps ==
  ASSUME IInv, AckDelivers
  PROVE  IInv'
<1>0. TypeOK /\ WindowInv /\ CollectInv /\ LandInv /\ OnePlace
  BY DEF IInv
<1> DEFINE bs == CASE conf.sink # "collecting" -> {Head(snk.sub)}
                   [] conf.sink = "collecting" /\ snk.owed = 0 -> ToSet(snk.sub)
                   [] OTHER -> {}
<1>1. /\ wpc = "acking" /\ snk.sub # <<>> /\ (Collects => snk.visible) /\ HeadDelivered /\ Land(bs)
      /\ snk' = [snk EXCEPT !.sub = Tail(snk.sub), !.full = FALSE,
                            !.owed = IF conf.sink = "collecting" THEN Len(snk.sub) - 1 ELSE 0]
      /\ UNCHANGED <<outside, seen, exposed, faults>>
  BY DEF AckDelivers, Collects
<1>2. /\ items \in Seq(Batch) /\ Len(items) \in Nat /\ fl.out \in Nat /\ fl.out <= Len(items)
      /\ snk.sub \in Seq(Batch) /\ Len(snk.sub) \in Nat /\ snk.owed \in Nat
  BY <1>1, LoopFacts
<1>3. Gap = 0 /\ fl.out > 0
  BY <1>0, <1>1 DEF WindowInv, Gap
<1>4. Len(snk.sub) = fl.out /\ \A i \in 1..fl.out : snk.sub[i] = items[i]
  <2>1. /\ Len(snk.sub) = fl.out - 0 /\ \A i \in 1..(fl.out - 0) : snk.sub[i] = items[i + 0]
    BY <1>1, <1>3, LoopFacts
  <2> QED
    BY <1>2, <2>1
<1>5. /\ Head(snk.sub) = snk.sub[1] /\ Tail(snk.sub) \in Seq(Batch)
      /\ Len(Tail(snk.sub)) = Len(snk.sub) - 1
      /\ \A i \in 1..(Len(snk.sub) - 1) : Tail(snk.sub)[i] = snk.sub[i + 1]
      /\ ToSet(snk.sub) = {Head(snk.sub)} \cup ToSet(Tail(snk.sub))
  BY <1>1, <1>2, TailFacts
<1>6. 1 \in 1..fl.out /\ Head(snk.sub) = HeadItem /\ HeadItem \in Batch
  BY <1>2, <1>3, <1>4, <1>5 DEF HeadItem
<1>7. ToSet(snk.sub) \in SUBSET ToSet(items) /\ Head(snk.sub) \in ToSet(snk.sub)
  BY <1>1, <1>5, SubFacts
<1>8. /\ snk' \in SinkType /\ snk'.sub = Tail(snk.sub) /\ snk'.full = FALSE
      /\ snk'.visible = snk.visible
      /\ snk'.owed = IF Collects THEN fl.out - 1 ELSE 0
  <2>1. snk \in SinkType
    BY <1>0 DEF TypeOK, SinkType
  <2>2. (IF Collects THEN fl.out - 1 ELSE 0) \in Nat
    BY <1>2, <1>3
  <2>3. snk' = [snk EXCEPT !.sub = Tail(snk.sub), !.full = FALSE,
                           !.owed = IF Collects THEN fl.out - 1 ELSE 0]
    BY <1>1, <1>4 DEF Collects
  <2> QED
    BY <1>5, <2>1, <2>2, <2>3 DEF SinkType
<1>9. landed' \in [Batch -> Nat]
      /\ \A b \in Batch : landed'[b] = IF b \in bs THEN landed[b] + 1 ELSE landed[b]
  <2>1. landed \in [Batch -> Nat]
    BY <1>0 DEF TypeOK
  <2> QED
    BY <1>1, <2>1, LandEffect
<1>10. Sub1(fl.out) = fl.out - 1
  BY <1>2, <1>3 DEF Sub1
<1>11. HeadAnswered
  <2>1. ASSUME NEW i \in 1..(fl.out - 1) PROVE snk'.sub[i] = items[i + 1]
    <3>1. i + 1 \in 1..fl.out /\ i \in 1..(Len(snk.sub) - 1)
      BY <1>2, <1>4
    <3> QED
      BY <1>4, <1>5, <1>8, <3>1
  <2> QED
    BY <1>1, <1>4, <1>5, <1>8, <1>9, <1>10, <2>1 DEF HeadAnswered
<1>12. /\ AtMostOnce' = AtMostOnce /\ ToSet(delivered') = ToSet(delivered) \cup {HeadItem}
       /\ AllDropped' = AllDropped
  <2>1. delivered \in Seq(Batch) /\ delivered' = Append(delivered, HeadItem) /\ dropped' = dropped
    BY <1>0, <1>1 DEF TypeOK, HeadDelivered
  <2>2. ToSet(delivered') = ToSet(delivered) \cup {HeadItem}
    BY <1>6, <2>1, AppendFacts
  <2> QED
    BY <1>1, <2>1, <2>2 DEF AllDropped, AtMostOnce, outside
<1>13. CASE ~Collects
  <2>1. Answered' = {} /\ snk.owed = 0
    BY <1>0, <1>8, <1>13 DEF Answered, CollectInv
  <2>0. bs = {Head(snk.sub)}
    BY <1>13 DEF Collects
  <2>2. bs = {HeadItem} /\ bs \in SUBSET ToSet(items)
    <3> HIDE DEF bs
    <3> QED
      BY <1>6, <1>7, <2>0
  <2> HIDE DEF bs
  <2>3. AtMostOnce => \A b \in Batch : landed'[b] <= 1 /\
          (landed'[b] > 0 => b \in ToSet(delivered) \cup AllDropped \cup bs)
    BY <1>1, <2>1, <2>2, LandKeeps
  <2>4. LandInv'
    BY <1>12, <2>1, <2>2, <2>3 DEF LandInv
  <2> QED
    BY <1>1, <1>11, <2>4, DeliveredKeeps
<1>14. CASE Collects /\ snk.owed = 0
  <2>1. bs = ToSet(snk.sub) /\ bs \in SUBSET ToSet(items)
    BY <1>7, <1>14 DEF Collects
  <2>2. Answered' = IF fl.out - 1 > 0 THEN ToSet(Tail(snk.sub)) ELSE {}
    BY <1>8, <1>14 DEF Answered
  <2>3. ToSet(Tail(snk.sub)) \subseteq Answered'
    <3>1. CASE fl.out - 1 > 0
      BY <2>2, <3>1
    <3>2. CASE fl.out - 1 = 0
      <4>1. Tail(snk.sub) = <<>>
        BY <1>4, <1>5, <3>2
      <4>2. ToSet(Tail(snk.sub)) = {}
        BY <1>5, <4>1, ToSetEmpty
      <4> QED
        BY <4>2
    <3> QED
      BY <1>2, <1>3, <3>1, <3>2
  <2>4. bs \subseteq {HeadItem} \cup Answered' /\ Answered' \subseteq bs
    BY <1>5, <1>6, <2>1, <2>2, <2>3
  <2> HIDE DEF bs
  <2>5. AtMostOnce => \A b \in Batch : landed'[b] <= 1 /\
          (landed'[b] > 0 => b \in ToSet(delivered) \cup AllDropped \cup bs)
    BY <1>1, <1>14, <2>1, LandKeeps
  <2>6. ASSUME NEW b \in Answered' PROVE landed'[b] > 0
    <3>1. b \in bs /\ b \in Batch
      BY <1>0, <2>1, <2>4, ContentsFacts
    <3>2. landed[b] \in Nat
      BY <1>0, <3>1 DEF TypeOK
    <3> QED
      BY <1>9, <3>1, <3>2
  <2>7. LandInv'
    BY <1>12, <2>4, <2>5, <2>6 DEF LandInv
  <2> QED
    BY <1>1, <1>11, <2>7, DeliveredKeeps
<1>15. CASE Collects /\ snk.owed > 0
  <2>1. bs = {}
    BY <1>15 DEF Collects
  <2>2. Answered = ToSet(snk.sub) /\ Answered' \subseteq ToSet(Tail(snk.sub))
    BY <1>8, <1>15 DEF Answered
  <2>3. Answered \subseteq {HeadItem} \cup Answered'
    <3>1. CASE fl.out - 1 > 0
      BY <1>5, <1>6, <1>8, <1>15, <2>2, <3>1 DEF Answered
    <3>2. CASE fl.out - 1 = 0
      <4>1. Tail(snk.sub) = <<>>
        BY <1>4, <1>5, <3>2
      <4>2. ToSet(Tail(snk.sub)) = {}
        BY <1>5, <4>1, ToSetEmpty
      <4> QED
        BY <1>5, <1>6, <2>2, <4>2
    <3> QED
      BY <1>2, <1>3, <3>1, <3>2
  <2>4. \A b \in Batch : landed'[b] = landed[b]
    BY <1>9, <2>1
  <2>5. Answered' \subseteq Answered /\ Answered' \subseteq Batch
    BY <1>0, <1>5, <1>7, <2>2, ContentsFacts
  <2> HIDE DEF bs
  <2>6. \A b \in Answered' : landed'[b] > 0
    BY <1>0, <2>4, <2>5 DEF LandInv
  <2>7. LandInv'
    BY <1>0, <1>12, <2>3, <2>4, <2>6 DEF LandInv
  <2> QED
    BY <1>1, <1>11, <2>7, DeliveredKeeps
<1> QED
  BY <1>2, <1>13, <1>14, <1>15

-----------------------------------------------------------------------------
(* A failed call. *)

\* What a failed call leaves of the window and the sink: nothing is out any more, or
\* only the head came back and waits for its resubmit.
NothingOut(w) ==
  /\ w.out = 0 /\ ~w.collecting /\ ~w.closed /\ snk'.sub = <<>>
HeadBack(w) ==
  /\ conf.sink = "windowed" /\ w = fl /\ fl.out > 0 /\ ~fast
  /\ Len(snk'.sub) = fl.out - 1 /\ \A i \in 1..(fl.out - 1) : snk'.sub[i] = items[i + 1]

\* A call that failed, for the head alone or with all that was out.
CallFailed(headOnly, atFault, w) ==
  /\ wpc \in {"sending", "resubmitting", "submitting", "acking"} /\ snk.owed = 0
  /\ headOnly \in BOOLEAN /\ (headOnly => conf.sink = "windowed")
  /\ atFault \in 0..Len(items)
  /\ w \in WindowType /\ w.observed = fl.observed
  /\ snk' \in SinkType /\ snk'.owed = 0 /\ ~snk'.full /\ snk'.visible = snk.visible
  /\ \/ NothingOut(w)
     \/ HeadBack(w) /\ headOnly
  /\ UNCHANGED <<outside, seen, exposed>>

\* A retryable fault: the batches stay, and the loop backs off.
LEMMA RetryKeeps ==
  ASSUME IInv, NEW headOnly, NEW atFault, NEW w, CallFailed(headOnly, atFault, w),
         NEW applied \in SUBSET ToSet(items), Land(applied), AtMostOnce => applied = {},
         wpc' = "backoff", resubmit' = headOnly, fl' = w, faults' = faults + 1,
         UNCHANGED <<storeVars, dropped, fast, owedArm, received, delivered, strayed>>
  PROVE  IInv'
<1>0. TypeOK /\ WindowInv /\ CollectInv /\ ObserveInv /\ ExposeInv /\ LandInv /\ DiskKeepsAtShutdown
  BY DEF IInv
<1>1. /\ wpc \in {"sending", "resubmitting", "submitting", "acking"} /\ snk.owed = 0
      /\ headOnly \in BOOLEAN /\ (headOnly => conf.sink = "windowed")
      /\ w \in WindowType /\ w.observed = fl.observed
      /\ snk' \in SinkType /\ snk'.owed = 0 /\ ~snk'.full /\ snk'.visible = snk.visible
      /\ UNCHANGED <<outside, seen, exposed>>
  BY DEF CallFailed
<1>2. /\ items \in Seq(Batch) /\ reserved \in Nat /\ Len(items) \in Nat
      /\ fl.out \in Nat /\ fl.observed \in Nat
      /\ fl.out <= fl.observed /\ fl.observed <= reserved /\ reserved <= Len(items)
  BY <1>1, LoopFacts
<1>3. items' = items /\ reserved' = reserved /\ closed' = closed
  BY DEF storeVars
<1>4. HandOver' /\ UNCHANGED ledgerVars /\ conf' = conf
      /\ next' = next /\ inbox' = inbox /\ inHand' = inHand
  BY <1>1, <1>3, LoopContext
<1>5. InOrder' /\ OnePlace'
  BY <1>3, <1>4, PlacesFrame
<1>6. landed' \in [Batch -> Nat] /\
      \A b \in Batch : landed'[b] = IF b \in applied THEN landed[b] + 1 ELSE landed[b]
  <2>1. landed \in [Batch -> Nat]
    BY <1>0 DEF TypeOK
  <2> QED
    BY <2>1, LandEffect
<1>7. TypeOK'
  <2>1. LoopTyped
    BY <1>0, TypeFrame
  <2>2. faults' \in Nat /\ wpc' \in LoopPlaces
    BY <2>1 DEF LoopTyped, LoopPlaces
  <2>3. LoopTyped'
    BY <1>1, <1>3, <1>6, <2>1, <2>2 DEF LoopTyped
  <2> QED
    BY <1>0, <1>1, <2>3, TypeFrame
<1>8. w.out \in Nat /\ w.observed \in Nat
  BY <1>1 DEF WindowType
<1>9. reserved > 0 /\ (wpc = "sending" <=> fast) /\ (fast => fl.out = 0 /\ fl.observed = 0)
  BY <1>0, <1>1 DEF WindowInv, OnSendPath
<1>10. OnSendPath' <=> OnSendPath
  BY <1>1, <1>9 DEF OnSendPath
<1>11. ObserveInv'
  <2>1. ObservedCount' = ObservedCount
    BY <1>1, <1>10 DEF ObservedCount
  <2> QED
    BY <1>0, <1>1, <1>3, <1>4, <2>1 DEF ObserveInv
<1>12. LandInv'
  <2>1. Answered' = {} /\ Answered = {} /\ AtMostOnce' = AtMostOnce /\ AllDropped' = AllDropped
    BY <1>1, <1>4 DEF Answered, AtMostOnce, AllDropped
  <2>2. AtMostOnce => \A b \in Batch : landed'[b] = landed[b]
    BY <1>6
  <2> QED
    BY <1>0, <2>1, <2>2 DEF LandInv
<1>13. DiskKeepsAtShutdown'
  BY <1>0, <1>1, <1>4 DEF DiskKeepsAtShutdown, Memory, AtMostOnce
<1>14. CASE NothingOut(w)
  <2>1. w.out = 0 /\ ~w.collecting /\ ~w.closed /\ snk'.sub = <<>>
    BY <1>14 DEF NothingOut
  <2>2. Gap' = 0
    BY <2>1 DEF Gap
  <2>3. Len(snk'.sub) = fl'.out - 0 /\ 1..(fl'.out - 0) = {}
    BY <2>1
  <2>4. WindowInv'
    BY <1>0, <1>1, <1>2, <1>3, <1>4, <1>8, <1>9, <2>1, <2>2, <2>3 DEF WindowInv, OnSendPath
  <2>5. CollectInv'
    BY <1>0, <1>1, <1>4, <2>1 DEF CollectInv, Collects
  <2>6. ExposeInv'
    BY <1>0, <1>1, <1>4, <2>1 DEF ExposeInv, Collects
  <2> QED
    BY <1>4, <1>5, <1>7, <1>11, <1>12, <1>13, <2>4, <2>5, <2>6, Assemble DEF Inner
<1>15. CASE HeadBack(w) /\ headOnly
  <2>1. /\ conf.sink = "windowed" /\ fl' = fl /\ fl.out > 0 /\ ~fast /\ resubmit'
        /\ Len(snk'.sub) = fl.out - 1 /\ \A i \in 1..(fl.out - 1) : snk'.sub[i] = items[i + 1]
    BY <1>15 DEF HeadBack
  <2>2. Gap' = 1 /\ ~Collects
    BY <2>1 DEF Gap, Collects
  <2>3. WindowInv'
    BY <1>0, <1>1, <1>2, <1>3, <1>4, <1>9, <2>1, <2>2 DEF WindowInv, OnSendPath
  <2>4. CollectInv'
    BY <1>0, <1>1, <1>4, <2>1, <2>2 DEF CollectInv, Collects
  <2>5. ExposeInv'
    BY <1>0, <1>1, <1>3, <1>4, <2>1, <2>2 DEF ExposeInv, Collects
  <2> QED
    BY <1>4, <1>5, <1>7, <1>11, <1>12, <1>13, <2>3, <2>4, <2>5, Assemble DEF Inner
<1> QED
  BY <1>14, <1>15 DEF CallFailed

\* The window after a drop that leaves x items observed.
SettledTo(w, x) == [SettleHead(w) EXCEPT !.observed = x]

\* InFlight::settle_head, with however many of the observed ones the drop took.
LEMMA SettleFacts ==
  ASSUME NEW w \in WindowType, NEW x \in Nat
  PROVE  /\ SettledTo(w, x) \in WindowType /\ SettledTo(w, x).observed = x
         /\ SettledTo(w, x).out = Sub1(w.out) /\ SettledTo(w, x).collecting = w.collecting
         /\ SettledTo(w, x).closed = IF Sub1(w.out) = 0 THEN FALSE ELSE w.closed
<1>1. w.out \in Nat /\ w.observed \in Nat /\ w.closed \in BOOLEAN
  BY DEF WindowType
<1>2. Sub1(w.out) \in Nat /\ Sub1(w.observed) \in Nat
  BY <1>1 DEF Sub1
<1> DEFINE v == SettleHead(w)
<1>3. v \in WindowType /\ v.out = Sub1(w.out) /\ v.collecting = w.collecting
      /\ v.closed = IF Sub1(w.out) = 0 THEN FALSE ELSE w.closed
  BY <1>1, <1>2 DEF SettleHead, WindowType
<1> HIDE DEF v
<1>4. [v EXCEPT !.observed = x] \in WindowType
      /\ [v EXCEPT !.observed = x].observed = x /\ [v EXCEPT !.observed = x].out = v.out
      /\ [v EXCEPT !.observed = x].collecting = v.collecting
      /\ [v EXCEPT !.observed = x].closed = v.closed
  BY <1>3 DEF WindowType
<1> QED
  BY <1>3, <1>4 DEF v, SettledTo

\* A drop: the head, or all that an ambiguous fault left open, leaves the store
\* for good, so that under at-most-once what was applied is never sent again.
LEMMA DropKeeps ==
  ASSUME IInv, NEW headOnly, NEW atFault, NEW w, CallFailed(headOnly, atFault, w),
         NEW n \in 1..Len(items), n = 1 \/ NothingOut(w),
         NEW r \in Reasons, r # "shutdown", GivesUp(n, r),
         NEW applied \in SUBSET First(n), Land(applied),
         wpc' = "peek", faults' = faults + 1,
         fl' = [SettleHead(w) EXCEPT !.observed = IF w.observed > n THEN w.observed - n ELSE 0],
         UNCHANGED <<fast, owedArm, resubmit, received, strayed>>
  PROVE  IInv'
<1>0. TypeOK /\ WindowInv /\ CollectInv /\ ObserveInv /\ ExposeInv /\ LandInv /\ DiskKeepsAtShutdown
  BY DEF IInv
<1>1. /\ wpc \in {"sending", "resubmitting", "submitting", "acking"} /\ snk.owed = 0
      /\ w \in WindowType /\ w.observed = fl.observed
      /\ snk' \in SinkType /\ snk'.owed = 0 /\ ~snk'.full /\ snk'.visible = snk.visible
      /\ UNCHANGED <<outside, seen, exposed>>
  BY DEF CallFailed
<1>2. /\ items \in Seq(Batch) /\ reserved \in Nat /\ Len(items) \in Nat
      /\ fl.out \in Nat /\ fl.observed \in Nat
      /\ fl.out <= fl.observed /\ fl.observed <= reserved /\ reserved <= Len(items)
  BY <1>1, LoopFacts
<1>3. n \in Nat /\ n >= 1 /\ n <= Len(items) /\ n \in 0..Len(items)
  BY <1>2
<1>4. Committed(n) /\ Drop(r, First(n)) /\ delivered' = delivered
  BY DEF GivesUp
<1>5. /\ items' \in Seq(Batch) /\ Len(items') = Len(items) - n
      /\ \A i \in 1..(Len(items) - n) : items'[i] = items[i + n]
      /\ First(n) \subseteq ToSet(items) /\ First(n) \subseteq Batch
      /\ reserved' \in Nat /\ reserved' <= Len(items')
      /\ reserved' = (IF reserved > n THEN reserved - n ELSE 0)
      /\ closed' = closed
  BY <1>2, <1>3, <1>4, CommitEffect
<1>6. HandOver' /\ UNCHANGED ledgerVars /\ conf' = conf
      /\ next' = next /\ inbox' = inbox /\ inHand' = inHand
  BY <1>1, <1>5, LoopContext
<1>7. /\ InOrder' /\ OnePlace'
      /\ dropped' \in [Reasons -> SUBSET Batch] /\ AllDropped' = AllDropped \cup First(n)
  BY <1>3, <1>6, GivesUpKeepsPlaces
<1>8. w.out \in Nat /\ w.observed \in Nat
  BY <1>1 DEF WindowType
<1>9. /\ fl' \in WindowType
      /\ fl'.out = Sub1(w.out) /\ fl'.collecting = w.collecting
      /\ fl'.closed = (IF Sub1(w.out) = 0 THEN FALSE ELSE w.closed)
      /\ fl'.observed = (IF fl.observed > n THEN fl.observed - n ELSE 0)
  <2> DEFINE x == IF w.observed > n THEN w.observed - n ELSE 0
  <2>1. x \in Nat /\ x = (IF fl.observed > n THEN fl.observed - n ELSE 0)
    BY <1>1, <1>3, <1>8
  <2>2. fl' = SettledTo(w, x)
    BY DEF SettledTo
  <2> HIDE DEF x
  <2>3. w \in WindowType /\ x \in Nat
    BY <1>1, <2>1
  <2>4. /\ SettledTo(w, x) \in WindowType /\ SettledTo(w, x).observed = x
        /\ SettledTo(w, x).out = Sub1(w.out) /\ SettledTo(w, x).collecting = w.collecting
        /\ SettledTo(w, x).closed = IF Sub1(w.out) = 0 THEN FALSE ELSE w.closed
    BY <2>3, SettleFacts
  <2> QED
    BY <2>1, <2>2, <2>4
<1>10. landed' \in [Batch -> Nat]
  <2>1. landed \in [Batch -> Nat]
    BY <1>0 DEF TypeOK
  <2> QED
    BY <2>1, LandEffect
<1>11. TypeOK'
  <2>1. LoopTyped
    BY <1>0, TypeFrame
  <2>2. faults' \in Nat /\ wpc' \in LoopPlaces
    BY <2>1 DEF LoopTyped, LoopPlaces
  <2>3. LoopTyped'
    BY <1>1, <1>4, <1>5, <1>7, <1>9, <1>10, <2>1, <2>2 DEF LoopTyped
  <2> QED
    BY <1>0, <1>1, <2>3, TypeFrame
<1>12. reserved > 0 /\ (wpc = "sending" <=> fast) /\ (fast => fl.out = 0 /\ fl.observed = 0)
  BY <1>0, <1>1 DEF WindowInv, OnSendPath
<1>13. ~OnSendPath' /\ Gap' = 0
  BY DEF OnSendPath, Gap
<1>14. ObserveInv'
  <2>1. ObservedCount' = IF fl.observed > n THEN fl.observed - n ELSE 0
    BY <1>9, <1>13 DEF ObservedCount
  <2>2. ASSUME NEW i \in 1..Len(items')
        PROVE  seen[items'[i]] = IF i <= ObservedCount' THEN 1 ELSE 0
    <3>1. i \in 1..(Len(items) - n) /\ i + n \in 1..Len(items) /\ items'[i] = items[i + n] /\ i \in Nat
      BY <1>2, <1>3, <1>5
    <3>2. seen[items[i + n]] = IF i + n <= ObservedCount THEN 1 ELSE 0
      BY <1>0, <1>1, <3>1 DEF ObserveInv
    <3>3. ObservedCount = fl.observed \/ (ObservedCount = 1 /\ fl.observed = 0)
      BY <1>12, <1>1 DEF ObservedCount, OnSendPath
    <3>4. i + n <= ObservedCount <=> i <= ObservedCount'
      <4>1. i >= 1 /\ n >= 1 /\ i \in Nat /\ n \in Nat /\ fl.observed \in Nat
        BY <1>2, <1>3, <3>1
      <4> QED
        BY <2>1, <3>3, <4>1
    <3> QED
      BY <3>1, <3>2, <3>4
  <2> QED
    BY <1>0, <1>1, <1>6, <2>2 DEF ObserveInv
<1>15. LandInv'
  <2>1. Answered' = {} /\ AtMostOnce' = AtMostOnce
    BY <1>1, <1>6 DEF Answered, AtMostOnce
  <2>2. applied \in SUBSET ToSet(items)
    BY <1>5
  <2>3. AtMostOnce => \A b \in Batch : landed'[b] <= 1 /\
          (landed'[b] > 0 => b \in ToSet(delivered) \cup AllDropped \cup applied)
    BY <1>1, <2>2, LandKeeps
  <2> QED
    BY <1>4, <1>7, <2>1, <2>3 DEF LandInv
<1>16. DiskKeepsAtShutdown'
  <2>1. dropped \in [Reasons -> SUBSET Batch] /\ First(n) \in SUBSET Batch
    BY <1>0, <1>5 DEF TypeOK
  <2>2. \A q \in Reasons : q # r => dropped'[q] = dropped[q]
    BY <1>4, <2>1, DropEffect
  <2>3. dropped'["shutdown"] = dropped["shutdown"]
    BY <2>2 DEF Reasons
  <2> QED
    BY <1>0, <1>1, <1>6, <2>3 DEF DiskKeepsAtShutdown, Memory, AtMostOnce
<1>17. resubmit' => conf'.sink = "windowed"
  BY <1>0, <1>6 DEF WindowInv
<1>18. CASE NothingOut(w)
  <2>1. w.out = 0 /\ ~w.collecting /\ snk'.sub = <<>>
    BY <1>18 DEF NothingOut
  <2>2. fl'.out = 0 /\ ~fl'.collecting /\ ~fl'.closed
    BY <1>9, <2>1 DEF Sub1
  <2>3. Len(snk'.sub) = fl'.out - 0 /\ 1..(fl'.out - 0) = {}
    BY <2>1, <2>2
  <2>4. fl'.out <= fl'.observed /\ fl'.observed <= reserved'
    BY <1>2, <1>3, <1>5, <1>9, <2>2
  <2>5. WindowInv'
    BY <1>5, <1>13, <1>17, <2>2, <2>3, <2>4 DEF WindowInv
  <2>6. CollectInv'
    BY <1>0, <1>1, <1>6, <2>2 DEF CollectInv, Collects
  <2>7. ExposeInv'
    BY <2>2 DEF ExposeInv
  <2> QED
    BY <1>6, <1>7, <1>11, <1>14, <1>15, <1>16, <2>5, <2>6, <2>7, Assemble DEF Inner
<1>19. CASE HeadBack(w) /\ ~NothingOut(w)
  <2>1. /\ conf.sink = "windowed" /\ w = fl /\ fl.out > 0
        /\ Len(snk'.sub) = fl.out - 1 /\ \A i \in 1..(fl.out - 1) : snk'.sub[i] = items[i + 1]
    BY <1>19 DEF HeadBack
  <2>2. n = 1 /\ ~Collects
    BY <1>19, <2>1 DEF Collects
  <2>3. fl'.out = fl.out - 1 /\ fl'.collecting = fl.collecting
    BY <1>2, <1>9, <2>1 DEF Sub1
  <2>4. ~fl'.collecting /\ ~fl'.closed
    BY <1>0, <1>9, <2>1, <2>2 DEF CollectInv
  <2>5. fl'.out <= fl'.observed /\ fl'.observed <= reserved'
    BY <1>2, <1>3, <1>5, <1>9, <2>1, <2>2, <2>3
  <2>6. fl'.out - 0 = fl.out - 1 /\ 1..(fl.out - 1) \subseteq 1..(Len(items) - 1)
    BY <1>2, <2>3
  <2>7. ASSUME NEW i \in 1..(fl.out - 1)
        PROVE  snk'.sub[i] = items'[i + 0] /\ items'[i] = items[i + 1] /\ i + 1 \in 1..fl.out
    <3>1. i \in 1..(Len(items) - 1) /\ i + 0 = i /\ i + 1 \in 1..fl.out
      BY <1>2, <2>6
    <3> QED
      BY <1>5, <2>1, <2>2, <3>1
  <2>8. WindowInv'
    BY <1>5, <1>13, <1>17, <2>1, <2>5, <2>6, <2>7 DEF WindowInv
  <2>9. CollectInv'
    BY <1>0, <1>1, <1>6, <2>2, <2>4 DEF CollectInv, Collects
  <2>10. ExposeInv'
    BY <1>0, <1>1, <1>6, <2>2, <2>3, <2>7 DEF ExposeInv, Collects
  <2> QED
    BY <1>6, <1>7, <1>11, <1>14, <1>15, <1>16, <2>8, <2>9, <2>10, Assemble DEF Inner
<1> QED
  BY <1>18, <1>19 DEF CallFailed

\* Any failed call keeps the invariant, if a drop takes all that it may have applied.
LEMMA FailedKeeps ==
  ASSUME IInv, NEW f \in Faults, NEW headOnly, NEW atFault, NEW w, NEW bs \in SUBSET ToSet(items),
         CallFailed(headOnly, atFault, w), Failed(f, headOnly, atFault, w), LandsUnder(f, bs),
         f = "ambiguous" => bs \subseteq First(DropsWith(f, headOnly, atFault))
  PROVE  IInv'
<1>1. PICK applied \in SUBSET bs : (f # "ambiguous" => applied = {}) /\ Land(applied)
  BY DEF LandsUnder
<1>2. wpc # "gone" /\ headOnly \in BOOLEAN /\ atFault \in 0..Len(items)
  BY DEF CallFailed
<1>3. items \in Seq(Batch) /\ Len(items) \in Nat /\ reserved \in Nat /\ reserved <= Len(items)
  BY <1>2, LoopFacts
<1>4. reserved > 0
  BY <1>2 DEF IInv, WindowInv, CallFailed
<1>5. CASE /\ IsRetryable(f) /\ wpc' = "backoff" /\ resubmit' = headOnly /\ fl' = w
           /\ UNCHANGED <<storeVars, dropped>>
  <2>1. AtMostOnce => applied = {}
    BY <1>1, <1>5 DEF IsRetryable
  <2>2. faults' = faults + 1 /\ UNCHANGED <<fast, owedArm, received, delivered, strayed>>
    BY DEF Failed
  <2>3. UNCHANGED <<storeVars, dropped, fast, owedArm, received, delivered, strayed>>
    BY <1>5, <2>2
  <2>4. applied \in SUBSET ToSet(items)
    BY <1>1
  <2> QED
    BY <1>1, <1>5, <2>1, <2>2, <2>3, <2>4, RetryKeeps
<1>6. CASE /\ ~IsRetryable(f)
           /\ Committed(DropsWith(f, headOnly, atFault))
           /\ Drop(DropReason(f), First(DropsWith(f, headOnly, atFault)))
           /\ fl' = [SettleHead(w) EXCEPT
                       !.observed = IF w.observed > DropsWith(f, headOnly, atFault)
                                    THEN w.observed - DropsWith(f, headOnly, atFault) ELSE 0]
           /\ wpc' = "peek" /\ UNCHANGED resubmit
  <2> DEFINE n == DropsWith(f, headOnly, atFault)
  <2>1. n = 1 \/ (n = atFault /\ atFault > 0 /\ ~headOnly)
    BY <1>2 DEF DropsWith
  <2>2. n \in 1..Len(items) /\ (n = 1 \/ NothingOut(w))
    BY <1>2, <1>3, <1>4, <2>1 DEF CallFailed
  <2>3. applied \in SUBSET First(n)
    BY <1>1
  <2>4. DropReason(f) \in Reasons /\ DropReason(f) # "shutdown"
    BY DEF DropReason, Reasons
  <2>5. GivesUp(n, DropReason(f))
    BY <1>6 DEF GivesUp, Failed
  <2>6. UNCHANGED <<fast, owedArm, resubmit, received, strayed>> /\ faults' = faults + 1
    BY <1>6 DEF Failed
  <2>7. /\ fl' = [SettleHead(w) EXCEPT !.observed = IF w.observed > n THEN w.observed - n ELSE 0]
        /\ wpc' = "peek"
    BY <1>6
  <2> HIDE DEF n
  <2> QED
    BY <1>1, <2>2, <2>3, <2>4, <2>5, <2>6, <2>7, DropKeeps
<1> QED
  BY <1>5, <1>6 DEF Failed

\* The head is the first of the store's items.
LEMMA HeadFacts ==
  ASSUME IInv, wpc # "gone", reserved > 0
  PROVE  /\ HeadItem = items[1] /\ HeadItem \in Batch /\ HeadItem \in ToSet(items)
         /\ First(1) = {HeadItem} /\ 1 \in 1..Len(items)
<1>1. items \in Seq(Batch) /\ Len(items) \in Nat /\ reserved \in Nat /\ reserved <= Len(items)
  BY LoopFacts
<1>2. 1 \in 1..Len(items) /\ 1 \in 0..Len(items)
  BY <1>1
<1>3. First(1) = {items[i] : i \in 1..1} /\ First(1) \subseteq ToSet(items)
  BY <1>1, <1>2, FirstFacts
<1> QED
  BY <1>1, <1>2, <1>3 DEF HeadItem

\* Any window the sink may report is a number.
LEMMA WindowsFacts == Windows \subseteq Nat
BY SinkAssumption DEF Windows

\* What holds of the sink while a call is out.
LEMMA InCallFacts ==
  ASSUME IInv, wpc \in {"sending", "resubmitting", "submitting"}
  PROVE  /\ snk.owed = 0 /\ ~snk.full /\ snk \in SinkType /\ fl \in WindowType /\ reserved > 0
         /\ wpc = "resubmitting" => conf.sink = "windowed" /\ ~fast /\ fl.out > 0 /\ resubmit
         /\ wpc = "sending" => fast /\ fl.out = 0 /\ ~fl.collecting /\ ~fl.closed
         /\ wpc = "submitting" => ~fast /\ ~fl.closed /\ fl.out < fl.observed /\ ~snk.visible
<1>0. TypeOK /\ WindowInv /\ CollectInv
  BY DEF IInv
<1>1. snk \in SinkType /\ fl \in WindowType
  BY <1>0 DEF TypeOK, SinkType, WindowType
<1>2. snk.owed \in Nat /\ fl.out \in Nat
  BY LoopFacts
<1>3. snk.owed = 0 /\ ~snk.full
  BY <1>0, <1>2 DEF CollectInv
<1>4. reserved > 0
  BY <1>0 DEF WindowInv
<1>5. wpc = "resubmitting" => conf.sink = "windowed" /\ ~fast /\ fl.out > 0 /\ resubmit
  BY <1>0 DEF WindowInv
<1>6. wpc = "sending" => fast /\ fl.out = 0
  BY <1>0 DEF WindowInv, OnSendPath
<1>7. wpc = "sending" => ~fl.collecting /\ ~fl.closed
  BY <1>0, <1>2, <1>3, <1>6 DEF CollectInv
<1>8. wpc = "submitting" => ~fast /\ ~fl.closed /\ fl.out < fl.observed /\ ~snk.visible
  BY <1>0, <1>2, <1>3 DEF CollectInv, WindowInv
<1> QED
  BY <1>1, <1>3, <1>4, <1>5, <1>6, <1>7, <1>8

\* Output::send returns.
LEMMA SendReturnsKeeps ==
  ASSUME IInv, SendReturns
  PROVE  IInv'
<1>1. wpc = "sending" /\ UNCHANGED <<outside, seen, exposed>>
  BY DEF SendReturns
<1>2. PICK w \in Windows : snk' = [snk EXCEPT !.win = w]
  BY DEF SendReturns
<1>3. CASE HeadDelivered /\ Land({HeadItem}) /\ UNCHANGED faults
  <2>1. UNCHANGED <<outside, seen, exposed, faults>>
    BY <1>1, <1>3
  <2> QED
    BY <1>1, <1>2, <1>3, <2>1, SendDelivers
<1>4. ASSUME NEW f \in Faults, Failed(f, FALSE, 0, fl), LandsUnder(f, {HeadItem}) PROVE IInv'
  <2>1. /\ snk.owed = 0 /\ ~snk.full /\ snk \in SinkType /\ fl \in WindowType /\ reserved > 0
        /\ fast /\ fl.out = 0 /\ ~fl.collecting /\ ~fl.closed
    BY <1>1, InCallFacts
  <2>2. /\ snk' \in SinkType /\ snk'.owed = 0 /\ snk'.full = snk.full /\ snk'.visible = snk.visible
        /\ snk'.sub = snk.sub
    BY <1>2, <2>1, WindowsFacts DEF SinkType
  <2>3. snk.sub = <<>>
    <3>1. snk.sub \in Seq(Batch) /\ Len(snk.sub) = fl.out - Gap /\ Gap = 0
      BY <1>1, LoopFacts DEF Gap
    <3> QED
      BY <2>1, <3>1
  <2>4. 0 \in 0..Len(items)
    BY <1>1, LoopFacts
  <2>5. NothingOut(fl)
    BY <2>1, <2>2, <2>3 DEF NothingOut
  <2>6. CallFailed(FALSE, 0, fl)
    BY <1>1, <2>1, <2>2, <2>4, <2>5 DEF CallFailed
  <2>7. {HeadItem} \in SUBSET ToSet(items) /\ {HeadItem} \subseteq First(1)
    BY <1>1, <2>1, HeadFacts
  <2>8. DropsWith(f, FALSE, 0) = 1
    BY DEF DropsWith
  <2> QED
    BY <1>4, <2>6, <2>7, <2>8, FailedKeeps
<1> QED
  BY <1>3, <1>4 DEF SendReturns

\* A cut connection leaves nothing out, whatever part of the window fails with it.
LEMMA CutFails ==
  ASSUME IInv, wpc \in {"resubmitting", "acking"}, snk.owed = 0, NEW f \in Faults,
         Failed(f, FALSE, fl.out, Cut(fl)), NEW bs \in SUBSET First(fl.out), LandsUnder(f, bs),
         snk' \in SinkType, snk'.owed = 0, ~snk'.full, snk'.visible = snk.visible, snk'.sub = <<>>,
         UNCHANGED <<outside, seen, exposed>>
  PROVE  IInv'
<1>1. fl.out \in 0..Len(items) /\ fl.out > 0 /\ ~fast /\ items \in Seq(Batch)
  <2>1. fl.out \in Nat /\ Len(items) \in Nat /\ fl.out <= Len(items) /\ items \in Seq(Batch)
    BY LoopFacts
  <2>2. fl.out > 0 /\ ~fast
    BY DEF IInv, WindowInv
  <2> QED
    BY <2>1, <2>2
<1>2. fl \in WindowType
  BY DEF IInv, TypeOK, WindowType
<1>3. /\ Cut(fl) \in WindowType /\ Cut(fl).out = 0 /\ ~Cut(fl).collecting /\ ~Cut(fl).closed
      /\ Cut(fl).observed = fl.observed
  BY <1>2 DEF Cut, WindowType
<1>4. NothingOut(Cut(fl))
  BY <1>3 DEF NothingOut
<1>5. CallFailed(FALSE, fl.out, Cut(fl))
  BY <1>1, <1>3, <1>4 DEF CallFailed
<1>6. bs \in SUBSET ToSet(items)
  BY <1>1, FirstFacts
<1>7. f = "ambiguous" => DropsWith(f, FALSE, fl.out) = fl.out
  BY <1>1 DEF DropsWith
<1> QED
  BY <1>5, <1>6, <1>7, FailedKeeps

\* A fault of the head alone: the rest of the window stays at the sink.
LEMMA HeadOnlyFails ==
  ASSUME IInv, wpc \in {"resubmitting", "acking"}, snk.owed = 0, NEW f \in Faults,
         conf.sink = "windowed", Failed(f, TRUE, 1, fl), LandsUnder(f, {HeadItem}),
         snk' \in SinkType, snk'.owed = 0, ~snk'.full, snk'.visible = snk.visible,
         Len(snk'.sub) = fl.out - 1, \A i \in 1..(fl.out - 1) : snk'.sub[i] = items[i + 1],
         UNCHANGED <<outside, seen, exposed>>
  PROVE  IInv'
<1>1. fl.out > 0 /\ ~fast /\ reserved > 0
  BY DEF IInv, WindowInv
<1>2. fl \in WindowType
  BY DEF IInv, TypeOK, WindowType
<1>3. {HeadItem} \in SUBSET ToSet(items) /\ First(1) = {HeadItem} /\ 1 \in 0..Len(items)
  <2>1. /\ HeadItem \in ToSet(items) /\ First(1) = {HeadItem} /\ 1 \in 1..Len(items)
    BY <1>1, HeadFacts
  <2> QED
    BY <2>1
<1>4. HeadBack(fl)
  BY <1>1 DEF HeadBack
<1>5. CallFailed(TRUE, 1, fl)
  BY <1>2, <1>3, <1>4 DEF CallFailed
<1>6. DropsWith(f, TRUE, 1) = 1
  BY DEF DropsWith
<1> QED
  BY <1>3, <1>5, <1>6, FailedKeeps

\* The head's answer fails.
LEMMA AckFailsKeeps ==
  ASSUME IInv, AckFails
  PROVE  IInv'
<1>1. wpc = "acking" /\ snk.owed = 0 /\ UNCHANGED <<outside, seen, exposed>>
  BY DEF AckFails
<1>2. snk \in SinkType
  BY DEF IInv, TypeOK, SinkType
<1>3. /\ items \in Seq(Batch) /\ snk.sub \in Seq(Batch) /\ Len(items) \in Nat
      /\ fl.out \in Nat /\ fl.out <= Len(items) /\ Gap = 0 /\ Len(snk.sub) = fl.out - Gap
      /\ \A i \in 1..(fl.out - Gap) : snk.sub[i] = items[i + Gap]
  BY <1>1, LoopFacts DEF Gap
<1>4. PICK f \in Faults, w \in Windows :
         \/ /\ Failed(f, FALSE, fl.out, Cut(fl))
            /\ LandsUnder(f, ToSet(snk.sub))
            /\ snk' = [snk EXCEPT !.win = w, !.sub = <<>>, !.full = FALSE]
         \/ /\ conf.sink = "windowed" /\ snk.sub # <<>>
            /\ Failed(f, TRUE, 1, fl)
            /\ LandsUnder(f, {HeadItem})
            /\ snk' = [snk EXCEPT !.sub = Tail(snk.sub)]
  BY DEF AckFails
<1>5. CASE /\ Failed(f, FALSE, fl.out, Cut(fl))
           /\ LandsUnder(f, ToSet(snk.sub))
           /\ snk' = [snk EXCEPT !.win = w, !.sub = <<>>, !.full = FALSE]
  <2>1. w \in Nat /\ <<>> \in Seq(Batch)
    BY WindowsFacts
  <2>2. /\ snk' \in SinkType /\ snk'.owed = 0 /\ ~snk'.full /\ snk'.visible = snk.visible
        /\ snk'.sub = <<>>
    BY <1>1, <1>2, <1>5, <2>1 DEF SinkType
  <2>3. ToSet(snk.sub) \in SUBSET First(fl.out)
    <3>1. fl.out \in 0..Len(items)
      BY <1>3
    <3>2. First(fl.out) = {items[i] : i \in 1..fl.out}
      BY <1>3, <3>1, FirstFacts
    <3>3. ToSet(snk.sub) \subseteq {items[i] : i \in 1..fl.out}
      BY <1>1, SubFacts
    <3> QED
      BY <3>2, <3>3
  <2> QED
    BY <1>1, <1>5, <2>2, <2>3, CutFails
<1>6. CASE /\ conf.sink = "windowed" /\ snk.sub # <<>>
           /\ Failed(f, TRUE, 1, fl)
           /\ LandsUnder(f, {HeadItem})
           /\ snk' = [snk EXCEPT !.sub = Tail(snk.sub)]
  <2>1. /\ Tail(snk.sub) \in Seq(Batch) /\ Len(Tail(snk.sub)) = Len(snk.sub) - 1
        /\ \A i \in 1..(Len(snk.sub) - 1) : Tail(snk.sub)[i] = snk.sub[i + 1]
    BY <1>3, <1>6, TailFacts
  <2>2. /\ snk' \in SinkType /\ snk'.owed = 0 /\ snk'.full = snk.full /\ snk'.visible = snk.visible
        /\ snk'.sub = Tail(snk.sub)
    BY <1>1, <1>2, <1>6, <2>1 DEF SinkType
  <2>3. ~snk.full
    BY <1>6 DEF IInv, CollectInv, Collects
  <2>4. Len(snk'.sub) = fl.out - 1
    BY <1>3, <2>1, <2>2
  <2>5. ASSUME NEW i \in 1..(fl.out - 1) PROVE snk'.sub[i] = items[i + 1]
    <3>1. i \in 1..(Len(snk.sub) - 1) /\ i + 1 \in 1..(fl.out - Gap) /\ (i + 1) + Gap = i + 1
      BY <1>3
    <3>2. snk.sub[i + 1] = items[(i + 1) + Gap]
      BY <1>3, <3>1
    <3> QED
      BY <2>1, <2>2, <3>1, <3>2
  <2> QED
    BY <1>1, <1>6, <2>2, <2>3, <2>4, <2>5, HeadOnlyFails
<1> QED
  BY <1>4, <1>5, <1>6

-----------------------------------------------------------------------------
(* The steps that settle no batch. *)

\* A step that moves no batch and applies none.
QuietStep ==
  /\ UNCHANGED <<outside, items, closed, countVars, landed>> /\ exposed \subseteq exposed'
  /\ snk'.owed = snk.owed /\ (snk.owed > 0 => snk'.sub = snk.sub)

\* Such a step keeps the ledger, and needs a look only at the window.
LEMMA QuietKeeps ==
  ASSUME IInv, wpc # "gone", QuietStep, LoopTyped', WindowInv', CollectInv', ObserveInv', ExposeInv'
  PROVE  IInv'
<1>1. /\ UNCHANGED outside /\ items' = items /\ closed' = closed /\ received' = received
      /\ delivered' = delivered /\ dropped' = dropped /\ strayed' = strayed /\ landed' = landed
      /\ exposed \subseteq exposed' /\ snk'.owed = snk.owed /\ (snk.owed > 0 => snk'.sub = snk.sub)
  BY DEF QuietStep, countVars
<1>2. HandOver' /\ UNCHANGED ledgerVars /\ conf' = conf
  BY <1>1, LoopContext
<1>3. InOrder' /\ OnePlace'
  BY <1>1, <1>2, PlacesFrame
<1>4. TypeOK'
  BY <1>1, TypeFrame DEF IInv
<1>5. LandInv'
  <2>1. Answered' = Answered /\ AllDropped' = AllDropped /\ AtMostOnce' = AtMostOnce
    BY <1>1, <1>2 DEF Answered, AllDropped, AtMostOnce
  <2> QED
    BY <1>1, <2>1 DEF LandInv, IInv
<1>6. DiskKeepsAtShutdown'
  BY <1>1, <1>2 DEF DiskKeepsAtShutdown, Memory, AtMostOnce, IInv
<1> QED
  BY <1>2, <1>3, <1>4, <1>5, <1>6, Assemble DEF Inner

\* If it observes nothing, what it exposes was observed before.
LEMMA QuietObserves ==
  ASSUME IInv, wpc # "gone", QuietStep, seen' = seen, wpc' = "gone" \/ ObservedCount' = ObservedCount,
         \A b \in exposed' : b \in exposed \/ seen[b] = 1
  PROVE  ObserveInv'
<1>1. items' = items /\ inHand' = inHand /\ inbox' = inbox /\ next' = next
  BY DEF QuietStep, outside, upVars, drainVars
<1> QED
  BY <1>1 DEF IInv, ObserveInv

\* Observing the item at position i, which nobody observed before.
LEMMA ObserveEffect ==
  ASSUME IInv, wpc # "gone", NEW i \in 1..Len(items), Observe(items[i]), seen[items[i]] = 0
  PROVE  /\ seen' \in [Batch -> Nat] /\ seen'[items[i]] = 1
         /\ \A b \in Batch : b # items[i] => seen'[b] = seen[b]
         /\ \A j \in 1..Len(items) : j # i => seen'[items[j]] = seen[items[j]]
         /\ \A b \in Batch : b \in ToSet(inHand) \cup ToSet(inbox) \/ b >= next => seen'[b] = 0
<1>0. TypeOK /\ InOrder /\ OnePlace /\ ObserveInv
  BY DEF IInv
<1>1. items \in Seq(Batch) /\ seen \in [Batch -> Nat] /\ Ascending(items)
  BY <1>0 DEF TypeOK, InOrder
<1>2. items[i] \in Batch /\ items[i] \in ToSet(items) /\ items[i] \in Int
  <2>1. items[i] \in Batch /\ items[i] \in ToSet(items)
    BY <1>1, ToSetByIndex
  <2> QED
    BY <2>1, BatchFacts
<1>3. seen' = [seen EXCEPT ![items[i]] = seen[items[i]] + 1]
  BY DEF Observe
<1>4. /\ seen' \in [Batch -> Nat] /\ seen'[items[i]] = 1
      /\ \A b \in Batch : b # items[i] => seen'[b] = seen[b]
  BY <1>1, <1>2, <1>3
<1>5. ASSUME NEW j \in 1..Len(items), j # i PROVE items[j] # items[i] /\ items[j] \in Batch
  <2>1. items[j] \in Batch
    BY <1>1
  <2>2. i < j \/ j < i
    BY <1>5
  <2>3. items[i] < items[j] \/ items[j] < items[i]
    BY <1>1, <2>2 DEF Ascending
  <2> QED
    BY <1>2, <2>1, <2>3
<1>6. ASSUME NEW b \in Batch, b \in ToSet(inHand) \cup ToSet(inbox) \/ b >= next PROVE b # items[i]
  <2>1. CASE b \in ToSet(inHand) \cup ToSet(inbox)
    <3>1. items[i] < b
      BY <1>0, <1>2, <2>1 DEF InOrder, Precedes
    <3> QED
      BY <1>2, <3>1
  <2>2. CASE b >= next
    <3>1. items[i] \in 1..(next - 1) /\ next \in 1..(NBatches + 1)
      BY <1>0, <1>2 DEF OnePlace, Within, TypeOK
    <3> QED
      BY <2>2, <3>1, SinkAssumption
  <2> QED
    BY <1>6, <2>1, <2>2
<1> QED
  BY <1>0, <1>4, <1>5, <1>6 DEF ObserveInv

\* peek returns the head, which takes its path.
LEMMA PeekHeadKeeps ==
  ASSUME IInv, PeekHead
  PROVE  IInv'
<1>0. TypeOK /\ WindowInv /\ CollectInv /\ ObserveInv /\ ExposeInv
  BY DEF IInv
<1>1. /\ wpc = "peek" /\ items # <<>> /\ reserved' = (IF reserved = 0 THEN 1 ELSE reserved)
      /\ owedArm' = OwedRound /\ fast' = IsFast /\ resubmit' = FALSE
      /\ UNCHANGED <<outside, items, closed, fl, snk, countVars, landed, exposed, faults>>
  BY DEF PeekHead
<1>2. /\ IsFast => Observe(HeadItem) /\ wpc' = "attempt"
      /\ ~IsFast => wpc' = "round" /\ seen' = seen
  BY DEF PeekHead
<1>3. IsFast \in BOOLEAN /\ OwedRound \in BOOLEAN /\ (IsFast => fl.out = 0 /\ fl.observed = 0)
  <2>1. fl.closed \in BOOLEAN
    BY <1>0 DEF TypeOK
  <2> QED
    BY <2>1 DEF IsFast, OwedRound
<1>4. /\ items \in Seq(Batch) /\ reserved \in Nat /\ Len(items) \in Nat
      /\ fl.out \in Nat /\ fl.observed \in Nat /\ snk.owed \in Nat
      /\ fl.out <= fl.observed /\ fl.observed <= reserved /\ reserved <= Len(items)
      /\ Len(snk.sub) = fl.out - Gap /\ Gap = 0
      /\ \A i \in 1..(fl.out - Gap) : snk.sub[i] = items[i + Gap]
  BY <1>1, LoopFacts DEF Gap
<1>5. 1 \in 1..Len(items) /\ reserved' \in Nat /\ reserved' > 0 /\ reserved' <= Len(items)
      /\ reserved <= reserved'
  BY <1>1, <1>4
<1>6. items' = items /\ fl' = fl /\ snk' = snk /\ conf' = conf /\ exposed' = exposed
      /\ inHand' = inHand /\ inbox' = inbox /\ next' = next
  BY <1>1 DEF outside, upVars, drainVars
<1>7. QuietStep
  BY <1>1 DEF QuietStep
<1>8. Gap' = 0 /\ (OnSendPath' <=> IsFast) /\ ~OnSendPath
  BY <1>1, <1>2 DEF Gap, OnSendPath
<1>9. WindowInv'
  BY <1>1, <1>2, <1>3, <1>4, <1>5, <1>6, <1>8 DEF WindowInv
<1>10. snk.owed > 0 => OwedRound /\ fl.out > 0
  BY <1>1, OwedFacts
<1>11. CollectInv'
  <2>1. wpc' \in {"attempt", "round"} /\ (snk.owed > 0 => wpc' = "round" /\ owedArm')
    BY <1>1, <1>2, <1>3, <1>4, <1>10
  <2>2. CASE ~Collects
    BY <1>0, <1>6, <2>2 DEF CollectInv, Collects
  <2>3. CASE Collects
    <3>1. /\ ~fl.collecting /\ ~snk.full
          /\ fl.closed => fl.out > 0 /\ snk.owed > 0
          /\ fl.out > 0 => fl.closed
          /\ snk.visible /\ fl.out > 0 => snk.owed > 0
      BY <1>0, <1>1, <2>3 DEF CollectInv
    <3> QED
      BY <1>0, <1>6, <2>1, <2>3, <3>1 DEF CollectInv, Collects
  <2> QED
    BY <2>2, <2>3
<1>12. ExposeInv'
  BY <1>0, <1>1, <1>2, <1>6 DEF ExposeInv, Collects
<1>13. LoopTyped
  BY <1>0, TypeFrame
<1>14. UNCHANGED <<items, closed, fl, snk, countVars, landed, exposed, faults>>
  BY <1>1
<1>15. CASE ~IsFast
  <2>1. ObservedCount' = ObservedCount
    BY <1>6, <1>8, <1>15 DEF ObservedCount
  <2>2. ObserveInv'
    BY <1>1, <1>2, <1>6, <1>7, <1>15, <2>1, QuietObserves
  <2>3. wpc' \in LoopPlaces /\ fast' \in BOOLEAN /\ owedArm' \in BOOLEAN /\ resubmit' \in BOOLEAN /\ seen' = seen
    BY <1>1, <1>2, <1>3, <1>15 DEF LoopPlaces
  <2>4. LoopTyped'
    BY <1>5, <1>13, <1>14, <2>3 DEF LoopTyped, countVars
  <2> QED
    BY <1>1, <1>7, <1>9, <1>11, <1>12, <2>2, <2>4, QuietKeeps
<1>16. CASE IsFast
  <2>1. ObservedCount' = 1 /\ ObservedCount = 0
    BY <1>3, <1>8, <1>16 DEF ObservedCount
  <2>2. HeadItem = items[1] /\ Observe(items[1])
    BY <1>2, <1>16 DEF HeadItem
  <2>3. seen[items[1]] = 0
    BY <1>0, <1>1, <1>5, <2>1 DEF ObserveInv
  <2>4. /\ seen' \in [Batch -> Nat] /\ seen'[items[1]] = 1
        /\ \A b \in Batch : b # items[1] => seen'[b] = seen[b]
        /\ \A j \in 1..Len(items) : j # 1 => seen'[items[j]] = seen[items[j]]
        /\ \A b \in Batch : b \in ToSet(inHand) \cup ToSet(inbox) \/ b >= next => seen'[b] = 0
    BY <1>1, <1>5, <2>2, <2>3, ObserveEffect
  <2>5. ASSUME NEW j \in 1..Len(items) PROVE seen'[items[j]] = IF j <= 1 THEN 1 ELSE 0
    <3>1. CASE j = 1
      BY <2>4, <3>1
    <3>2. CASE j # 1
      <4>1. ~(j <= 1) /\ ~(j <= 0)
        BY <1>4, <3>2
      <4> QED
        BY <1>0, <1>1, <2>1, <2>4, <3>2, <4>1 DEF ObserveInv
    <3> QED
      BY <3>1, <3>2
  <2>6. ASSUME NEW b \in Batch PROVE seen'[b] <= 1 /\ (b \in exposed => seen'[b] = 1)
    <3>1. CASE b = items[1]
      BY <2>4, <3>1
    <3>2. CASE b # items[1]
      BY <1>0, <2>4, <3>2 DEF ObserveInv
    <3> QED
      BY <3>1, <3>2
  <2>7. ObserveInv'
    BY <1>6, <2>1, <2>4, <2>5, <2>6 DEF ObserveInv
  <2>8. wpc' \in LoopPlaces /\ fast' \in BOOLEAN /\ owedArm' \in BOOLEAN /\ resubmit' \in BOOLEAN
        /\ seen' \in [Batch -> Nat]
    BY <1>1, <1>2, <1>3, <1>16, <2>4 DEF LoopPlaces
  <2>9. LoopTyped'
    BY <1>5, <1>13, <1>14, <2>8 DEF LoopTyped, countVars
  <2> QED
    BY <1>1, <1>7, <1>9, <1>11, <1>12, <2>7, <2>9, QuietKeeps
<1> QED
  BY <1>3, <1>15, <1>16

\* The loop ends on a closed, empty store: nothing was out.
LEMMA PeekClosedKeeps ==
  ASSUME IInv, PeekClosed
  PROVE  IInv'
<1>0. TypeOK /\ WindowInv /\ CollectInv /\ ObserveInv
  BY DEF IInv
<1>1. /\ wpc = "peek" /\ items = <<>> /\ wpc' = "gone"
      /\ UNCHANGED <<outside, storeVars, fast, owedArm, resubmit, fl, snk, countVars, ghostVars, faults>>
  BY DEF PeekClosed
<1>2. /\ snk.sub \in Seq(Batch) /\ Len(items) = 0 /\ reserved \in Nat /\ fl.out \in Nat
      /\ fl.out <= Len(items) /\ snk.owed \in Nat /\ Len(snk.sub) = fl.out - Gap /\ Gap = 0
  BY <1>1, LoopFacts DEF Gap
<1>3. snk.sub = <<>> /\ fl.out = 0
  BY <1>2
<1>4. snk.owed = 0
  BY <1>0, <1>2, <1>3 DEF CollectInv
<1>5. /\ items' = items /\ reserved' = reserved /\ closed' = closed /\ conf' = conf
      /\ landed' = landed /\ seen' = seen /\ exposed' = exposed
  BY <1>1 DEF storeVars, ghostVars, outside
<1>6. QuietStep
  BY <1>1, <1>5 DEF QuietStep
<1>7. WindowInv' /\ CollectInv' /\ ExposeInv'
  BY <1>0, <1>1, <1>3, <1>4, <1>5 DEF WindowInv, CollectInv, ExposeInv, Collects
<1>8. ObserveInv'
  BY <1>1, <1>5, <1>6, QuietObserves
<1>9. LoopTyped'
  <2>1. LoopTyped /\ wpc' \in LoopPlaces
    BY <1>0, <1>1, TypeFrame DEF LoopPlaces
  <2> QED
    BY <1>1, <1>5, <2>1 DEF LoopTyped, countVars
<1> QED
  BY <1>1, <1>6, <1>7, <1>8, <1>9, QuietKeeps

\* write_loop returns at the grace, with nothing in a call.
LEMMA GiveUpIdle ==
  ASSUME IInv, wpc # "gone", ~OwedRound, NEW bs \in SUBSET ToSet(snk.sub), GiveUp(fl.out, bs),
         UNCHANGED outside
  PROVE  IInv'
<1>1. /\ items \in Seq(Batch) /\ Len(items) \in Nat /\ fl.out \in Nat /\ fl.out <= Len(items)
      /\ snk.owed \in Nat
  BY LoopFacts
<1>2. snk.owed = 0
  BY <1>1, OwedFacts
<1>3. fl.out \in 0..Len(items)
  BY <1>1
<1>4. First(fl.out) = {items[i] : i \in 1..fl.out}
  BY <1>1, <1>3, FirstFacts
<1>5. bs \in SUBSET First(fl.out)
  BY <1>4, SubFacts
<1>6. ~Collects \/ snk.visible => First(fl.out) \subseteq exposed
  BY <1>4 DEF IInv, ExposeInv
<1> QED
  BY <1>2, <1>3, <1>5, <1>6, GiveUpKeeps

\* The peek's select! takes the grace arm.
LEMMA PeekExpiredKeeps ==
  ASSUME IInv, PeekExpired
  PROVE  IInv'
<1>1. wpc # "gone" /\ ~OwedRound /\ GiveUp(fl.out, ToSet(snk.sub)) /\ UNCHANGED outside
  BY DEF PeekExpired
<1>2. ToSet(snk.sub) \in SUBSET ToSet(snk.sub)
  OBVIOUS
<1> QED
  BY <1>1, <1>2, GiveUpIdle

\* A step of the loop that changes only where it is and what it exposes.
LEMMA LoopMoves ==
  ASSUME IInv, wpc # "gone", wpc' \in LoopPlaces,
         UNCHANGED <<outside, storeVars, fast, owedArm, resubmit, fl, snk, countVars, landed, seen,
                     faults>>,
         exposed \subseteq exposed', exposed' \in SUBSET Batch,
         \A b \in exposed' : b \in exposed \/ seen[b] = 1,
         wpc' # "gone", OnSendPath' <=> OnSendPath, Gap' = Gap,
         WindowInv', CollectInv', ExposeInv'
  PROVE  IInv'
<1>1. items' = items /\ reserved' = reserved /\ closed' = closed
  BY DEF storeVars
<1>2. QuietStep
  BY <1>1 DEF QuietStep
<1>3. ObservedCount' = ObservedCount
  BY DEF ObservedCount
<1>4. ObserveInv'
  BY <1>2, <1>3, QuietObserves
<1>5. LoopTyped'
  <2>1. LoopTyped
    BY TypeFrame DEF IInv
  <2> QED
    BY <1>1, <2>1 DEF LoopTyped, countVars
<1> QED
  BY <1>2, <1>4, <1>5, QuietKeeps

\* An attempt starts, or the grace is over before it.
LEMMA AttemptKeeps ==
  ASSUME IInv, Attempt
  PROVE  IInv'
<1>0. TypeOK /\ WindowInv /\ CollectInv /\ ObserveInv /\ ExposeInv
  BY DEF IInv
<1>1. wpc = "attempt" /\ UNCHANGED outside
  BY DEF Attempt
<1>2. fl.out = 0 /\ fl.observed = 0 /\ fast /\ reserved > 0 /\ OnSendPath
  BY <1>0, <1>1 DEF WindowInv, OnSendPath
<1>3. CASE GiveUp(fl.out, {})
  <2>1. ~OwedRound
    <3>1. snk.owed = 0 /\ fl.out \in Nat
      <4>1. snk.owed \in Nat /\ fl.out \in Nat
        BY <1>1, LoopFacts
      <4> QED
        BY <1>0, <1>1, <4>1 DEF CollectInv
    <3>2. ~fl.closed
      BY <1>0, <1>1, <1>2, <3>1 DEF CollectInv
    <3> QED
      BY <3>2 DEF OwedRound
  <2>2. {} \in SUBSET ToSet(snk.sub)
    OBVIOUS
  <2> QED
    BY <1>1, <1>3, <2>1, <2>2, GiveUpIdle
<1>4. CASE /\ wpc' = "sending" /\ exposed' = exposed \cup {HeadItem}
           /\ UNCHANGED <<storeVars, fast, owedArm, resubmit, fl, snk, countVars, landed, seen, faults>>
  <2>1. HeadItem = items[1] /\ HeadItem \in Batch /\ 1 \in 1..Len(items)
    BY <1>1, <1>2, HeadFacts
  <2>2. seen[HeadItem] = 1
    <3>1. ObservedCount = 1
      BY <1>2 DEF ObservedCount
    <3> QED
      BY <1>0, <1>1, <2>1, <3>1 DEF ObserveInv
  <2>3. exposed' \in SUBSET Batch /\ \A b \in exposed' : b \in exposed \/ seen[b] = 1
    BY <1>0, <1>4, <2>1, <2>2 DEF TypeOK
  <2>4. /\ items' = items /\ reserved' = reserved /\ conf' = conf
        /\ fast' = fast /\ owedArm' = owedArm /\ resubmit' = resubmit /\ fl' = fl /\ snk' = snk
    BY <1>1, <1>4 DEF storeVars, outside
  <2>5. OnSendPath' /\ Gap' = 0 /\ Gap = 0
    BY <1>1, <1>4 DEF OnSendPath, Gap
  <2>6. WindowInv'
    BY <1>0, <1>1, <1>2, <1>4, <2>4, <2>5 DEF WindowInv
  <2>7. CollectInv'
    BY <1>0, <1>1, <1>4, <2>4 DEF CollectInv, Collects
  <2>8. ExposeInv'
    BY <1>0, <1>1, <1>4, <2>1, <2>4 DEF ExposeInv, Collects
  <2>9. wpc' \in LoopPlaces /\ wpc' # "gone" /\ wpc # "gone"
    BY <1>1, <1>4 DEF LoopPlaces
  <2>10. UNCHANGED <<outside, storeVars, fast, owedArm, resubmit, fl, snk, countVars, landed, seen, faults>>
         /\ exposed \subseteq exposed'
    BY <1>1, <1>4
  <2> QED
    BY <1>2, <2>3, <2>5, <2>6, <2>7, <2>8, <2>9, <2>10, LoopMoves
<1> QED
  BY <1>3, <1>4 DEF Attempt

\* The backoff is over.
LEMMA BackoffOverKeeps ==
  ASSUME IInv, BackoffOver
  PROVE  IInv'
<1>0. TypeOK /\ WindowInv /\ CollectInv /\ ObserveInv /\ ExposeInv
  BY DEF IInv
<1>1. /\ wpc = "backoff" /\ wpc' = (IF fast THEN "attempt" ELSE "round")
      /\ UNCHANGED <<outside, storeVars, fast, owedArm, resubmit, fl, snk, countVars, ghostVars, faults>>
  BY DEF BackoffOver
<1>2. /\ items' = items /\ reserved' = reserved /\ conf' = conf
      /\ fast' = fast /\ owedArm' = owedArm /\ resubmit' = resubmit /\ fl' = fl /\ snk' = snk
      /\ exposed' = exposed /\ landed' = landed /\ seen' = seen
  BY <1>1 DEF storeVars, outside, ghostVars
<1>3. fast \in BOOLEAN /\ wpc' \in {"attempt", "round"} /\ (wpc' = "attempt" <=> fast) /\ exposed \in SUBSET Batch
  BY <1>0, <1>1 DEF TypeOK
<1>4. OnSendPath' <=> OnSendPath
  BY <1>1, <1>3 DEF OnSendPath
<1>5. Gap' = Gap
  <2>1. fast => fl.out = 0 /\ fl.out \in Nat
    BY <1>0, <1>1, LoopFacts DEF WindowInv, OnSendPath
  <2> QED
    BY <1>1, <1>2, <1>3, <2>1 DEF Gap
<1>6. WindowInv'
  BY <1>0, <1>1, <1>2, <1>3, <1>4, <1>5 DEF WindowInv
<1>7. CollectInv'
  BY <1>0, <1>1, <1>2, <1>3 DEF CollectInv, Collects
<1>8. ExposeInv'
  BY <1>0, <1>1, <1>2, <1>3 DEF ExposeInv, Collects
<1>9. wpc' \in LoopPlaces /\ wpc' # "gone" /\ wpc # "gone"
  BY <1>1, <1>3 DEF LoopPlaces
<1>10. UNCHANGED <<outside, storeVars, fast, owedArm, resubmit, fl, snk, countVars, landed, seen, faults>>
  BY <1>1, <1>2
<1> QED
  BY <1>2, <1>3, <1>4, <1>5, <1>6, <1>7, <1>8, <1>9, <1>10, LoopMoves

\* A round starts, or the grace is over and no answer is owed.
LEMMA RoundKeeps ==
  ASSUME IInv, Round
  PROVE  IInv'
<1>0. TypeOK /\ WindowInv /\ CollectInv /\ ObserveInv /\ ExposeInv
  BY DEF IInv
<1>1. wpc = "round" /\ UNCHANGED outside
  BY DEF Round
<1>2. reserved > 0 /\ ~fast /\ ~OnSendPath
  BY <1>0, <1>1 DEF WindowInv, OnSendPath
<1>3. CASE ~OwedRound /\ GiveUp(fl.out, ToSet(snk.sub))
  <2>1. ToSet(snk.sub) \in SUBSET ToSet(snk.sub)
    OBVIOUS
  <2> QED
    BY <1>1, <1>3, <2>1, GiveUpIdle
<1>4. ASSUME UNCHANGED <<storeVars, fast, owedArm, resubmit, fl, snk, countVars, landed, seen, faults>>
      PROVE  /\ items' = items /\ reserved' = reserved /\ conf' = conf
             /\ fast' = fast /\ owedArm' = owedArm /\ resubmit' = resubmit /\ fl' = fl /\ snk' = snk
             /\ UNCHANGED <<outside, storeVars, fast, owedArm, resubmit, fl, snk, countVars, landed, seen,
                            faults>>
  BY <1>1, <1>4 DEF storeVars, outside
<1>5. CASE /\ resubmit /\ fl.out > 0 /\ wpc' = "resubmitting" /\ exposed' = exposed \cup {HeadItem}
           /\ UNCHANGED <<storeVars, fast, owedArm, resubmit, fl, snk, countVars, landed, seen, faults>>
  <2>1. HeadItem = items[1] /\ HeadItem \in Batch /\ 1 \in 1..Len(items)
    BY <1>1, <1>2, HeadFacts
  <2>2. seen[HeadItem] = 1
    <3>1. ObservedCount = fl.observed /\ fl.observed \in Nat /\ fl.out \in Nat /\ fl.out <= fl.observed
      BY <1>1, <1>2, LoopFacts DEF ObservedCount
    <3>2. 1 <= ObservedCount
      BY <1>5, <3>1
    <3> QED
      BY <1>0, <1>1, <2>1, <3>2 DEF ObserveInv
  <2>3. exposed' \in SUBSET Batch /\ \A b \in exposed' : b \in exposed \/ seen[b] = 1
    BY <1>0, <1>5, <2>1, <2>2 DEF TypeOK
  <2>4. /\ items' = items /\ reserved' = reserved /\ conf' = conf
        /\ fast' = fast /\ owedArm' = owedArm /\ resubmit' = resubmit /\ fl' = fl /\ snk' = snk
        /\ UNCHANGED <<outside, storeVars, fast, owedArm, resubmit, fl, snk, countVars, landed, seen, faults>>
    BY <1>4, <1>5
  <2>5. ~OnSendPath' /\ Gap' = 1 /\ Gap = 1
    BY <1>1, <1>5, <2>4 DEF OnSendPath, Gap
  <2>6. ~Collects
    BY <1>0, <1>5 DEF WindowInv, Collects
  <2>7. WindowInv'
    BY <1>0, <1>1, <1>2, <1>5, <2>4, <2>5 DEF WindowInv
  <2>8. CollectInv'
    BY <1>0, <1>1, <1>5, <2>4, <2>6 DEF CollectInv, Collects
  <2>9. ExposeInv'
    BY <1>0, <1>1, <1>5, <2>1, <2>4 DEF ExposeInv, Collects
  <2>10. wpc' \in LoopPlaces /\ wpc' # "gone" /\ wpc # "gone" /\ exposed \subseteq exposed'
    BY <1>1, <1>5 DEF LoopPlaces
  <2> QED
    BY <1>2, <2>3, <2>4, <2>5, <2>7, <2>8, <2>9, <2>10, LoopMoves
<1>6. CASE /\ ~(resubmit /\ fl.out > 0) /\ wpc' = "fill" /\ exposed' = exposed
           /\ UNCHANGED <<storeVars, fast, owedArm, resubmit, fl, snk, countVars, landed, seen, faults>>
  <2>1. exposed' \in SUBSET Batch
    BY <1>0, <1>6 DEF TypeOK
  <2>2. /\ items' = items /\ reserved' = reserved /\ conf' = conf
        /\ fast' = fast /\ owedArm' = owedArm /\ resubmit' = resubmit /\ fl' = fl /\ snk' = snk
        /\ UNCHANGED <<outside, storeVars, fast, owedArm, resubmit, fl, snk, countVars, landed, seen, faults>>
    BY <1>4, <1>6
  <2>3. ~OnSendPath' /\ Gap' = 0 /\ Gap = 0
    BY <1>1, <1>6, <2>2 DEF OnSendPath, Gap
  <2>4. WindowInv'
    BY <1>0, <1>1, <1>2, <1>6, <2>2, <2>3 DEF WindowInv
  <2>5. CollectInv'
    BY <1>0, <1>1, <1>6, <2>2 DEF CollectInv, Collects
  <2>6. ExposeInv'
    BY <1>0, <1>1, <1>6, <2>2 DEF ExposeInv, Collects
  <2>7. wpc' \in LoopPlaces /\ wpc' # "gone" /\ wpc # "gone"
    BY <1>1, <1>6 DEF LoopPlaces
  <2> QED
    BY <1>2, <1>6, <2>1, <2>2, <2>3, <2>4, <2>5, <2>6, <2>7, LoopMoves
<1>7. fl.out > 0 \/ ~(fl.out > 0)
  OBVIOUS
<1> QED
  BY <1>3, <1>5, <1>6, <1>7 DEF Round

\* The fill ends on a window that is not empty.
LEMMA EndFillKeeps ==
  ASSUME IInv, wpc \in {"fill", "waiting", "submitting"}, fl.out > 0, EndFill(fl),
         faults' \in Nat, UNCHANGED <<outside, storeVars, snk, countVars, ghostVars>>
  PROVE  IInv'
<1>0. TypeOK /\ WindowInv /\ CollectInv /\ ObserveInv /\ ExposeInv
  BY DEF IInv
<1>1. /\ fl' = [fl EXCEPT !.collecting = FALSE, !.closed = fl.closed \/ fl.collecting]
      /\ wpc' = "acking" /\ fast' = fast /\ owedArm' = owedArm /\ resubmit' = resubmit
  BY DEF EndFill
<1>2. /\ fl' \in WindowType /\ fl'.out = fl.out /\ fl'.observed = fl.observed /\ ~fl'.collecting
      /\ (fl'.closed <=> fl.closed \/ fl.collecting)
  <2>1. fl \in WindowType
    BY <1>0 DEF TypeOK, WindowType
  <2> QED
    BY <1>1, <2>1 DEF WindowType
<1>3. /\ items' = items /\ reserved' = reserved /\ closed' = closed /\ conf' = conf /\ snk' = snk
      /\ landed' = landed /\ seen' = seen /\ exposed' = exposed
  BY DEF storeVars, ghostVars, outside
<1>4. QuietStep
  BY <1>3 DEF QuietStep
<1>5. Gap' = 0 /\ Gap = 0 /\ ~OnSendPath' /\ ~OnSendPath
  BY <1>1 DEF Gap, OnSendPath
<1>6. WindowInv'
  BY <1>0, <1>1, <1>2, <1>3, <1>5 DEF WindowInv
<1>7. CollectInv'
  <2>1. CASE ~Collects
    BY <1>0, <1>1, <1>2, <1>3, <2>1 DEF CollectInv, Collects
  <2>2. CASE Collects
    BY <1>0, <1>1, <1>2, <1>3, <2>2 DEF CollectInv, Collects
  <2> QED
    BY <2>1, <2>2
<1>8. ExposeInv'
  BY <1>0, <1>1, <1>2, <1>3 DEF ExposeInv, Collects
<1>9. ObserveInv'
  <2>1. ObservedCount' = ObservedCount
    BY <1>2, <1>5 DEF ObservedCount
  <2> QED
    BY <1>3, <1>4, <2>1, QuietObserves
<1>10. LoopTyped'
  <2>1. LoopTyped /\ wpc' \in LoopPlaces
    BY <1>0, <1>1, TypeFrame DEF LoopPlaces
  <2> QED
    BY <1>1, <1>2, <1>3, <2>1 DEF LoopTyped, countVars
<1> QED
  BY <1>4, <1>6, <1>7, <1>8, <1>9, <1>10, QuietKeeps

\* The next item goes to the sink, into a window that is still open.
LEMMA BeginSubmitKeeps ==
  ASSUME IInv, wpc \in {"fill", "waiting"}, fl.out < Len(items), BeginSubmit,
         snk.owed = 0, ~fl.closed, ~snk.full,
         UNCHANGED <<outside, countVars, faults>>
  PROVE  IInv'
<1>0. TypeOK /\ WindowInv /\ CollectInv /\ ObserveInv /\ ExposeInv
  BY DEF IInv
<1> DEFINE k == fl.out + 1
           b == items[k]
<1>1. /\ reserved' = (IF reserved < k THEN k ELSE reserved)
      /\ (fl.out >= fl.observed => Observe(b) /\ fl' = [fl EXCEPT !.observed = k])
      /\ (~(fl.out >= fl.observed) => seen' = seen /\ fl' = fl)
      /\ exposed' = (IF Collects THEN exposed ELSE exposed \cup {b})
      /\ snk' = [snk EXCEPT !.visible = snk.visible /\ fl.out > 0]
      /\ wpc' = "submitting"
      /\ UNCHANGED <<items, closed, fast, owedArm, resubmit, landed>>
  BY DEF BeginSubmit, Collects
<1>2. /\ items \in Seq(Batch) /\ reserved \in Nat /\ Len(items) \in Nat
      /\ fl.out \in Nat /\ fl.observed \in Nat
      /\ fl.out <= fl.observed /\ fl.observed <= reserved /\ reserved <= Len(items)
  BY LoopFacts
<1>3. k \in 1..Len(items) /\ b \in Batch /\ k \in Nat /\ k = fl.out + 1
  <2>1. k \in 1..Len(items) /\ k \in Nat
    BY <1>2
  <2> QED
    BY <1>2, <2>1
<1>4. reserved' \in Nat /\ reserved <= reserved' /\ k <= reserved' /\ reserved' <= Len(items)
  BY <1>1, <1>2, <1>3
<1> HIDE DEF b
<1>5. /\ fl' \in WindowType /\ fl'.out = fl.out /\ fl'.collecting = fl.collecting /\ fl'.closed = fl.closed
      /\ fl'.observed = (IF fl.out >= fl.observed THEN k ELSE fl.observed)
  <2>1. fl \in WindowType
    BY <1>0 DEF TypeOK, WindowType
  <2>2. CASE fl.out >= fl.observed
    BY <1>1, <1>3, <2>1, <2>2 DEF WindowType
  <2>3. CASE ~(fl.out >= fl.observed)
    BY <1>1, <2>1, <2>3
  <2> QED
    BY <2>2, <2>3
<1>6. ~(snk.visible /\ fl.out > 0)
  BY <1>0 DEF CollectInv
<1>7. /\ snk' \in SinkType /\ snk'.sub = snk.sub /\ snk'.owed = snk.owed /\ snk'.full = snk.full
      /\ ~snk'.visible
  <2>1. snk \in SinkType
    BY <1>0 DEF TypeOK, SinkType
  <2>2. snk' = [snk EXCEPT !.visible = FALSE]
    BY <1>1, <1>6
  <2> QED
    BY <2>1, <2>2 DEF SinkType
<1>8. /\ items' = items /\ conf' = conf /\ inHand' = inHand /\ inbox' = inbox /\ next' = next
      /\ fast' = fast /\ owedArm' = owedArm /\ resubmit' = resubmit /\ closed' = closed /\ landed' = landed
  BY <1>1 DEF outside, upVars, drainVars
<1>9. QuietStep
  <2>1. exposed \subseteq exposed'
    BY <1>1
  <2> QED
    BY <1>7, <1>8, <2>1 DEF QuietStep
<1>10. Gap' = 0 /\ Gap = 0 /\ ~OnSendPath' /\ ~OnSendPath
  BY <1>1 DEF Gap, OnSendPath
<1>11. fl'.out < fl'.observed /\ fl'.observed <= reserved' /\ fl'.out <= fl'.observed
  BY <1>2, <1>3, <1>4, <1>5
<1>12. WindowInv'
  <2>1. ~fast /\ (resubmit => conf.sink = "windowed") /\ Len(snk.sub) = fl.out - 0
        /\ \A i \in 1..(fl.out - 0) : snk.sub[i] = items[i + 0]
    BY <1>0, <1>10 DEF WindowInv
  <2>2. reserved' > 0 /\ reserved' <= Len(items)
    BY <1>3, <1>4
  <2> QED
    BY <1>1, <1>5, <1>7, <1>8, <1>10, <1>11, <2>1, <2>2 DEF WindowInv
<1>13. CollectInv'
  <2>1. CASE ~Collects
    BY <1>0, <1>1, <1>5, <1>7, <1>8, <2>1 DEF CollectInv, Collects
  <2>2. CASE Collects
    <3>1. fl.collecting => ~fl.closed /\ fl.out > 0
      BY <1>0, <2>2 DEF CollectInv
    <3>2. fl.out > 0 => fl.collecting
      BY <1>0, <2>2 DEF CollectInv
    <3> QED
      BY <1>1, <1>5, <1>7, <1>8, <2>2, <3>1, <3>2 DEF CollectInv, Collects
  <2> QED
    BY <2>1, <2>2
<1>14. ExposeInv'
  <2>1. ~Collects => \A i \in 1..fl.out : items[i] \in exposed
    BY <1>0 DEF ExposeInv
  <2>2. ~Collects => items[fl.out + 1] \in exposed'
    BY <1>1 DEF b, k
  <2> QED
    BY <1>1, <1>5, <1>7, <1>8, <1>9, <2>1, <2>2 DEF ExposeInv, Collects, QuietStep
<1>15. ObservedCount = fl.observed /\ ObservedCount' = fl'.observed
  BY <1>10 DEF ObservedCount
<1>16. seen' \in [Batch -> Nat] /\ seen'[b] = 1 /\ ObserveInv'
  <2>1. CASE ~(fl.out >= fl.observed)
    <3>1. k <= ObservedCount /\ ObservedCount' = ObservedCount /\ seen' = seen
      BY <1>1, <1>2, <1>3, <1>5, <1>15, <2>1
    <3>2. seen[b] = 1
      BY <1>0, <1>3, <3>1 DEF ObserveInv, b
    <3>3. \A c \in exposed' : c \in exposed \/ seen[c] = 1
      BY <1>1, <3>2
    <3>4. ObserveInv'
      BY <1>9, <3>1, <3>3, QuietObserves
    <3> QED
      BY <1>0, <3>1, <3>2, <3>4 DEF TypeOK
  <2>2. CASE fl.out >= fl.observed
    <3>1. fl.observed = fl.out /\ ObservedCount' = k /\ ~(k <= ObservedCount)
      BY <1>2, <1>3, <1>5, <1>15, <2>2
    <3>2. seen[items[k]] = 0 /\ Observe(items[k])
      BY <1>0, <1>1, <1>3, <2>2, <3>1 DEF ObserveInv, b
    <3>3. /\ seen' \in [Batch -> Nat] /\ seen'[items[k]] = 1
          /\ \A c \in Batch : c # items[k] => seen'[c] = seen[c]
          /\ \A j \in 1..Len(items) : j # k => seen'[items[j]] = seen[items[j]]
          /\ \A c \in Batch : c \in ToSet(inHand) \cup ToSet(inbox) \/ c >= next => seen'[c] = 0
      BY <1>3, <3>2, ObserveEffect
    <3>4. ASSUME NEW j \in 1..Len(items) PROVE seen'[items[j]] = IF j <= k THEN 1 ELSE 0
      <4>1. CASE j = k
        <5>1. j <= k
          BY <1>3, <4>1
        <5> QED
          BY <3>3, <4>1, <5>1
      <4>2. CASE j # k
        <5>1. j <= ObservedCount <=> j <= k
          BY <1>2, <1>3, <1>15, <3>1, <4>2
        <5> QED
          BY <1>0, <3>3, <4>2, <5>1 DEF ObserveInv
      <4> QED
        BY <4>1, <4>2
    <3>5. ASSUME NEW c \in Batch PROVE seen'[c] <= 1 /\ (c \in exposed' => seen'[c] = 1)
      <4>1. CASE c = items[k]
        BY <3>3, <4>1
      <4>2. CASE c # items[k]
        <5>1. c \in exposed' => c \in exposed
          BY <1>1, <4>2 DEF b
        <5> QED
          BY <1>0, <3>3, <4>2, <5>1 DEF ObserveInv
      <4> QED
        BY <4>1, <4>2
    <3>6. ObserveInv'
      BY <1>8, <3>1, <3>3, <3>4, <3>5 DEF ObserveInv
    <3> QED
      BY <3>3, <3>6 DEF b
  <2> QED
    BY <2>1, <2>2
<1>17. LoopTyped'
  <2>1. LoopTyped /\ wpc' \in LoopPlaces
    BY <1>0, <1>1, TypeFrame DEF LoopPlaces
  <2>2. exposed' \in SUBSET Batch
    BY <1>1, <1>3, <2>1 DEF LoopTyped
  <2>3. seen' \in [Batch -> Nat]
    BY <1>16
  <2> QED
    BY <1>4, <1>5, <1>7, <1>8, <2>1, <2>2, <2>3 DEF LoopTyped, countVars
<1> QED
  BY <1>9, <1>12, <1>13, <1>14, <1>16, <1>17, QuietKeeps

\* The fill submits only into a window that is neither full nor closed.
LEMMA OpenWindow ==
  ASSUME IInv, wpc = "fill", fl.out < Limit
  PROVE  snk.owed = 0 /\ ~fl.closed /\ ~snk.full
<1>0. CollectInv /\ fl.out \in Nat /\ snk.owed \in Nat /\ Len(snk.sub) = fl.out - Gap /\ Gap = 0
  BY LoopFacts DEF IInv, Gap
<1>1. InFlightLimit \in Nat
  BY SinkAssumption DEF InFlightLimit, Unbounded
<1>2. ~(Window = fl.out /\ fl.out > 0)
  BY <1>0, <1>1 DEF Limit
<1>3. snk.owed = 0
  BY <1>0, <1>2, OwedFacts
<1>4. ~snk.full
  <2>1. ASSUME snk.full PROVE FALSE
    <3>1. Collects /\ fl.out > 0
      BY <1>0, <2>1 DEF CollectInv
    <3>2. Window = Len(snk.sub)
      BY <1>3, <2>1, <3>1 DEF Window, Collects
    <3> QED
      BY <1>0, <1>2, <3>1, <3>2
  <2> QED
    BY <2>1
<1>5. ~fl.closed
  BY <1>0, <1>3 DEF CollectInv
<1> QED
  BY <1>3, <1>4, <1>5

\* One turn of the fill.
LEMMA FillKeeps ==
  ASSUME IInv, Fill
  PROVE  IInv'
<1>0. TypeOK /\ WindowInv /\ CollectInv /\ ExposeInv
  BY DEF IInv
<1>1. wpc = "fill" /\ UNCHANGED <<outside, countVars, faults>>
  BY DEF Fill
<1>2. /\ fl.out \in Nat /\ Len(items) \in Nat /\ reserved \in Nat /\ reserved <= Len(items) /\ reserved > 0
      /\ Limit >= 1 /\ Limit \in Int
  <2>1. fl.out \in Nat /\ Len(items) \in Nat /\ reserved \in Nat /\ reserved <= Len(items)
    BY <1>1, LoopFacts
  <2>2. reserved > 0
    BY <1>0, <1>1 DEF WindowInv
  <2>3. Window \in Nat
    <3>1. snk \in SinkType /\ conf \in [kind : Kinds, posture : Postures, policy : Policies, sink : Sinks]
      BY <1>0 DEF TypeOK, SinkType
    <3>2. snk.win \in Nat /\ snk.owed \in Nat /\ snk.sub \in Seq(Batch)
          /\ conf.sink \in {"single", "windowed", "collecting"}
      BY <3>1, SinkAssumption DEF SinkType
    <3>3. Len(snk.sub) \in Nat /\ Unbounded \in Nat
      BY <3>2, SinkAssumption DEF Unbounded
    <3> QED
      BY <3>2, <3>3 DEF Window
  <2>4. InFlightLimit \in Nat
    BY SinkAssumption DEF InFlightLimit, Unbounded
  <2>5. Limit >= 1 /\ Limit \in Int
    BY <2>3, <2>4 DEF Limit
  <2> QED
    BY <2>1, <2>2, <2>5
<1>3. CASE fl.out < Limit /\ Len(items) > fl.out /\ BeginSubmit
  <2>1. snk.owed = 0 /\ ~fl.closed /\ ~snk.full
    BY <1>1, <1>3, OpenWindow
  <2>2. fl.out < Len(items)
    BY <1>2, <1>3
  <2> QED
    BY <1>1, <1>3, <2>1, <2>2, BeginSubmitKeeps
<1>4. CASE /\ \/ fl.out >= Limit
              \/ Len(items) <= fl.out /\ (~fl.collecting \/ grace # "none")
              \/ fl.collecting
           /\ EndFill(fl) /\ UNCHANGED <<storeVars, snk, ghostVars>>
  <2>1. fl.out > 0
    <3>1. fl.collecting => fl.out > 0
      BY <1>0, <1>1 DEF CollectInv
    <3> QED
      BY <1>2, <1>4, <3>1
  <2>2. faults' \in Nat
    BY <1>0, <1>1 DEF TypeOK
  <2>3. UNCHANGED <<outside, storeVars, snk, countVars, ghostVars>>
    BY <1>1, <1>4
  <2> QED
    BY <1>1, <1>4, <2>1, <2>2, <2>3, EndFillKeeps
<1>5. CASE /\ fl.out < Limit /\ fl.collecting /\ wpc' = "waiting"
           /\ UNCHANGED <<storeVars, fast, owedArm, resubmit, fl, snk, ghostVars>>
  <2>1. /\ items' = items /\ reserved' = reserved /\ conf' = conf
        /\ fast' = fast /\ owedArm' = owedArm /\ resubmit' = resubmit /\ fl' = fl /\ snk' = snk
        /\ exposed' = exposed /\ landed' = landed /\ seen' = seen
    BY <1>1, <1>5 DEF storeVars, outside, ghostVars
  <2>2. snk.owed = 0 /\ ~fl.closed /\ ~snk.full
    BY <1>1, <1>5, OpenWindow
  <2>3. Collects /\ fl.out > 0
    BY <1>0, <1>1, <1>5 DEF CollectInv
  <2>4. Gap' = 0 /\ Gap = 0 /\ ~OnSendPath' /\ ~OnSendPath
    BY <1>1, <1>5 DEF Gap, OnSendPath
  <2>5. WindowInv'
    BY <1>0, <1>1, <1>5, <2>1, <2>3, <2>4 DEF WindowInv
  <2>6. CollectInv'
    BY <1>0, <1>1, <1>5, <2>1, <2>2, <2>3 DEF CollectInv, Collects
  <2>7. ExposeInv'
    BY <1>0, <1>1, <1>5, <2>1 DEF ExposeInv, Collects
  <2>8. wpc' \in LoopPlaces /\ wpc' # "gone" /\ wpc # "gone" /\ exposed' \in SUBSET Batch
    BY <1>0, <1>1, <1>5, <2>1 DEF LoopPlaces, TypeOK
  <2>9. UNCHANGED <<outside, storeVars, fast, owedArm, resubmit, fl, snk, countVars, landed, seen, faults>>
    BY <1>1, <1>5, <2>1
  <2> QED
    BY <2>1, <2>4, <2>5, <2>6, <2>7, <2>8, <2>9, LoopMoves
<1> QED
  BY <1>3, <1>4, <1>5 DEF Fill

\* The wait of an open collecting window ends.
LEMMA WindowWaitEndsKeeps ==
  ASSUME IInv, WindowWaitEnds
  PROVE  IInv'
<1>0. TypeOK /\ WindowInv /\ CollectInv
  BY DEF IInv
<1>1. wpc = "waiting" /\ UNCHANGED <<outside, countVars, faults>>
  BY DEF WindowWaitEnds
<1>2. fl.out \in Nat /\ Len(items) \in Nat /\ snk.owed \in Nat
  BY <1>1, LoopFacts
<1>3. fl.out > 0
  BY <1>0, <1>1 DEF WindowInv
<1>4. CASE Len(items) > fl.out /\ BeginSubmit
  <2>1. snk.owed = 0
    BY <1>0, <1>1, <1>2 DEF CollectInv
  <2>2. ~fl.closed /\ ~snk.full
    BY <1>0, <1>1, <2>1 DEF CollectInv
  <2>3. fl.out < Len(items)
    BY <1>2, <1>4
  <2> QED
    BY <1>1, <1>4, <2>1, <2>2, <2>3, BeginSubmitKeeps
<1>5. CASE EndFill(fl) /\ UNCHANGED <<storeVars, snk, ghostVars>>
  <2>1. faults' \in Nat
    BY <1>0, <1>1 DEF TypeOK
  <2>2. UNCHANGED <<outside, storeVars, snk, countVars, ghostVars>>
    BY <1>1, <1>5
  <2> QED
    BY <1>1, <1>3, <1>5, <2>1, <2>2, EndFillKeeps
<1> QED
  BY <1>4, <1>5 DEF WindowWaitEnds

\* Output::submit returns.
LEMMA SubmitReturnsKeeps ==
  ASSUME IInv, SubmitReturns
  PROVE  IInv'
<1>0. TypeOK /\ WindowInv /\ CollectInv /\ ExposeInv
  BY DEF IInv
<1>1. wpc = "submitting" /\ UNCHANGED <<outside, seen, exposed>>
  BY DEF SubmitReturns
<1>2. /\ items \in Seq(Batch) /\ snk.sub \in Seq(Batch) /\ Len(items) \in Nat /\ reserved \in Nat
      /\ fl.out \in Nat /\ fl.observed \in Nat
      /\ fl.observed <= reserved /\ reserved <= Len(items) /\ Gap = 0
      /\ Len(snk.sub) = fl.out - Gap /\ \A i \in 1..(fl.out - Gap) : snk.sub[i] = items[i + Gap]
  BY <1>1, LoopFacts DEF Gap
<1>3. /\ snk.owed = 0 /\ ~snk.full /\ snk \in SinkType /\ fl \in WindowType /\ reserved > 0
      /\ ~fast /\ ~fl.closed /\ fl.out < fl.observed /\ ~snk.visible
  BY <1>1, InCallFacts
<1>4. Len(snk.sub) = fl.out /\ \A i \in 1..fl.out : snk.sub[i] = items[i]
  <2>1. fl.out - Gap = fl.out /\ \A i \in 1..fl.out : i + Gap = i
    BY <1>2
  <2> QED
    BY <1>2, <2>1
<1>5. ASSUME NEW w \in Windows, NEW full \in BOOLEAN, full => Collects,
             snk' = [snk EXCEPT !.win = w, !.sub = Append(snk.sub, items[fl.out + 1]), !.full = full],
             fl' = [fl EXCEPT !.out = fl.out + 1,
                              !.collecting = fl.collecting \/ (Collects /\ fl.out = 0 /\ ~full)],
             wpc' = "fill",
             UNCHANGED <<storeVars, fast, owedArm, resubmit, countVars, landed, faults>>
      PROVE  IInv'
  <2>1. fl.out + 1 \in 1..Len(items) /\ fl.out + 1 \in Nat
    BY <1>2, <1>3
  <2>2. items[fl.out + 1] \in Batch
    BY <1>2, <2>1
  <2> DEFINE s == Append(snk.sub, items[fl.out + 1])
  <2>3. /\ s \in Seq(Batch) /\ Len(s) = fl.out + 1 /\ s[fl.out + 1] = items[fl.out + 1]
        /\ \A i \in 1..fl.out : s[i] = items[i]
    BY <1>2, <1>4, <2>2, AppendFacts
  <2> HIDE DEF s
  <2>4. ASSUME NEW i \in 1..(fl.out + 1) PROVE s[i] = items[i]
    <3>1. i \in 1..fl.out \/ i = fl.out + 1
      BY <1>2
    <3> QED
      BY <2>3, <3>1
  <2>5. /\ snk' \in SinkType /\ snk'.sub = s /\ snk'.full = full /\ snk'.owed = 0
        /\ snk'.visible = snk.visible
    <3>1. w \in Nat
      BY WindowsFacts
    <3>2. snk' = [snk EXCEPT !.win = w, !.sub = s, !.full = full]
      BY <1>5 DEF s
    <3> QED
      BY <1>3, <2>3, <3>1, <3>2 DEF SinkType
  <2>6. /\ fl' \in WindowType /\ fl'.out = fl.out + 1 /\ fl'.observed = fl.observed
        /\ (fl'.collecting <=> fl.collecting \/ (Collects /\ fl.out = 0 /\ ~full))
        /\ fl'.closed = fl.closed
    BY <1>3, <1>5, <2>1 DEF WindowType
  <2>7. /\ items' = items /\ reserved' = reserved /\ closed' = closed /\ conf' = conf
        /\ fast' = fast /\ owedArm' = owedArm /\ resubmit' = resubmit
        /\ landed' = landed /\ seen' = seen /\ exposed' = exposed
    BY <1>1, <1>5 DEF storeVars, outside
  <2>8. QuietStep
    BY <1>1, <1>3, <1>5, <2>5, <2>7 DEF QuietStep
  <2>9. Gap' = 0 /\ ~OnSendPath' /\ ~OnSendPath
    BY <1>1, <1>5 DEF Gap, OnSendPath
  <2>10. WindowInv'
    <3>1. /\ fl'.out - 0 = fl'.out /\ fl'.out <= fl'.observed /\ fl'.observed <= reserved
      BY <1>2, <1>3, <2>1, <2>6
    <3>2. \A i \in 1..fl'.out : snk'.sub[i] = items[i + 0]
      BY <1>2, <2>4, <2>5, <2>6
    <3>3. Len(snk'.sub) = fl'.out
      BY <2>3, <2>5, <2>6
    <3>4. resubmit => conf.sink = "windowed"
      BY <1>0 DEF WindowInv
    <3> QED
      BY <1>2, <1>3, <1>5, <2>7, <2>9, <3>1, <3>2, <3>3, <3>4 DEF WindowInv
  <2>11. CollectInv'
    <3>1. CASE ~Collects
      BY <1>0, <1>3, <1>5, <2>5, <2>6, <2>7, <3>1 DEF CollectInv, Collects
    <3>2. CASE Collects
      <4>1. fl.out > 0 => fl.collecting
        BY <1>0, <1>1, <1>3, <3>2 DEF CollectInv
      <4>2. fl'.out > 0 /\ (~fl'.collecting => fl'.out = 1 /\ full)
        BY <1>2, <2>6, <3>2, <4>1
      <4> QED
        BY <1>3, <1>5, <2>5, <2>6, <2>7, <3>2, <4>2 DEF CollectInv, Collects
    <3> QED
      BY <3>1, <3>2
  <2>12. ExposeInv'
    <3>1. ASSUME ~Collects, NEW i \in 1..(fl.out + 1) PROVE items[i] \in exposed
      <4>1. i \in 1..fl.out \/ i = fl.out + 1
        BY <1>2
      <4> QED
        BY <1>0, <1>1, <3>1, <4>1 DEF ExposeInv
    <3> QED
      BY <1>3, <1>5, <2>5, <2>6, <2>7, <3>1 DEF ExposeInv, Collects
  <2>13. ObserveInv'
    <3>1. ObservedCount' = ObservedCount
      BY <2>6, <2>9 DEF ObservedCount
    <3> QED
      BY <1>1, <2>7, <2>8, <3>1, QuietObserves
  <2>14. LoopTyped'
    <3>1. LoopTyped /\ wpc' \in LoopPlaces
      BY <1>0, <1>5, TypeFrame DEF LoopPlaces
    <3>2. UNCHANGED <<countVars, faults>>
      BY <1>5
    <3> QED
      BY <2>5, <2>6, <2>7, <3>1, <3>2 DEF LoopTyped, countVars
  <2> QED
    BY <1>1, <2>8, <2>10, <2>11, <2>12, <2>13, <2>14, QuietKeeps
<1>6. ASSUME fl.out = 0, NEW f \in Faults, NEW headOnly \in BOOLEAN, headOnly => conf.sink = "windowed",
             Failed(f, headOnly, 1, [fl EXCEPT !.collecting = FALSE]), LandsUnder(f, {HeadItem}),
             NEW w \in Windows, snk' = [snk EXCEPT !.win = w]
      PROVE  IInv'
  <2> DEFINE v == [fl EXCEPT !.collecting = FALSE]
  <2>1. v \in WindowType /\ v.observed = fl.observed /\ v.out = 0 /\ ~v.collecting /\ ~v.closed
    BY <1>3, <1>6 DEF WindowType
  <2>2. Failed(f, headOnly, 1, v)
    BY <1>6
  <2> HIDE DEF v
  <2>3. /\ snk' \in SinkType /\ snk'.sub = snk.sub /\ snk'.full = snk.full /\ snk'.owed = 0
        /\ snk'.visible = snk.visible
    BY <1>3, <1>6, WindowsFacts DEF SinkType
  <2>4. snk.sub = <<>>
    BY <1>2, <1>4, <1>6
  <2>5. NothingOut(v)
    BY <2>1, <2>3, <2>4 DEF NothingOut
  <2>6. {HeadItem} \in SUBSET ToSet(items) /\ First(1) = {HeadItem} /\ 1 \in 0..Len(items)
    <3>1. /\ HeadItem \in ToSet(items) /\ First(1) = {HeadItem} /\ 1 \in 1..Len(items)
      BY <1>1, <1>3, HeadFacts
    <3> QED
      BY <3>1
  <2>7. CallFailed(headOnly, 1, v)
    BY <1>1, <1>3, <1>6, <2>1, <2>3, <2>5, <2>6 DEF CallFailed
  <2>8. DropsWith(f, headOnly, 1) = 1
    BY DEF DropsWith
  <2> QED
    BY <1>6, <2>2, <2>6, <2>7, <2>8, FailedKeeps
<1>7. CASE /\ fl.out > 0 /\ faults' = faults + 1 /\ EndFill(fl)
           /\ UNCHANGED <<storeVars, snk, countVars, landed>>
  <2>1. faults' \in Nat
    BY <1>0, <1>7 DEF TypeOK
  <2>2. UNCHANGED <<outside, storeVars, snk, countVars, ghostVars>>
    BY <1>1, <1>7 DEF ghostVars
  <2> QED
    BY <1>1, <1>7, <2>1, <2>2, EndFillKeeps
<1> QED
  BY <1>5, <1>6, <1>7 DEF SubmitReturns, Collects

\* The head's resubmit returns.
LEMMA ResubmitReturnsKeeps ==
  ASSUME IInv, ResubmitReturns
  PROVE  IInv'
<1>0. TypeOK /\ WindowInv /\ CollectInv /\ ExposeInv
  BY DEF IInv
<1>1. wpc = "resubmitting" /\ UNCHANGED <<outside, seen, exposed>>
  BY DEF ResubmitReturns
<1>2. /\ snk.owed = 0 /\ ~snk.full /\ snk \in SinkType /\ fl \in WindowType /\ reserved > 0
      /\ conf.sink = "windowed" /\ ~fast /\ fl.out > 0 /\ resubmit
  BY <1>1, InCallFacts
<1>3. Gap = 1
  BY <1>1, <1>2 DEF Gap
<1>4. /\ items \in Seq(Batch) /\ snk.sub \in Seq(Batch) /\ Len(items) \in Nat /\ reserved \in Nat
      /\ fl.out \in Nat /\ fl.observed \in Nat /\ fl.out <= fl.observed /\ fl.out <= Len(items)
      /\ fl.observed <= reserved /\ reserved <= Len(items)
      /\ Len(snk.sub) = fl.out - 1 /\ \A i \in 1..(fl.out - 1) : snk.sub[i] = items[i + 1]
  BY <1>1, <1>3, LoopFacts
<1>5. HeadItem = items[1] /\ HeadItem \in Batch /\ First(1) = {HeadItem} /\ HeadItem \in ToSet(items)
  BY <1>1, <1>2, HeadFacts
<1>6. CASE /\ wpc' = "fill" /\ snk' = [snk EXCEPT !.sub = <<HeadItem>> \o snk.sub]
           /\ UNCHANGED <<storeVars, fast, owedArm, resubmit, fl, countVars, landed, faults>>
  <2> DEFINE s == <<HeadItem>> \o snk.sub
  <2>1. s \in Seq(Batch) /\ Len(s) = Len(snk.sub) + 1 /\ s[1] = HeadItem
        /\ \A i \in 2..(Len(snk.sub) + 1) : s[i] = snk.sub[i - 1]
    <3>1. snk.sub \in Seq(Batch) /\ HeadItem \in Batch /\ Len(snk.sub) \in Nat
      BY <1>4, <1>5
    <3> QED
      BY <3>1
  <2> HIDE DEF s
  <2>2. Len(s) = fl.out
    BY <1>4, <2>1
  <2>3. ASSUME NEW i \in 1..fl.out PROVE s[i] = items[i]
    <3>1. CASE i = 1
      BY <1>5, <2>1, <3>1
    <3>2. CASE i # 1
      <4>1. i \in 2..(Len(snk.sub) + 1) /\ i - 1 \in 1..(fl.out - 1) /\ (i - 1) + 1 = i
        BY <1>4, <3>2
      <4>2. snk.sub[i - 1] = items[(i - 1) + 1]
        BY <1>4, <4>1
      <4> QED
        BY <2>1, <4>1, <4>2
    <3> QED
      BY <3>1, <3>2
  <2>4. /\ snk' \in SinkType /\ snk'.sub = s /\ snk'.full = snk.full /\ snk'.owed = 0
        /\ snk'.visible = snk.visible
    <3>1. snk' = [snk EXCEPT !.sub = s]
      BY <1>6 DEF s
    <3> QED
      BY <1>2, <2>1, <3>1 DEF SinkType
  <2>5. /\ items' = items /\ reserved' = reserved /\ closed' = closed /\ conf' = conf /\ fl' = fl
        /\ fast' = fast /\ owedArm' = owedArm /\ resubmit' = resubmit
        /\ landed' = landed /\ seen' = seen /\ exposed' = exposed
    BY <1>1, <1>6 DEF storeVars, outside
  <2>6. QuietStep
    BY <1>1, <1>2, <1>6, <2>4, <2>5 DEF QuietStep
  <2>7. Gap' = 0 /\ ~OnSendPath' /\ ~OnSendPath
    BY <1>1, <1>6 DEF Gap, OnSendPath
  <2>8. fl.out - 0 = fl.out /\ \A i \in 1..fl.out : s[i] = items[i + 0]
    BY <1>4, <2>3
  <2>9. WindowInv'
    BY <1>2, <1>4, <1>6, <2>2, <2>4, <2>5, <2>7, <2>8 DEF WindowInv
  <2>10. CollectInv'
    BY <1>0, <1>2, <1>6, <2>4, <2>5 DEF CollectInv, Collects
  <2>11. ExposeInv'
    BY <1>0, <1>1, <1>6, <2>4, <2>5 DEF ExposeInv, Collects
  <2>12. ObserveInv'
    <3>1. ObservedCount' = ObservedCount
      BY <2>5, <2>7 DEF ObservedCount
    <3> QED
      BY <1>1, <2>5, <2>6, <3>1, QuietObserves
  <2>13. LoopTyped'
    <3>1. LoopTyped /\ wpc' \in LoopPlaces
      BY <1>0, <1>6, TypeFrame DEF LoopPlaces
    <3>2. UNCHANGED <<countVars, faults>>
      BY <1>6
    <3> QED
      BY <2>4, <2>5, <3>1, <3>2 DEF LoopTyped, countVars
  <2> QED
    BY <1>1, <2>6, <2>9, <2>10, <2>11, <2>12, <2>13, QuietKeeps
<1>7. ASSUME NEW f \in Faults, Failed(f, TRUE, 1, fl), LandsUnder(f, {HeadItem}), UNCHANGED snk
      PROVE  IInv'
  <2>1. /\ snk' \in SinkType /\ snk'.owed = 0 /\ ~snk'.full /\ snk'.visible = snk.visible
        /\ Len(snk'.sub) = fl.out - 1 /\ \A i \in 1..(fl.out - 1) : snk'.sub[i] = items[i + 1]
    BY <1>2, <1>4, <1>7
  <2> QED
    BY <1>1, <1>2, <1>7, <2>1, HeadOnlyFails
<1>8. ASSUME NEW f \in Faults, NEW w \in Windows, Failed(f, FALSE, fl.out, Cut(fl)),
             LandsUnder(f, {HeadItem} \cup ToSet(snk.sub)),
             snk' = [snk EXCEPT !.win = w, !.sub = <<>>]
      PROVE  IInv'
  <2>1. w \in Nat /\ <<>> \in Seq(Batch)
    BY WindowsFacts
  <2>2. /\ snk' \in SinkType /\ snk'.owed = 0 /\ ~snk'.full /\ snk'.visible = snk.visible
        /\ snk'.sub = <<>>
    BY <1>2, <1>8, <2>1 DEF SinkType
  <2>3. {HeadItem} \cup ToSet(snk.sub) \in SUBSET First(fl.out)
    <3>1. fl.out \in 0..Len(items) /\ 1 \in 1..fl.out
      BY <1>2, <1>4
    <3>2. First(fl.out) = {items[i] : i \in 1..fl.out}
      BY <1>4, <3>1, FirstFacts
    <3>3. ToSet(snk.sub) \subseteq {items[i] : i \in 1..fl.out}
      BY <1>1, SubFacts
    <3> QED
      BY <1>5, <3>1, <3>2, <3>3
  <2> QED
    BY <1>1, <1>2, <1>8, <2>2, <2>3, CutFails
<1> QED
  BY <1>6, <1>7, <1>8 DEF ResubmitReturns

\* A collecting sink sends the request that makes its window visible.
LEMMA BecomesVisibleKeeps ==
  ASSUME IInv, BecomesVisible
  PROVE  IInv'
<1>0. TypeOK /\ WindowInv /\ CollectInv /\ ObserveInv /\ ExposeInv
  BY DEF IInv
<1>1. /\ wpc = "acking" /\ Collects /\ snk.owed = 0 /\ snk' = [snk EXCEPT !.visible = TRUE]
      /\ exposed' = exposed \cup ToSet(snk.sub)
      /\ UNCHANGED <<outside, storeVars, loopVars, countVars, landed, seen, faults>>
  BY DEF BecomesVisible, Collects
<1>2. /\ items \in Seq(Batch) /\ Len(items) \in Nat /\ fl.out \in Nat /\ fl.observed \in Nat
      /\ fl.out <= fl.observed /\ fl.out <= Len(items)
  BY <1>1, LoopFacts
<1>3. Gap = 0 /\ ~OnSendPath
  BY <1>1 DEF Gap, OnSendPath
<1>4. ToSet(snk.sub) = {items[i] : i \in 1..fl.out} /\ ToSet(snk.sub) \subseteq ToSet(items)
  BY <1>1, <1>3, SubFacts
<1>5. /\ snk' \in SinkType /\ snk'.sub = snk.sub /\ snk'.full = snk.full /\ snk'.owed = snk.owed
      /\ snk'.visible
  <2>1. snk \in SinkType
    BY <1>0 DEF TypeOK, SinkType
  <2> QED
    BY <1>1, <2>1 DEF SinkType
<1>6. /\ items' = items /\ reserved' = reserved /\ closed' = closed /\ conf' = conf /\ fl' = fl
      /\ fast' = fast /\ owedArm' = owedArm /\ resubmit' = resubmit /\ wpc' = wpc
      /\ landed' = landed /\ seen' = seen
  BY <1>1 DEF storeVars, outside, loopVars
<1>7. QuietStep
  BY <1>1, <1>5, <1>6 DEF QuietStep
<1>8. Gap' = 0 /\ ~OnSendPath'
  BY <1>1, <1>6 DEF Gap, OnSendPath
<1>9. WindowInv'
  BY <1>0, <1>1, <1>3, <1>5, <1>6, <1>8 DEF WindowInv
<1>10. CollectInv'
  BY <1>0, <1>1, <1>5, <1>6 DEF CollectInv, Collects
<1>11. ExposeInv'
  BY <1>1, <1>4, <1>6 DEF ExposeInv
<1>12. ObserveInv'
  <2>1. ObservedCount' = ObservedCount /\ ObservedCount = fl.observed
    BY <1>3, <1>6, <1>8 DEF ObservedCount
  <2>2. ASSUME NEW i \in 1..fl.out PROVE seen[items[i]] = 1
    <3>1. i \in 1..Len(items) /\ i <= ObservedCount
      BY <1>2, <2>1
    <3> QED
      BY <1>0, <1>1, <3>1 DEF ObserveInv
  <2>3. \A b \in exposed' : b \in exposed \/ seen[b] = 1
    BY <1>1, <1>4, <2>2
  <2> QED
    BY <1>1, <1>6, <1>7, <2>1, <2>3, QuietObserves
<1>13. LoopTyped'
  <2>1. LoopTyped
    BY <1>0, TypeFrame
  <2>2. exposed' \in SUBSET Batch
    <3>1. ToSet(snk.sub) \subseteq Batch
      BY <1>0, <1>4, ContentsFacts
    <3> QED
      BY <1>1, <2>1, <3>1 DEF LoopTyped
  <2>3. UNCHANGED <<countVars, faults>>
    BY <1>1
  <2> QED
    BY <1>5, <1>6, <2>1, <2>2, <2>3 DEF LoopTyped, countVars
<1> QED
  BY <1>1, <1>7, <1>9, <1>10, <1>11, <1>12, <1>13, QuietKeeps

\* The grace cuts a delivery: what it drops covers all that was out and the call.
LEMMA GraceCutKeeps ==
  ASSUME IInv, GraceCut
  PROVE  IInv'
<1>0. TypeOK /\ WindowInv /\ CollectInv /\ ObserveInv /\ ExposeInv
  BY DEF IInv
<1> DEFINE n == LeftTheProcess
           bs == ToSet(snk.sub) \cup InCall
<1>1. /\ wpc \in {"sending", "backoff", "resubmitting", "submitting", "waiting", "acking"}
      /\ ~owedArm /\ GiveUp(n, bs) /\ UNCHANGED outside
  BY DEF GraceCut, Awaiting
<1>2. /\ items \in Seq(Batch) /\ Len(items) \in Nat /\ fl.out \in Nat /\ fl.observed \in Nat
      /\ fl.out <= fl.observed /\ fl.observed <= reserved /\ reserved <= Len(items) /\ reserved \in Nat
      /\ snk.owed \in Nat
  BY <1>1, LoopFacts
<1>3. snk.owed = 0
  BY <1>0, <1>1, <1>2 DEF CollectInv
<1>4. reserved > 0
  BY <1>0, <1>1 DEF WindowInv
<1>5. 1 \in 1..Len(items) /\ HeadItem = items[1]
  BY <1>1, <1>4, HeadFacts
<1>6. n \in 0..Len(items) /\ bs \subseteq {items[i] : i \in 1..n} /\
      (~Collects \/ snk.visible => \A i \in 1..n : items[i] \in exposed)
  <2>0. ToSet(snk.sub) \subseteq {items[i] : i \in 1..fl.out}
    BY <1>1, SubFacts
  <2>1. CASE wpc = "sending"
    <3>1. fast /\ fl.out = 0
      BY <1>0, <2>1 DEF WindowInv, OnSendPath
    <3>2. n = 1 /\ bs = ToSet(snk.sub) \cup {items[1]}
      BY <1>5, <2>1, <3>1 DEF LeftTheProcess, InCall
    <3>3. {items[i] : i \in 1..fl.out} = {} /\ {items[i] : i \in 1..1} = {items[1]}
      BY <3>1
    <3>4. items[1] \in exposed
      BY <1>0, <2>1 DEF ExposeInv
    <3> HIDE DEF n, bs
    <3>5. n \in 0..Len(items) /\ 1..n = {1}
      BY <1>2, <1>5, <3>2
    <3>6. bs \subseteq {items[i] : i \in 1..n}
      BY <2>0, <3>2, <3>3
    <3> QED
      BY <3>4, <3>5, <3>6
  <2>2. CASE wpc = "submitting"
    <3>1. ~fast /\ fl.out < fl.observed /\ ~snk.visible
      BY <2>2, InCallFacts
    <3>2. n = fl.out + 1 /\ bs = ToSet(snk.sub) \cup {items[fl.out + 1]}
      BY <2>2, <3>1 DEF LeftTheProcess, InCall
    <3> HIDE DEF n, bs
    <3>3. \A i \in 1..n : i \in 1..fl.out \/ i = fl.out + 1
      BY <1>2, <3>2
    <3>4. 1..fl.out \subseteq 1..n /\ fl.out + 1 \in 1..n /\ n \in 0..Len(items)
      BY <1>2, <3>1, <3>2
    <3>5. ~Collects => \A i \in 1..n : items[i] \in exposed
      BY <1>0, <2>2, <3>3 DEF ExposeInv
    <3> QED
      BY <2>0, <3>1, <3>2, <3>4, <3>5
  <2>3. CASE wpc = "backoff" /\ fast
    <3>1. fl.out = 0
      BY <1>0, <2>3 DEF WindowInv, OnSendPath
    <3>2. n = 0 /\ bs = ToSet(snk.sub)
      BY <2>3 DEF LeftTheProcess, InCall
    <3> HIDE DEF n, bs
    <3> QED
      BY <1>2, <2>0, <3>1, <3>2
  <2>4. CASE wpc \notin {"sending", "submitting"} /\ ~fast
    <3>1. n = fl.out
      BY <1>2, <2>4 DEF LeftTheProcess
    <3>2. bs \subseteq ToSet(snk.sub) \cup (IF wpc = "resubmitting" THEN {items[1]} ELSE {})
      BY <1>1, <1>5, <2>4 DEF InCall
    <3>3. wpc = "resubmitting" => 1 \in 1..fl.out
      <4>1. wpc = "resubmitting" => fl.out > 0
        BY <1>0 DEF WindowInv
      <4> QED
        BY <1>2, <4>1
    <3>4. ~Collects \/ snk.visible => \A i \in 1..fl.out : items[i] \in exposed
      BY <1>0, <1>1 DEF ExposeInv
    <3> HIDE DEF n, bs
    <3>5. n \in 0..Len(items)
      BY <1>2, <3>1
    <3>6. bs \subseteq {items[i] : i \in 1..fl.out}
      BY <2>0, <3>2, <3>3
    <3> QED
      BY <3>1, <3>4, <3>5, <3>6
  <2>5. wpc # "sending" /\ wpc # "backoff" => ~fast
    BY <1>0, <1>1 DEF WindowInv
  <2> QED
    BY <1>1, <2>1, <2>2, <2>3, <2>4, <2>5
<1> HIDE DEF n, bs
<1>7. First(n) = {items[i] : i \in 1..n}
  BY <1>2, <1>6, FirstFacts
<1>8. bs \in SUBSET First(n) /\ (~Collects \/ snk.visible => First(n) \subseteq exposed)
  BY <1>6, <1>7
<1> QED
  BY <1>1, <1>3, <1>6, <1>8, GiveUpKeeps

-----------------------------------------------------------------------------
(* The invariant holds, and what it says of the sink node. *)

\* A node starts with nothing anywhere.
LEMMA InitKeeps == Init => IInv
<1> SUFFICES ASSUME Init PROVE IInv
  OBVIOUS
<1> USE SinkAssumption
<1>1. /\ conf \in [kind : Kinds, posture : Postures, policy : Policies, sink : Sinks]
      /\ next = 1 /\ permit = FALSE /\ hungUp = FALSE /\ inbox = <<>>
      /\ dpc = "recv" /\ inHand = <<>> /\ items = <<>> /\ reserved = 0 /\ closed = FALSE
      /\ wpc = "peek" /\ fast = FALSE /\ owedArm = FALSE /\ resubmit = FALSE
      /\ fl = [out |-> 0, observed |-> 0, collecting |-> FALSE, closed |-> FALSE]
      /\ grace = "none" /\ rpc = "run" /\ abandoned = {}
      /\ received = {} /\ delivered = <<>> /\ strayed = {}
      /\ dropped = [r \in Reasons |-> {}]
      /\ landed = [b \in Batch |-> 0] /\ seen = [b \in Batch |-> 0]
      /\ exposed = {} /\ faults = 0
  BY DEF Init
<1>2. snk \in [win : Windows, sub : {<<>>}, full : {FALSE}, visible : {FALSE}, owed : {0}]
  BY DEF Init
<1>3. <<>> \in Seq(Batch)
  OBVIOUS
<1>4. /\ snk \in SinkType /\ snk.sub = <<>> /\ snk.full = FALSE /\ snk.visible = FALSE /\ snk.owed = 0
  <2>1. /\ snk.win \in Windows /\ snk.sub = <<>> /\ snk.full = FALSE /\ snk.visible = FALSE /\ snk.owed = 0
    BY <1>2
  <2>2. snk.win \in Nat
    BY <2>1, WindowsFacts
  <2>3. snk.sub \in Seq(Batch)
    BY <1>3, <2>1
  <2>4. snk.full \in BOOLEAN /\ snk.visible \in BOOLEAN
    BY <1>2
  <2>7. snk.owed \in Nat
    BY <2>1
  <2>5. snk = [win |-> snk.win, sub |-> snk.sub, full |-> snk.full, visible |-> snk.visible, owed |-> snk.owed]
    BY <1>2
  <2>6. snk \in SinkType
    BY <2>2, <2>3, <2>4, <2>5, <2>7 DEF SinkType
  <2> QED
    BY <2>1, <2>6
<1>5. fl \in WindowType /\ fl.out = 0 /\ fl.observed = 0 /\ ~fl.collecting /\ ~fl.closed
  BY <1>1 DEF WindowType
<1>6. dropped \in [Reasons -> SUBSET Batch] /\ landed \in [Batch -> Nat] /\ seen \in [Batch -> Nat]
      /\ next \in 1..(NBatches + 1)
  BY <1>1
<1>7. TypeOK
  <2>1. /\ inbox \in Seq(Batch) /\ inHand \in Seq(Batch) /\ items \in Seq(Batch) /\ delivered \in Seq(Batch)
        /\ reserved \in Nat /\ faults \in Nat /\ abandoned \in SUBSET Batch /\ received \in SUBSET Batch
        /\ strayed \in SUBSET Batch /\ exposed \in SUBSET Batch
    BY <1>1, <1>3
  <2>2. /\ permit \in BOOLEAN /\ hungUp \in BOOLEAN /\ closed \in BOOLEAN /\ fast \in BOOLEAN
        /\ owedArm \in BOOLEAN /\ resubmit \in BOOLEAN
        /\ conf \in [kind : Kinds, posture : Postures, policy : Policies, sink : Sinks]
        /\ dpc \in {"recv", "push", "done"} /\ wpc = "peek" /\ grace = "none" /\ rpc = "run"
    BY <1>1
  <2> QED
    BY <1>4, <1>5, <1>6, <2>1, <2>2 DEF TypeOK, SinkType, WindowType
<1>8. HandOver
  BY <1>1 DEF HandOver
<1>9. ToSet(inbox) = {} /\ ToSet(inHand) = {} /\ ToSet(items) = {} /\ ToSet(delivered) = {}
  BY <1>1 DEF ToSet
<1>10. Len(items) = 0 /\ Len(inbox) = 0 /\ Len(delivered) = 0 /\ 1..0 = {}
  BY <1>1
<1>11. InOrder
  BY <1>9, <1>10 DEF InOrder, Ascending, Precedes
<1>12. AllDropped = {}
  BY <1>1 DEF AllDropped
<1>13. OnePlace
  <2>1. 1..(next - 1) = {}
    BY <1>1
  <2>2. \A r \in Reasons : dropped[r] = {}
    BY <1>1
  <2>3. Within = {}
    BY <1>9 DEF Within
  <2> QED
    BY <1>1, <1>9, <1>12, <2>1, <2>2, <2>3 DEF OnePlace
<1>14. Gap = 0 /\ ~OnSendPath
  BY <1>1 DEF Gap, OnSendPath
<1>15. WindowInv
  BY <1>1, <1>4, <1>5, <1>10, <1>14 DEF WindowInv
<1>16. CollectInv
  BY <1>1, <1>4, <1>5 DEF CollectInv
<1>17. ObserveInv
  BY <1>1, <1>10 DEF ObserveInv
<1>18. ExposeInv
  BY <1>1, <1>5 DEF ExposeInv
<1>19. LandInv
  BY <1>1, <1>4 DEF LandInv, Answered
<1>20. DiskKeepsAtShutdown
  <2>1. dropped["shutdown"] = {}
    BY <1>1 DEF Reasons
  <2> QED
    BY <2>1 DEF DiskKeepsAtShutdown
<1> QED
  BY <1>7, <1>8, <1>11, <1>13, <1>15, <1>16, <1>17, <1>18, <1>19, <1>20 DEF IInv

\* Every step of run_output, drain_inbox, write_loop, the sink and upstream keeps the
\* inductive invariant, whatever the store, the posture, the policy and the sink.
THEOREM Inductive == IInv /\ [Next]_vars => IInv'
<1> SUFFICES ASSUME IInv, [Next]_vars PROVE IInv'
  OBVIOUS
<1>1. CASE UNCHANGED vars
  <2>1. UNCHANGED <<conf, upVars, inbox, drainVars, storeVars, loopVars, snk, grace, rpc, abandoned,
                    countVars, ghostVars, faults>>
    BY <1>1 DEF vars
  <2>2. TypeOK'
    BY <2>1 DEF IInv, TypeOK, upVars, drainVars, storeVars, loopVars, countVars, ghostVars
  <2>3. HandOver'
    BY <2>1 DEF IInv, HandOver, Memory, upVars, drainVars, storeVars, loopVars, countVars
  <2>4. FeedsInOrder
    BY <2>1, SinkAssumption DEF IInv, TypeOK, FeedsInOrder, upVars, drainVars
  <2>5. UNCHANGED <<conf, items, reserved, loopVars, snk, ghostVars, delivered, dropped>>
        /\ UNCHANGED <<items, delivered, dropped, ledgerVars>>
    BY <2>1 DEF upVars, drainVars, storeVars, countVars, ledgerVars
  <2> QED
    BY <2>2, <2>3, <2>4, <2>5, Assemble, PlacesFrame, InnerFrame
<1>2. CASE Upstream
  BY <1>2, UpstreamKeeps
<1>3. CASE DrainStep
  BY <1>3, DrainKeeps
<1>4. CASE LoopStep
  BY <1>4, PeekHeadKeeps, PeekClosedKeeps, AttemptKeeps, BackoffOverKeeps, RoundKeeps, FillKeeps,
     WindowWaitEndsKeeps DEF LoopStep
<1>5. CASE SinkStep
  BY <1>5, SendReturnsKeeps, ResubmitReturnsKeeps, SubmitReturnsKeeps, BecomesVisibleKeeps,
     AckDeliversKeeps, AckFailsKeeps DEF SinkStep
<1>6. CASE Signal
  BY <1>6, ClockKeeps
<1>7. CASE GraceStep
  BY <1>7, ClockKeeps, PeekExpiredKeeps, GraceCutKeeps DEF GraceStep
<1>8. CASE StopStep
  BY <1>8, StopKeeps
<1> QED
  BY <1>1, <1>2, <1>3, <1>4, <1>5, <1>6, <1>7, <1>8 DEF Next

\* The invariant holds in every reachable state of the sink node.
THEOREM InvariantHolds == Spec => []IInv
BY InitKeeps, Inductive, PTL DEF Spec

\* Every variable of the sink node keeps its type.
THEOREM TypeCorrect == Spec => []TypeOK
<1>1. IInv => TypeOK
  BY DEF IInv
<1> QED
  BY <1>1, InvariantHolds, PTL

\* observe_batch is called once per batch, before its first send or submit, however
\* often the batch is retried, resubmitted or moved from one path to the other.
THEOREM ObservesOnce == Spec => []ObservedOnce
<1>1. IInv => ObservedOnce
  BY DEF IInv, ObserveInv, ObservedOnce
<1> QED
  BY <1>1, InvariantHolds, PTL

\* A disk store gives up nothing at shutdown but, under at-most-once, what may have
\* reached the destination.
THEOREM DiskKeeps == Spec => []DiskKeepsAtShutdown
<1>1. IInv => DiskKeepsAtShutdown
  BY DEF IInv
<1> QED
  BY <1>1, InvariantHolds, PTL

\* At-most-once holds through ambiguous answers, windows cut with their connection
\* and a grace that ends in the middle of a call: no batch is applied twice, and a
\* stopped node keeps none that was applied.
THEOREM AtMostOnceHolds == Spec => []NeverTwice
<1>1. ASSUME IInv PROVE NeverTwice
  <2> SUFFICES ASSUME AtMostOnce, NEW b \in Batch
               PROVE  landed[b] <= 1 /\ (rpc = "done" /\ b \in ToSet(items) => landed[b] = 0)
    BY DEF NeverTwice
  <2>1. landed[b] <= 1
    BY <1>1 DEF IInv, LandInv
  <2>2. ASSUME rpc = "done", b \in ToSet(items) PROVE landed[b] = 0
    <3>1. wpc = "gone" /\ snk.owed \in Nat
      BY <1>1, <2>2 DEF IInv, HandOver, TypeOK
    <3>2. snk.owed = 0
      BY <1>1, <3>1 DEF IInv, CollectInv
    <3> QED
      BY <1>1, <2>2, <3>2, NotYetLanded
  <2> QED
    BY <2>1, <2>2
<1> QED
  BY <1>1, InvariantHolds, PTL

\* What the sink has outstanding is the store's first items, in order, but for a head
\* that waits for its own resubmit: an answer always settles the batch it is for.
THEOREM SinkHoldsPrefix == Spec => []WindowIsPrefix
<1>1. ASSUME IInv PROVE WindowIsPrefix
  <2> SUFFICES ASSUME wpc # "gone"
               PROVE  /\ fl.out <= fl.observed /\ fl.out <= reserved /\ reserved <= Len(items)
                      /\ \/ snk.sub = SubSeq(items, 1, fl.out)
                         \/ fl.out > 0 /\ resubmit /\ snk.sub = SubSeq(items, 2, fl.out)
    BY DEF WindowIsPrefix
  <2>1. /\ items \in Seq(Batch) /\ snk.sub \in Seq(Batch) /\ Len(items) \in Nat /\ reserved \in Nat
        /\ fl.out \in Nat /\ fl.observed \in Nat
        /\ fl.out <= fl.observed /\ fl.observed <= reserved /\ reserved <= Len(items)
        /\ fl.out <= Len(items) /\ Gap \in {0, 1} /\ Len(snk.sub) = fl.out - Gap
        /\ \A i \in 1..(fl.out - Gap) : snk.sub[i] = items[i + Gap]
    BY <1>1, LoopFacts
  <2>2. ASSUME NEW g \in {0, 1}, Gap = g, g = 1 => fl.out > 0
        PROVE  snk.sub = SubSeq(items, g + 1, fl.out)
    <3> DEFINE t == SubSeq(items, g + 1, fl.out)
    <3>1. t \in Seq(Batch) /\ Len(t) = fl.out - g /\ \A i \in 1..(fl.out - g) : t[i] = items[g + i]
      <4>1. \A i \in (g + 1)..fl.out : items[i] \in Batch
        BY <2>1
      <4> QED
        BY <2>1, <2>2, <4>1
    <3> HIDE DEF t
    <3>2. ASSUME NEW i \in 1..Len(snk.sub) PROVE snk.sub[i] = t[i]
      <4>1. i \in 1..(fl.out - g) /\ i + g = g + i
        BY <2>1, <2>2
      <4> QED
        BY <2>1, <2>2, <3>1, <4>1
    <3>3. Len(snk.sub) = Len(t)
      BY <2>1, <2>2, <3>1
    <3>4. snk.sub = t
      BY <2>1, <3>1, <3>2, <3>3, SeqEqual
    <3> QED
      BY <3>4 DEF t
  <2>3. CASE Gap = 0
    BY <2>1, <2>2, <2>3
  <2>4. CASE Gap = 1
    <3>1. fl.out > 0 /\ resubmit
      BY <2>4 DEF Gap
    <3> QED
      BY <2>1, <2>2, <2>4, <3>1
  <2> QED
    BY <2>1, <2>3, <2>4
<1> QED
  BY <1>1, InvariantHolds, PTL

\* Every batch received is in exactly one place, through overflow, retries, the cut of
\* a window and the sweep of a stopped node, and a node that stopped has left no batch
\* that upstream handed over uncounted but the one a permit still carried.
THEOREM AccountsForEveryBatch == Spec => []EveryBatchAccounted
<1>1. ASSUME IInv PROVE EveryBatchAccounted
  <2> DEFINE first == inHand \o items
             all == first \o delivered
  <2>1. /\ inHand \in Seq(Batch) /\ items \in Seq(Batch) /\ delivered \in Seq(Batch)
        /\ ToSet(items) \in SUBSET Int /\ ToSet(inHand) \in SUBSET Int /\ ToSet(delivered) \in SUBSET Int
    BY <1>1, ContentsFacts DEF IInv
  <2>2. first \in Seq(Batch) /\ ToSet(first) = ToSet(inHand) \cup ToSet(items)
    BY <2>1, ConcatSet
  <2> HIDE DEF first
  <2>3. ToSet(all) = ToSet(first) \cup ToSet(delivered)
    BY <2>1, <2>2, ConcatSet
  <2>4. ToSet(all) = Within
    BY <2>2, <2>3 DEF Within
  <2>5. IsInjective(items) /\ IsInjective(delivered)
    BY <1>1, <2>1, BatchFacts, AscendingInjective DEF IInv, InOrder
  <2>6. IsInjective(inHand)
    <3>1. Len(inHand) <= 1 /\ Len(inHand) \in Nat
      BY <1>1, <2>1 DEF IInv, HandOver
    <3>2. DOMAIN inHand = 1..Len(inHand)
      BY <2>1
    <3> QED
      BY <3>1, <3>2 DEF IsInjective
  <2>7. /\ Precedes(ToSet(items), ToSet(inHand)) /\ Precedes(ToSet(delivered), ToSet(inHand))
        /\ Precedes(ToSet(delivered), ToSet(items))
    BY <1>1 DEF IInv, InOrder, Precedes
  <2>8. /\ ToSet(items) \cap ToSet(inHand) = {} /\ ToSet(delivered) \cap ToSet(inHand) = {}
        /\ ToSet(delivered) \cap ToSet(items) = {}
    BY <2>1, <2>7, PrecedesApart
  <2>9. IsInjective(first)
    BY <2>1, <2>5, <2>6, <2>8, ConcatInjective DEF first
  <2>10. ToSet(first) \cap ToSet(delivered) = {}
    BY <2>2, <2>8
  <2>11. IsInjective(all)
    BY <2>1, <2>2, <2>5, <2>9, <2>10, ConcatInjective
  <2> HIDE DEF all
  <2>12. /\ received = ToSet(all) \cup abandoned \cup AllDropped
         /\ ToSet(all) \cap (abandoned \cup AllDropped) = {} /\ abandoned \cap AllDropped = {}
         /\ \A r, q \in Reasons : r # q => dropped[r] \cap dropped[q] = {}
    BY <1>1, <2>4 DEF IInv, OnePlace
  <2>13. ASSUME rpc = "done"
         PROVE  /\ inHand = <<>> /\ abandoned = {} /\ (Memory => items = <<>>)
                /\ inbox = <<>> /\ received \cup strayed = 1..(next - 1)
                /\ \A b, c \in strayed : b = c
    <3>1. /\ inHand = <<>> /\ abandoned = {} /\ (Memory => items = <<>>) /\ inbox = <<>>
          /\ \A b, c \in strayed : b = c
      BY <1>1, <2>13 DEF IInv, HandOver
    <3>2. ToSet(inbox) = {}
      BY <3>1 DEF ToSet
    <3>3. received \cup strayed = 1..(next - 1)
      BY <1>1, <3>2 DEF IInv, OnePlace
    <3> QED
      BY <3>1, <3>3
  <2> QED
    BY <2>11, <2>12, <2>13 DEF EveryBatchAccounted, AllDropped, all, first
<1> QED
  BY <1>1, InvariantHolds, PTL

-----------------------------------------------------------------------------
(* The sink node implements SinkContract. *)

\* A step that the contract does not see.
Unseen ==
  UNCHANGED <<conf, received, delivered, dropped, landed>> /\ (rpc' = "done") = (rpc = "done")

\* What is counted and applied in one step: the counts only grow, the store's head is
\* delivered after it was applied, and only queued batches are applied, under
\* at-most-once for the first time.
CountsGrow ==
  /\ conf' = conf /\ received \subseteq received'
  /\ \A r \in Reasons : dropped[r] \subseteq dropped'[r]
HeadOrNone ==
  \/ delivered' = delivered
  \/ items # <<>> /\ delivered' = Append(delivered, HeadItem) /\ landed'[HeadItem] > 0
AppliesQueued ==
  \A b \in Batch :
    \/ landed'[b] = landed[b]
    \/ landed'[b] = landed[b] + 1 /\ b \in ToSet(items) /\ (AtMostOnce => landed[b] = 0)
Seen == CountsGrow /\ HeadOrNone /\ AppliesQueued

\* A step the contract does not see is a stuttering step of it.
LEMMA UnseenStutters ==
  ASSUME Unseen
  PROVE  UNCHANGED Contract!cvars
<1>1. AtMostOnce' = AtMostOnce /\ (~Memory)' = ~Memory /\ landed' = landed
      /\ (rpc = "done")' = (rpc = "done")
  BY DEF Unseen, AtMostOnce, Memory
<1>2. \A b \in Batch : StatusOf(b)' = StatusOf(b)
  BY DEF Unseen, StatusOf
<1>3. [b \in Batch |-> StatusOf(b)]' = [b \in Batch |-> StatusOf(b)]
  BY <1>2
<1> QED
  BY <1>1, <1>3 DEF Contract!cvars

\* A batch has one status.
LEMMA StatusFacts ==
  ASSUME NEW b \in Batch
  PROVE  /\ StatusOf(b) \in {"delivered", "dropped", "held", "upstream"}
         /\ StatusOf(b) = "delivered" <=> b \in ToSet(delivered)
         /\ StatusOf(b) = "dropped" <=> b \notin ToSet(delivered) /\ b \in AllDropped
         /\ StatusOf(b) = "held" <=> b \notin ToSet(delivered) /\ b \notin AllDropped /\ b \in received
         /\ StatusOf(b) = "upstream" <=> b \notin ToSet(delivered) /\ b \notin AllDropped /\ b \notin received
<1>1. b \in AllDropped <=> \E r \in Reasons : b \in dropped[r]
  BY DEF AllDropped
<1> QED
  BY <1>1 DEF StatusOf

\* The same of the state a step leads to.
LEMMA StatusFactsNext ==
  ASSUME NEW b \in Batch
  PROVE  /\ StatusOf(b)' \in {"delivered", "dropped", "held", "upstream"}
         /\ StatusOf(b)' = "delivered" <=> b \in ToSet(delivered')
         /\ StatusOf(b)' = "dropped" <=> b \notin ToSet(delivered') /\ b \in AllDropped'
         /\ StatusOf(b)' = "held" <=> b \notin ToSet(delivered') /\ b \notin AllDropped' /\ b \in received'
         /\ StatusOf(b)' = "upstream" <=>
              b \notin ToSet(delivered') /\ b \notin AllDropped' /\ b \notin received'
<1>1. b \in AllDropped' <=> \E r \in Reasons : b \in dropped'[r]
  BY DEF AllDropped
<1> QED
  BY <1>1 DEF StatusOf

\* A batch in the store is held, and above everything delivered.
LEMMA QueuedIsHeld ==
  ASSUME IInv, NEW b \in ToSet(items)
  PROVE  /\ b \in Batch /\ b \in received /\ b \notin ToSet(delivered) /\ b \notin AllDropped
         /\ StatusOf(b) = "held"
         /\ \A c \in ToSet(delivered) : c < b
<1>1. ToSet(items) \subseteq Batch /\ ToSet(items) \in SUBSET Int /\ ToSet(delivered) \in SUBSET Int
  BY ContentsFacts DEF IInv
<1>2. Precedes(ToSet(delivered), ToSet(items))
  BY DEF IInv, InOrder, Precedes
<1>3. ToSet(delivered) \cap ToSet(items) = {}
  BY <1>1, <1>2, PrecedesApart
<1>4. b \in received /\ b \notin AllDropped
  BY DEF IInv, OnePlace, Within
<1> QED
  BY <1>1, <1>2, <1>3, <1>4, StatusFacts DEF Precedes

\* A stopped node leaves open only what a disk store keeps for the next run.
LEMMA StoppedLeavesNothing ==
  ASSUME IInv, rpc = "done", NEW b \in Batch, StatusOf(b) = "held"
  PROVE  ~Memory /\ (AtMostOnce => landed[b] = 0)
<1>1. inHand = <<>> /\ abandoned = {} /\ (Memory => items = <<>>) /\ wpc = "gone"
  BY DEF IInv, HandOver
<1>2. ToSet(inHand) = {} /\ (Memory => ToSet(items) = {})
  BY <1>1 DEF ToSet
<1>3. b \in ToSet(items)
  BY <1>1, <1>2, StatusFacts DEF IInv, OnePlace, Within
<1>4. snk.owed \in Nat
  BY DEF IInv, TypeOK
<1>5. snk.owed = 0
  BY <1>1, <1>4 DEF IInv, CollectInv
<1> QED
  BY <1>2, <1>3, <1>5, NotYetLanded

\* What the contract asks of the state a node stops in.
NothingOpen ==
  rpc = "done" => \A b \in Batch : StatusOf(b) = "held" => ~Memory /\ (AtMostOnce => landed[b] = 0)

\* A stopped node's unsettled batches are those a disk store may send again.
LEMMA LeavesNothing == IInv => NothingOpen
BY StoppedLeavesNothing DEF NothingOpen

\* The same of the state a step leads to.
LEMMA LeavesNothingNext == IInv' => NothingOpen'
BY LeavesNothing, PTL

\* What is delivered in a step is the store's head.
LEMMA DeliveredNext ==
  ASSUME IInv, HeadOrNone
  PROVE  /\ ToSet(delivered) \subseteq ToSet(delivered')
         /\ \A b \in ToSet(delivered') \ ToSet(delivered) :
              items # <<>> /\ b = HeadItem /\ landed'[b] > 0 /\ b \in ToSet(items)
<1>1. delivered \in Seq(Batch) /\ items \in Seq(Batch)
  BY DEF IInv, TypeOK
<1>2. CASE delivered' = delivered
  BY <1>2
<1>3. CASE items # <<>> /\ delivered' = Append(delivered, HeadItem) /\ landed'[HeadItem] > 0
  <2>1. Len(items) \in Nat /\ Len(items) > 0
    BY <1>1, <1>3
  <2>2. HeadItem \in Batch /\ HeadItem \in ToSet(items)
    BY <1>1, <2>1, ToSetByIndex DEF HeadItem
  <2>3. ToSet(delivered') = ToSet(delivered) \cup {HeadItem}
    BY <1>1, <1>3, <2>2, AppendFacts
  <2> QED
    BY <1>3, <2>2, <2>3
<1> QED
  BY <1>2, <1>3 DEF HeadOrNone

\* A step that only does what Seen allows is a step of the contract.
LEMMA SeenIsContractStep ==
  ASSUME IInv, IInv', Seen, rpc # "done"
  PROVE  Contract!CNext
<1>1. /\ ToSet(delivered) \subseteq ToSet(delivered') /\ received \subseteq received'
      /\ \A b \in ToSet(delivered') \ ToSet(delivered) :
           b = HeadItem /\ landed'[b] > 0 /\ b \in ToSet(items)
  BY DeliveredNext DEF Seen, CountsGrow
<1>2. AllDropped \subseteq AllDropped'
  BY DEF Seen, CountsGrow, AllDropped
<1>3. AtMostOnce' = AtMostOnce /\ (~Memory)' = ~Memory
  BY DEF Seen, CountsGrow, AtMostOnce, Memory
<1>4. \A b \in ToSet(items) : StatusOf(b) = "held" /\ b \in Batch /\ \A c \in ToSet(delivered) : c < b
  BY QueuedIsHeld
<1>5. ASSUME NEW b \in Batch, StatusOf(b)' # StatusOf(b)
      PROVE  <<StatusOf(b), StatusOf(b)'>> \in Contract!Moves
  <2>1. CASE StatusOf(b) = "delivered"
    <3>1. StatusOf(b)' = "delivered"
      BY <1>1, <2>1, StatusFacts, StatusFactsNext
    <3> QED
      BY <1>5, <2>1, <3>1
  <2>2. CASE StatusOf(b) = "dropped"
    <3>1. b \notin ToSet(delivered) /\ b \in AllDropped'
      BY <1>2, <2>2, StatusFacts
    <3>2. b \notin ToSet(delivered')
      BY <1>1, <1>4, <2>2, <3>1
    <3>3. StatusOf(b)' = "dropped"
      BY <3>1, <3>2, StatusFactsNext
    <3> QED
      BY <1>5, <2>2, <3>3
  <2>3. CASE StatusOf(b) = "held"
    <3>1. b \in received'
      BY <1>1, <2>3, StatusFacts
    <3>2. StatusOf(b)' \in {"delivered", "dropped"}
      BY <1>5, <2>3, <3>1, StatusFactsNext
    <3> QED
      BY <2>3, <3>2 DEF Contract!Moves
  <2>4. CASE StatusOf(b) = "upstream"
    <3>1. b \notin ToSet(delivered)
      BY <2>4, StatusFacts
    <3>2. b \notin ToSet(delivered')
      BY <1>1, <1>4, <2>4, <3>1
    <3>3. StatusOf(b)' \in {"held", "dropped"}
      BY <1>5, <2>4, <3>2, StatusFactsNext
    <3> QED
      BY <2>4, <3>3 DEF Contract!Moves
  <2> QED
    BY <2>1, <2>2, <2>3, <2>4, StatusFacts
<1>6. Contract!MovesAllowed
  BY <1>5 DEF Contract!MovesAllowed
<1>7. ASSUME NEW b \in Batch, StatusOf(b) # "delivered", StatusOf(b)' = "delivered"
      PROVE  /\ b = HeadItem /\ landed'[b] > 0
             /\ \A c \in Batch : StatusOf(c) = "delivered" => c < b
  <2>1. b \in ToSet(delivered') \ ToSet(delivered)
    BY <1>7, StatusFacts, StatusFactsNext
  <2>2. b = HeadItem /\ landed'[b] > 0 /\ b \in ToSet(items)
    BY <1>1, <2>1
  <2>3. \A c \in Batch : StatusOf(c) = "delivered" => c \in ToSet(delivered)
    BY StatusFacts
  <2> QED
    BY <1>4, <2>2, <2>3
<1>8. Contract!DeliversInOrder
  <2> DEFINE fresh == {b \in Batch : StatusOf(b) # "delivered" /\ StatusOf(b)' = "delivered"}
  <2>1. \A b \in fresh : /\ b = HeadItem /\ landed'[b] > 0
                         /\ \A c \in Batch : StatusOf(c) = "delivered" => c < b
    BY <1>7
  <2>2. \A b \in fresh : fresh = {b}
    BY <2>1
  <2>3. Contract!NewlyDelivered = fresh
    BY DEF Contract!NewlyDelivered
  <2> HIDE DEF fresh
  <2>4. ASSUME NEW b \in fresh
        PROVE  \A c \in Batch : [d \in Batch |-> StatusOf(d)][c] = "delivered" => c < b
    BY <2>1
  <2> QED
    BY <2>1, <2>2, <2>3, <2>4 DEF Contract!DeliversInOrder
<1>9. Contract!AppliesHeld
  <2> SUFFICES ASSUME NEW b \in Batch
               PROVE  \/ landed'[b] = landed[b]
                      \/ /\ landed'[b] = landed[b] + 1 /\ StatusOf(b) = "held"
                         /\ AtMostOnce => landed[b] = 0
    BY DEF Contract!AppliesHeld
  <2> QED
    BY <1>4 DEF Seen, AppliesQueued
<1>10. (rpc = "done")' = FALSE \/ ((rpc = "done")' = TRUE /\ Contract!LeavesNothingOpen)
  <2>1. CASE rpc' = "done"
    <3>1. \A b \in Batch : StatusOf(b)' = "held" => (~Memory)' /\ (AtMostOnce' => landed'[b] = 0)
      BY <2>1, LeavesNothingNext DEF NothingOpen
    <3>2. Contract!LeavesNothingOpen
      BY <1>3, <3>1 DEF Contract!LeavesNothingOpen
    <3> QED
      BY <2>1, <3>2
  <2> QED
    BY <2>1
<1> QED
  BY <1>3, <1>6, <1>8, <1>9, <1>10 DEF Contract!CNext

\* A drop only adds to the counts.
LEMMA DropGrows ==
  ASSUME dropped \in [Reasons -> SUBSET Batch], NEW r \in Reasons, NEW bs, Drop(r, bs)
  PROVE  \A q \in Reasons : dropped[q] \subseteq dropped'[q]
BY DEF Drop

\* A push only adds to the drops.
LEMMA PushGrows ==
  ASSUME dropped \in [Reasons -> SUBSET Batch], NEW b, StorePush(b)
  PROVE  \A q \in Reasons : dropped[q] \subseteq dropped'[q]
<1>1. PICK r \in Reasons : \E bs : Drop(r, bs)
  BY DEF StorePush, Reasons
<1>2. PICK bs : Drop(r, bs)
  BY <1>1
<1> QED
  BY <1>2, DropGrows

\* What the destination applies of the store, when no answer is owed.
LEMMA LandsQueued ==
  ASSUME IInv, snk.owed = 0, NEW applied \in SUBSET ToSet(items), Land(applied)
  PROVE  AppliesQueued
<1>1. landed \in [Batch -> Nat]
  BY DEF IInv, TypeOK
<1>2. \A b \in Batch : landed'[b] = IF b \in applied THEN landed[b] + 1 ELSE landed[b]
  BY <1>1, LandEffect
<1>3. \A b \in applied : b \in ToSet(items) /\ (AtMostOnce => landed[b] = 0)
  BY NotYetLanded
<1> QED
  BY <1>2, <1>3 DEF AppliesQueued

\* A step that applies and delivers nothing.
LEMMA CountsOnly ==
  ASSUME CountsGrow, delivered' = delivered, landed' = landed
  PROVE  Seen
BY DEF Seen, HeadOrNone, AppliesQueued

\* write_loop returns at the grace.
LEMMA GiveUpSeen ==
  ASSUME IInv, wpc # "gone", snk.owed = 0, NEW n, NEW bs \in SUBSET ToSet(items),
         GiveUp(n, bs), UNCHANGED outside
  PROVE  Seen /\ rpc # "done"
<1>1. /\ Drop("shutdown", First(DropsCutOff(n))) /\ received' = received /\ delivered' = delivered
      /\ conf' = conf
  BY DEF GiveUp, outside
<1>2. PICK applied \in SUBSET AtRisk(bs) : Land(applied)
  BY DEF GiveUp
<1>3. applied \in SUBSET ToSet(items)
  BY DEF AtRisk
<1>4. AppliesQueued
  BY <1>2, <1>3, LandsQueued
<1>5. dropped \in [Reasons -> SUBSET Batch] /\ "shutdown" \in Reasons
  BY DEF IInv, TypeOK, Reasons
<1>6. CountsGrow
  BY <1>1, <1>5, DropGrows DEF CountsGrow
<1>7. rpc # "done"
  BY DEF IInv, HandOver
<1> QED
  BY <1>1, <1>4, <1>6, <1>7 DEF Seen, HeadOrNone

\* A failed call of the sink.
LEMMA FailedSeen ==
  ASSUME IInv, wpc # "gone", snk.owed = 0, NEW f \in Faults, NEW headOnly, NEW atFault, NEW w,
         NEW bs \in SUBSET ToSet(items), Failed(f, headOnly, atFault, w), LandsUnder(f, bs),
         UNCHANGED outside
  PROVE  Seen /\ rpc # "done"
<1>1. received' = received /\ delivered' = delivered /\ conf' = conf
  BY DEF Failed, outside
<1>2. PICK applied \in SUBSET bs : Land(applied)
  BY DEF LandsUnder
<1>3. AppliesQueued
  <2>1. applied \in SUBSET ToSet(items)
    OBVIOUS
  <2> QED
    BY <1>2, <2>1, LandsQueued
<1>4. dropped \in [Reasons -> SUBSET Batch] /\ DropReason(f) \in Reasons
  BY DEF IInv, TypeOK, Reasons, DropReason
<1>5. \A q \in Reasons : dropped[q] \subseteq dropped'[q]
  <2>1. dropped' = dropped \/ \E bs2 : Drop(DropReason(f), bs2)
    BY DEF Failed
  <2>2. CASE dropped' = dropped
    BY <2>2
  <2>3. ASSUME NEW bs2, Drop(DropReason(f), bs2) PROVE \A q \in Reasons : dropped[q] \subseteq dropped'[q]
    BY <1>4, <2>3, DropGrows
  <2> QED
    BY <2>1, <2>2, <2>3
<1>6. rpc # "done"
  BY DEF IInv, HandOver
<1> QED
  BY <1>1, <1>3, <1>5, <1>6 DEF Seen, CountsGrow, HeadOrNone

\* The head is delivered, and it was applied now or in the window its answer was owed for.
LEMMA DeliveredSeen ==
  ASSUME IInv, wpc # "gone", items # <<>>, HeadDelivered, UNCHANGED outside, landed'[HeadItem] > 0,
         AppliesQueued
  PROVE  Seen /\ rpc # "done"
<1>1. received' = received /\ dropped' = dropped /\ delivered' = Append(delivered, HeadItem) /\ conf' = conf
  BY DEF HeadDelivered, outside
<1>2. rpc # "done"
  BY DEF IInv, HandOver
<1> QED
  BY <1>1, <1>2 DEF Seen, CountsGrow, HeadOrNone

\* Upstream and the clock are not seen.
LEMMA UpstreamUnseen ==
  ASSUME IInv, Upstream \/ Signal \/ Anchor \/ DeadlinePasses
  PROVE  Unseen
<1>1. CASE Reserve
  BY <1>1 DEF Reserve, Unseen, countVars, ghostVars
<1>2. CASE Send
  BY <1>2 DEF Send, Unseen, ghostVars
<1>3. CASE HangUp
  BY <1>3 DEF HangUp, Unseen, countVars, ghostVars
<1>4. CASE Signal
  BY <1>4 DEF Signal, Unseen, countVars, ghostVars
<1>5. CASE Anchor
  BY <1>5 DEF Anchor, Unseen, countVars, ghostVars
<1>6. CASE DeadlinePasses
  BY <1>6 DEF DeadlinePasses, Unseen, countVars, ghostVars
<1> QED
  BY <1>1, <1>2, <1>3, <1>4, <1>5, <1>6 DEF Upstream

\* drain_inbox receives batches and drops some.
LEMMA DrainSeen ==
  ASSUME IInv, DrainStep
  PROVE  Unseen \/ (Seen /\ rpc # "done")
<1>1. dropped \in [Reasons -> SUBSET Batch]
  BY DEF IInv, TypeOK
<1>2. CASE DrainRecv
  BY <1>2, CountsOnly DEF DrainRecv, CountsGrow, ghostVars
<1>3. CASE DrainPush
  <2>1. \A q \in Reasons : dropped[q] \subseteq dropped'[q]
    BY <1>1, <1>3, PushGrows DEF DrainPush
  <2>2. conf' = conf /\ received' = received /\ delivered' = delivered /\ landed' = landed /\ rpc # "done"
    BY <1>3 DEF DrainPush, ghostVars
  <2> QED
    BY <2>1, <2>2, CountsOnly DEF CountsGrow
<1>4. CASE DrainDone
  BY <1>4 DEF DrainDone, Unseen, countVars, ghostVars
<1> QED
  BY <1>2, <1>3, <1>4 DEF DrainStep

\* run_output's shutdown receives and drops, and applies nothing.
LEMMA StopSeen ==
  ASSUME IInv, StopStep
  PROVE  Unseen \/ (Seen /\ rpc # "done")
<1>1. dropped \in [Reasons -> SUBSET Batch] /\ "shutdown" \in Reasons
  BY DEF IInv, TypeOK, Reasons
<1>2. CASE StopDrain
  BY <1>2 DEF StopDrain, Unseen, countVars, ghostVars
<1>3. ASSUME NEW b, Sweep(b) PROVE \A q \in Reasons : dropped[q] \subseteq dropped'[q]
  <2>1. CASE Memory
    BY <1>3, <2>1 DEF Sweep
  <2>2. CASE ~Memory
    BY <1>1, <1>3, <2>2, PushGrows DEF Sweep
  <2> QED
    BY <2>1, <2>2
<1>4. CASE SweepParked
  <2>1. \A q \in Reasons : dropped[q] \subseteq dropped'[q]
    <3>1. CASE inHand # <<>>
      BY <1>3, <1>4, <3>1 DEF SweepParked
    <3>2. CASE inHand = <<>>
      BY <1>4, <3>2 DEF SweepParked
    <3> QED
      BY <3>1, <3>2
  <2>2. conf' = conf /\ received' = received /\ delivered' = delivered /\ landed' = landed /\ rpc # "done"
    BY <1>4 DEF SweepParked, ghostVars
  <2> QED
    BY <2>1, <2>2, CountsOnly DEF CountsGrow
<1>5. CASE SweepRecv
  <2>1. \A q \in Reasons : dropped[q] \subseteq dropped'[q]
    BY <1>3, <1>5 DEF SweepRecv
  <2>2. /\ conf' = conf /\ received \subseteq received' /\ delivered' = delivered /\ landed' = landed
        /\ rpc # "done"
    BY <1>5 DEF SweepRecv, ghostVars
  <2> QED
    BY <2>1, <2>2, CountsOnly DEF CountsGrow
<1>6. CASE SweepEnds
  <2>1. \A q \in Reasons : dropped[q] \subseteq dropped'[q]
    BY <1>1, <1>6, DropGrows DEF SweepEnds
  <2>2. conf' = conf /\ received' = received /\ delivered' = delivered /\ landed' = landed /\ rpc # "done"
    BY <1>6 DEF SweepEnds, ghostVars
  <2> QED
    BY <2>1, <2>2, CountsOnly DEF CountsGrow
<1>7. CASE Finish
  <2>1. \A q \in Reasons : dropped[q] \subseteq dropped'[q]
    <3>1. CASE Memory
      BY <1>1, <1>7, <3>1, DropGrows DEF Finish
    <3>2. CASE ~Memory
      BY <1>7, <3>2 DEF Finish
    <3> QED
      BY <3>1, <3>2
  <2>2. conf' = conf /\ received' = received /\ delivered' = delivered /\ landed' = landed /\ rpc # "done"
    BY <1>7 DEF Finish, ghostVars
  <2> QED
    BY <2>1, <2>2, CountsOnly DEF CountsGrow
<1> QED
  BY <1>2, <1>4, <1>5, <1>6, <1>7 DEF StopStep

\* write_loop's own steps: nothing is seen of them but a grace that is over.
LEMMA LoopSeen ==
  ASSUME IInv, LoopStep
  PROVE  Unseen \/ (Seen /\ rpc # "done")
<1>1. CASE PeekHead
  BY <1>1 DEF PeekHead, Unseen, outside, countVars
<1>2. CASE PeekClosed
  BY <1>2 DEF PeekClosed, Unseen, outside, countVars, ghostVars
<1>3. CASE Attempt
  <2>1. CASE grace = "expired" /\ GiveUp(fl.out, {}) /\ UNCHANGED outside
    <3>1. wpc = "attempt" /\ snk.owed \in Nat
      BY <1>3 DEF Attempt, IInv, TypeOK
    <3>2. snk.owed = 0
      BY <3>1 DEF IInv, CollectInv
    <3>3. {} \in SUBSET ToSet(items) /\ wpc # "gone"
      BY <3>1
    <3> QED
      BY <2>1, <3>2, <3>3, GiveUpSeen
  <2>2. CASE UNCHANGED <<outside, countVars, landed>>
    BY <2>2 DEF Unseen, outside, countVars
  <2> QED
    BY <1>3, <2>1, <2>2 DEF Attempt
<1>4. CASE BackoffOver
  BY <1>4 DEF BackoffOver, Unseen, outside, countVars, ghostVars
<1>5. CASE Round
  <2>1. CASE grace = "expired" /\ ~OwedRound /\ GiveUp(fl.out, ToSet(snk.sub)) /\ UNCHANGED outside
    <3>1. wpc # "gone" /\ snk.owed \in Nat
      BY <1>5 DEF Round, IInv, TypeOK
    <3>2. snk.owed = 0
      BY <2>1, <3>1, OwedFacts
    <3>3. ToSet(snk.sub) \in SUBSET ToSet(items)
      BY <3>1, SubFacts
    <3> QED
      BY <2>1, <3>1, <3>2, <3>3, GiveUpSeen
  <2>2. CASE UNCHANGED <<outside, countVars, landed>>
    BY <2>2 DEF Unseen, outside, countVars
  <2> QED
    BY <1>5, <2>1, <2>2 DEF Round
<1>6. CASE Fill
  <2>1. UNCHANGED <<outside, countVars, landed>>
    BY <1>6 DEF Fill, BeginSubmit, ghostVars
  <2> QED
    BY <2>1 DEF Unseen, outside, countVars
<1>7. CASE WindowWaitEnds
  <2>1. UNCHANGED <<outside, countVars, landed>>
    BY <1>7 DEF WindowWaitEnds, BeginSubmit, ghostVars
  <2> QED
    BY <2>1 DEF Unseen, outside, countVars
<1> QED
  BY <1>1, <1>2, <1>3, <1>4, <1>5, <1>6, <1>7 DEF LoopStep

\* The grace ends an idle loop or cuts a delivery.
LEMMA GraceSeen ==
  ASSUME IInv, PeekExpired \/ GraceCut
  PROVE  Seen /\ rpc # "done"
<1>1. CASE PeekExpired
  <2>1. wpc # "gone" /\ ~OwedRound /\ GiveUp(fl.out, ToSet(snk.sub)) /\ UNCHANGED outside /\ snk.owed \in Nat
    BY <1>1 DEF PeekExpired, IInv, TypeOK
  <2>2. snk.owed = 0
    BY <2>1, OwedFacts
  <2>3. ToSet(snk.sub) \in SUBSET ToSet(items)
    BY <2>1, SubFacts
  <2> QED
    BY <2>1, <2>2, <2>3, GiveUpSeen
<1>2. CASE GraceCut
  <2>1. /\ wpc \in {"sending", "backoff", "resubmitting", "submitting", "waiting", "acking"}
        /\ ~owedArm /\ GiveUp(LeftTheProcess, ToSet(snk.sub) \cup InCall) /\ UNCHANGED outside
    BY <1>2 DEF GraceCut, Awaiting
  <2>2. snk.owed \in Nat /\ reserved > 0 /\ wpc # "gone"
    BY <2>1 DEF IInv, TypeOK, WindowInv
  <2>3. snk.owed = 0
    BY <2>1, <2>2 DEF IInv, CollectInv
  <2>4. ToSet(snk.sub) \subseteq ToSet(items)
    BY <2>2, SubFacts
  <2>5. InCall \subseteq ToSet(items)
    <3>1. HeadItem \in ToSet(items)
      BY <2>2, HeadFacts
    <3>2. wpc = "submitting" => items[fl.out + 1] \in ToSet(items)
      <4>1. /\ items \in Seq(Batch) /\ Len(items) \in Nat /\ fl.out \in Nat /\ fl.observed \in Nat
            /\ fl.observed <= reserved /\ reserved <= Len(items) /\ reserved \in Nat
        BY <2>2, LoopFacts
      <4>2. wpc = "submitting" => fl.out + 1 \in 1..Len(items)
        BY <4>1, InCallFacts
      <4> QED
        BY <4>1, <4>2, ToSetByIndex
    <3> QED
      BY <3>1, <3>2 DEF InCall
  <2>6. ToSet(snk.sub) \cup InCall \in SUBSET ToSet(items)
    BY <2>4, <2>5
  <2> QED
    BY <2>1, <2>2, <2>3, <2>6, GiveUpSeen
<1> QED
  BY <1>1, <1>2

\* An acknowledgment commits the batch it is for, which was applied by then.
LEMMA AckSeen ==
  ASSUME IInv, AckDelivers
  PROVE  Seen /\ rpc # "done"
<1> DEFINE bs == CASE conf.sink # "collecting" -> {Head(snk.sub)}
                   [] conf.sink = "collecting" /\ snk.owed = 0 -> ToSet(snk.sub)
                   [] OTHER -> {}
<1>0. TypeOK /\ WindowInv /\ CollectInv /\ LandInv
  BY DEF IInv
<1>1. wpc = "acking" /\ wpc # "gone" /\ snk.sub # <<>> /\ HeadDelivered /\ Land(bs) /\ UNCHANGED outside
  BY DEF AckDelivers
<1>2. /\ items \in Seq(Batch) /\ Len(items) \in Nat /\ fl.out \in Nat /\ fl.out <= Len(items)
      /\ snk.sub \in Seq(Batch) /\ Len(snk.sub) \in Nat /\ snk.owed \in Nat
      /\ landed \in [Batch -> Nat]
  BY <1>0, <1>1, LoopFacts DEF TypeOK
<1>3. Gap = 0 /\ fl.out > 0 /\ reserved > 0
  BY <1>0, <1>1 DEF WindowInv, Gap
<1>4. Head(snk.sub) = HeadItem /\ HeadItem \in Batch /\ Head(snk.sub) \in ToSet(snk.sub)
  <2>1. Len(snk.sub) = fl.out - 0 /\ \A i \in 1..(fl.out - 0) : snk.sub[i] = items[i + 0]
    BY <1>1, <1>3, LoopFacts
  <2>2. snk.sub[1] = items[1] /\ 1 \in 1..Len(snk.sub)
    BY <1>2, <1>3, <2>1
  <2>3. Head(snk.sub) = snk.sub[1] /\ snk.sub[1] \in ToSet(snk.sub)
    BY <1>1, <1>2, <2>2, TailFacts, ToSetByIndex
  <2> QED
    BY <1>1, <1>3, <2>2, <2>3, HeadFacts
<1>5. ToSet(snk.sub) \in SUBSET ToSet(items) /\ {Head(snk.sub)} \in SUBSET ToSet(items)
  BY <1>1, <1>4, SubFacts
<1>6. items # <<>>
  BY <1>2, <1>3
<1>7. /\ snk.owed = 0 => bs \in SUBSET ToSet(items) /\ Head(snk.sub) \in bs
      /\ snk.owed > 0 => bs = {}
  <2>1. snk.owed > 0 => conf.sink = "collecting"
    BY <1>0 DEF CollectInv, Collects
  <2>2. CASE conf.sink # "collecting"
    <3>1. bs = {Head(snk.sub)}
      BY <2>2
    <3> HIDE DEF bs
    <3> QED
      BY <1>5, <2>1, <2>2, <3>1
  <2>3. CASE conf.sink = "collecting" /\ snk.owed = 0
    <3>1. bs = ToSet(snk.sub)
      BY <2>3
    <3> HIDE DEF bs
    <3> QED
      BY <1>4, <1>5, <2>3, <3>1
  <2>4. CASE conf.sink = "collecting" /\ snk.owed # 0
    <3>1. bs = {}
      BY <2>4
    <3> HIDE DEF bs
    <3> QED
      BY <1>2, <2>4, <3>1
  <2> QED
    BY <2>2, <2>3, <2>4
<1> HIDE DEF bs
<1>8. \A b \in Batch : landed'[b] = IF b \in bs THEN landed[b] + 1 ELSE landed[b]
  BY <1>1, <1>2, LandEffect
<1>9. CASE snk.owed = 0
  <2>1. AppliesQueued
    BY <1>1, <1>7, <1>9, LandsQueued
  <2>2. landed'[HeadItem] = landed[HeadItem] + 1 /\ landed[HeadItem] \in Nat
    BY <1>2, <1>4, <1>7, <1>8, <1>9
  <2>3. landed'[HeadItem] > 0
    BY <2>2
  <2> QED
    BY <1>1, <1>6, <2>1, <2>3, DeliveredSeen
<1>10. CASE snk.owed > 0
  <2>1. \A b \in Batch : landed'[b] = landed[b]
    BY <1>7, <1>8, <1>10
  <2>2. landed[HeadItem] > 0
    BY <1>0, <1>4, <1>10 DEF LandInv, Answered
  <2>3. landed'[HeadItem] > 0 /\ AppliesQueued
    BY <1>4, <2>1, <2>2 DEF AppliesQueued
  <2> QED
    BY <1>1, <1>6, <2>3, DeliveredSeen
<1> QED
  BY <1>2, <1>9, <1>10

\* The sink's answers.
LEMMA SinkSeen ==
  ASSUME IInv, SinkStep
  PROVE  Unseen \/ (Seen /\ rpc # "done")
<1>0. landed \in [Batch -> Nat]
  BY DEF IInv, TypeOK
<1>1. CASE SendReturns
  <2>1. wpc = "sending" /\ wpc # "gone" /\ UNCHANGED outside
    BY <1>1 DEF SendReturns
  <2>2. snk.owed = 0 /\ reserved > 0
    BY <2>1, InCallFacts
  <2>3. {HeadItem} \in SUBSET ToSet(items) /\ HeadItem \in Batch
    BY <2>1, <2>2, HeadFacts
  <2>4. CASE HeadDelivered /\ Land({HeadItem})
    <3>1. AppliesQueued
      BY <2>2, <2>3, <2>4, LandsQueued
    <3>2. landed'[HeadItem] = landed[HeadItem] + 1 /\ landed[HeadItem] \in Nat
      BY <1>0, <2>3, <2>4, LandEffect
    <3>3. landed'[HeadItem] > 0
      BY <3>2
    <3>4. items # <<>>
      BY <2>1, <2>2, HeadFacts
    <3> QED
      BY <2>1, <2>4, <3>1, <3>3, <3>4, DeliveredSeen
  <2>5. ASSUME NEW f \in Faults, Failed(f, FALSE, 0, fl), LandsUnder(f, {HeadItem})
        PROVE  Seen /\ rpc # "done"
    BY <2>1, <2>2, <2>3, <2>5, FailedSeen
  <2> QED
    BY <1>1, <2>4, <2>5 DEF SendReturns
<1>2. CASE ResubmitReturns
  <2>1. wpc = "resubmitting" /\ wpc # "gone" /\ UNCHANGED outside
    BY <1>2 DEF ResubmitReturns
  <2>2. snk.owed = 0 /\ reserved > 0
    BY <2>1, InCallFacts
  <2>3. {HeadItem} \in SUBSET ToSet(items) /\ {HeadItem} \cup ToSet(snk.sub) \in SUBSET ToSet(items)
    BY <2>1, <2>2, HeadFacts, SubFacts
  <2>4. CASE UNCHANGED <<countVars, landed>>
    BY <2>1, <2>4 DEF Unseen, outside, countVars
  <2>5. ASSUME NEW f \in Faults, Failed(f, TRUE, 1, fl), LandsUnder(f, {HeadItem})
        PROVE  Seen /\ rpc # "done"
    BY <2>1, <2>2, <2>3, <2>5, FailedSeen
  <2>6. ASSUME NEW f \in Faults, Failed(f, FALSE, fl.out, Cut(fl)),
               LandsUnder(f, {HeadItem} \cup ToSet(snk.sub))
        PROVE  Seen /\ rpc # "done"
    BY <2>1, <2>2, <2>3, <2>6, FailedSeen
  <2> QED
    BY <1>2, <2>4, <2>5, <2>6 DEF ResubmitReturns
<1>3. CASE SubmitReturns
  <2>1. wpc = "submitting" /\ wpc # "gone" /\ UNCHANGED outside
    BY <1>3 DEF SubmitReturns
  <2>2. snk.owed = 0 /\ reserved > 0
    BY <2>1, InCallFacts
  <2>3. {HeadItem} \in SUBSET ToSet(items)
    BY <2>1, <2>2, HeadFacts
  <2>4. CASE UNCHANGED <<countVars, landed>>
    BY <2>1, <2>4 DEF Unseen, outside, countVars
  <2>5. ASSUME NEW f \in Faults, NEW headOnly \in BOOLEAN,
               Failed(f, headOnly, 1, [fl EXCEPT !.collecting = FALSE]), LandsUnder(f, {HeadItem})
        PROVE  Seen /\ rpc # "done"
    BY <2>1, <2>2, <2>3, <2>5, FailedSeen
  <2> QED
    BY <1>3, <2>4, <2>5 DEF SubmitReturns
<1>4. CASE BecomesVisible
  BY <1>4 DEF BecomesVisible, Unseen, outside, countVars
<1>5. CASE AckDelivers
  BY <1>5, AckSeen
<1>6. CASE AckFails
  <2>1. wpc = "acking" /\ wpc # "gone" /\ snk.owed = 0 /\ UNCHANGED outside
    BY <1>6 DEF AckFails
  <2>2. reserved > 0
    BY <2>1 DEF IInv, WindowInv
  <2>3. {HeadItem} \in SUBSET ToSet(items) /\ ToSet(snk.sub) \in SUBSET ToSet(items)
    BY <2>1, <2>2, HeadFacts, SubFacts
  <2>4. ASSUME NEW f \in Faults, Failed(f, FALSE, fl.out, Cut(fl)), LandsUnder(f, ToSet(snk.sub))
        PROVE  Seen /\ rpc # "done"
    BY <2>1, <2>3, <2>4, FailedSeen
  <2>5. ASSUME NEW f \in Faults, Failed(f, TRUE, 1, fl), LandsUnder(f, {HeadItem})
        PROVE  Seen /\ rpc # "done"
    BY <2>1, <2>3, <2>5, FailedSeen
  <2> QED
    BY <1>6, <2>4, <2>5 DEF AckFails
<1> QED
  BY <1>1, <1>2, <1>3, <1>4, <1>5, <1>6 DEF SinkStep

\* Every step of the sink node is a step of its contract, or one it does not see.
LEMMA StepImplements ==
  IInv /\ IInv' /\ [Next]_vars => [Contract!CNext]_(Contract!cvars)
<1> SUFFICES ASSUME IInv, IInv', [Next]_vars
             PROVE  Contract!CNext \/ UNCHANGED Contract!cvars
  OBVIOUS
<1>1. Unseen \/ (Seen /\ rpc # "done")
  <2>1. CASE UNCHANGED vars
    BY <2>1 DEF vars, Unseen, countVars, ghostVars
  <2>2. CASE Upstream \/ Signal
    BY <2>2, UpstreamUnseen
  <2>3. CASE DrainStep
    BY <2>3, DrainSeen
  <2>4. CASE LoopStep
    BY <2>4, LoopSeen
  <2>5. CASE SinkStep
    BY <2>5, SinkSeen
  <2>6. CASE GraceStep
    BY <2>6, UpstreamUnseen, GraceSeen DEF GraceStep
  <2>7. CASE StopStep
    BY <2>7, StopSeen
  <2> QED
    BY <2>1, <2>2, <2>3, <2>4, <2>5, <2>6, <2>7 DEF Next
<1> QED
  BY <1>1, UnseenStutters, SeenIsContractStep

\* The sink node implements its contract: whatever the queue, the window, the retries
\* and the moment of the shutdown, a settled batch stays settled, a delivered one was
\* applied and leaves in order, at-most-once applies nothing twice, and a stopped node
\* leaves nothing open but what a disk store keeps.
THEOREM ImplementsContract == Spec => KeepsContract
<1>1. Init => Contract!CInit
  <2> SUFFICES ASSUME Init PROVE Contract!CInit
    OBVIOUS
  <2>1. /\ received = {} /\ delivered = <<>> /\ dropped = [r \in Reasons |-> {}]
        /\ landed = [b \in Batch |-> 0] /\ rpc = "run"
    BY DEF Init
  <2>2. ToSet(delivered) = {}
    BY <2>1 DEF ToSet
  <2>3. \A b \in Batch : StatusOf(b) = "upstream"
    BY <2>1, <2>2 DEF StatusOf
  <2>4. AtMostOnce \in BOOLEAN /\ (~Memory) \in BOOLEAN /\ (rpc = "done") = FALSE
    BY <2>1 DEF AtMostOnce, Memory
  <2>5. [b \in Batch |-> StatusOf(b)] = [b \in Batch |-> "upstream"]
    BY <2>3
  <2> QED
    BY <2>1, <2>4, <2>5 DEF Contract!CInit
<1> QED
  BY <1>1, StepImplements, InvariantHolds, PTL DEF Spec, KeepsContract, Contract!CSpec
=============================================================================
