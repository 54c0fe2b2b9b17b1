--------------------------- MODULE LuaNodeProofs ---------------------------
(***************************************************************************)
(* Proofs about LuaNode, for any number of batches and beats and any stall  *)
(* and grace.  The inductive invariant IInv says where a batch can be, who  *)
(* owns the inbox at each point of the thread and of the watcher, and what  *)
(* the heartbeat shows a watcher that holds the lock.                       *)
(***************************************************************************)
EXTENDS LuaNode, SequenceFacts

\* The places in run_lua_loop, and the ones in run_lua's tail.
InLoop == {"top", "recv", "process", "flush", "send", "sending", "check", "close_check"}
InTail == {"exit", "take", "sweep", "report", "ended"}

\* The thread has taken what was left of the LuaIo, if anything was.
PastTake == {"sweep", "report", "ended"}

Outcomes == {"running", "ok", "failed", "panicked"}

ThreadType ==
  t \in [pc : InLoop \cup InTail, batch : 0..MaxBatches, held : 0..MaxBatches,
         dests : 0..MaxBatches, why : {"batch", "top", "close"}, outcome : Outcomes]

HeartType ==
  /\ hb \in Seq(BOOLEAN) /\ hb # <<>>
  /\ extra \in 0..MaxExtra
  /\ synced \in 1..Len(hb)

MemType == mem \in [over : BOOLEAN, deferred : BOOLEAN, open : BOOLEAN]

WatcherType ==
  w \in [pc : {"wait", "trylock", "reread", "sweep", "returned"}, quiet : Nat,
         sig : Nat \cup {NoSignal}, stalled : BOOLEAN, revoked : BOOLEAN]

EdgeType ==
  /\ up \in [next : 1..(MaxBatches + 1), permit : BOOLEAN, hung : BOOLEAN]
  /\ inbox \in [q : Seq(Batches), state : {"open", "closed", "gone"}]

FateType == fate \in [Batches -> Seq({"counted", "lost"})]

RestType ==
  /\ conf \in [interval : BOOLEAN, capped : BOOLEAN]
  /\ io \in {"there", "taken"}
  /\ lock \in {"nobody", "thread", "watcher"}
  /\ done \in {"none", "ok", "failed", "panicked"}

TypeOK ==
  /\ ThreadType /\ HeartType /\ MemType /\ WatcherType
  /\ EdgeType /\ FateType /\ RestType

\* A permit stands for a batch that is there to be sent, and keeps its sender.
PermitInv == up.permit => up.next <= MaxBatches /\ ~up.hung

\* Batches are queued in the order they were sent, each once.
OrderInv == Ascending(inbox.q)

Queued(b) == \E i \in 1..Len(inbox.q) : inbox.q[i] = b
Hands == {t.batch, t.dests, t.held} \ {0}
InHand(b) == b \in Hands
IsSettled(b) == fate[b] # <<>>

\* A batch that was handed over is queued, in the thread's hands or settled, and
\* no two of these.
PlaceInv ==
  \A b \in Batches :
    /\ b < up.next <=> IsSettled(b) \/ Queued(b) \/ InHand(b)
    /\ IsSettled(b) => ~Queued(b) /\ ~InHand(b)
    /\ Queued(b) => ~InHand(b)

OnceInv == \A b \in Batches : Len(fate[b]) <= 1

\* What the thread holds at each place: a panic in process() leaves held, which
\* run_lua's tail counts.
HandInv ==
  /\ t.outcome = "running" <=> t.pc \in InLoop
  /\ t.pc = "process" => t.batch # 0
  /\ t.batch # 0 => t.pc = "process" /\ t.held = t.batch /\ t.dests = 0
  /\ t.dests # 0 => t.pc \in {"send", "sending"} /\ t.held = 0
  /\ t.held # 0 => t.pc = "process" \/ (t.pc \in {"exit", "take"} /\ t.outcome = "panicked")

\* The thread found its inbox closed and empty, so it may drop it unswept.
Closing ==
  \/ t.pc \in {"flush", "send", "sending", "check"} /\ t.why = "close"
  \/ t.pc = "close_check"
  \/ t.pc \in {"exit", "take"} /\ t.outcome = "ok" /\ io = "there"

CloseInv == Closing => up.hung /\ inbox.q = <<>>

\* Whoever took the LuaIo, and nobody else, closes and sweeps the inbox.
OwnerInv ==
  /\ io = "there" => inbox.state = "open" /\ ~w.revoked /\ t.pc \notin PastTake
  /\ io = "taken" => w.revoked \/ t.pc \in PastTake
  /\ w.revoked => w.pc \in {"sweep", "returned"} /\ t.pc # "sweep"
  /\ w.pc = "sweep" => w.revoked /\ inbox.state = "closed"
  /\ w.pc = "returned" => IF w.revoked THEN inbox.state = "gone" ELSE t.pc = "ended"
  /\ t.pc = "sweep" => inbox.state = "closed"
  /\ t.pc \in {"report", "ended"} /\ ~w.revoked => inbox.state = "gone"
  /\ inbox.state = "gone" => inbox.q = <<>>
  /\ done # "none" => t.pc = "ended"

\* A watcher on its way to revoke read a busy heartbeat, and a thread past its
\* take has left the heartbeat idle and published that with the lock: so the
\* reread under the lock sees progress, and such a thread is not revoked.
HeartInv ==
  /\ w.pc \in {"trylock", "reread"} => hb[1]
  /\ t.pc \in {"take"} \cup PastTake => ~hb[Len(hb)]
  /\ t.pc \in PastTake => synced = Len(hb)

IInv ==
  /\ TypeOK /\ PermitInv /\ OrderInv /\ PlaceInv /\ OnceInv
  /\ HandInv /\ CloseInv /\ OwnerInv /\ HeartInv

-----------------------------------------------------------------------------
(* What the pieces of an action do to the state. *)

\* A step of the thread from one place to another.
LEMMA Moves ==
  ASSUME ThreadType, NEW pc \in InLoop \cup InTail, Goto(pc)
  PROVE  /\ ThreadType' /\ t'.pc = pc /\ t'.why = t.why /\ t'.outcome = t.outcome
         /\ t'.batch = t.batch /\ t'.held = t.held /\ t'.dests = t.dests
BY DEF Goto, ThreadType

\* The loop ends.
LEMMA ExitsFacts ==
  ASSUME ThreadType, NEW o \in Outcomes, Exits(o)
  PROVE  /\ ThreadType' /\ t'.pc = "exit" /\ t'.why = t.why /\ t'.outcome = o
         /\ t'.batch = t.batch /\ t'.held = t.held /\ t'.dests = t.dests
BY DEF Exits, ThreadType, InTail

\* A new value of the heartbeat leaves the one the watcher read first.
LEMMA BeatFacts ==
  ASSUME HeartType, NEW x \in BOOLEAN, hb' = Append(hb, x)
  PROVE  /\ hb' \in Seq(BOOLEAN) /\ hb' # <<>> /\ Len(hb') = Len(hb) + 1
         /\ hb'[1] = hb[1] /\ hb'[Len(hb')] = x /\ synced \in 1..Len(hb') /\ Len(hb) \in 1..Len(hb')
<1>1. hb \in Seq(BOOLEAN) /\ Len(hb) \in Nat /\ Len(hb) >= 1 /\ synced \in 1..Len(hb)
  BY DEF HeartType
<1>2. /\ hb' \in Seq(BOOLEAN) /\ Len(hb') = Len(hb) + 1 /\ hb'[Len(hb) + 1] = x
      /\ \A i \in 1..Len(hb) : hb'[i] = hb[i]
  BY <1>1, AppendFacts
<1> QED
  BY <1>1, <1>2

\* leave() makes the newest value idle.
LEMMA LeftFacts ==
  ASSUME HeartType, hb' = Left
  PROVE  /\ hb' \in Seq(BOOLEAN) /\ hb' # <<>> /\ hb'[1] = hb[1] /\ ~hb'[Len(hb')]
         /\ synced \in 1..Len(hb')
<1>1. CASE Idle
  BY <1>1 DEF Left, Idle, HeartType
<1>2. CASE ~Idle
  <2>1. hb' = Append(hb, FALSE)
    BY <1>2 DEF Left
  <2> QED
    BY <2>1, BeatFacts
<1> QED
  BY <1>1, <1>2

\* The heartbeat grows by at most a value, and the thread may have unlocked.
LEMMA HeartGrows ==
  ASSUME HeartType, extra' \in 0..MaxExtra, NEW x \in BOOLEAN, hb' = hb \/ hb' = Append(hb, x),
         synced' = synced \/ synced' = Len(hb)
  PROVE  HeartType' /\ hb'[1] = hb[1]
<1>1. CASE hb' = hb
  BY <1>1 DEF HeartType
<1>2. CASE hb' = Append(hb, x)
  BY <1>2, BeatFacts DEF HeartType
<1> QED
  BY <1>1, <1>2

-----------------------------------------------------------------------------
(* Where the batches are. *)

\* A step that moves no batch.
LEMMA SamePlaces ==
  ASSUME PlaceInv, OnceInv, UNCHANGED <<up, inbox, fate>>, Hands' = Hands
  PROVE  PlaceInv' /\ OnceInv'
BY DEF PlaceInv, OnceInv, Queued, InHand, IsSettled

\* Batches that were nowhere settled before are settled by a step.
LEMMA SettledOnce ==
  ASSUME FateType, OnceInv, NEW S \in SUBSET Batches, NEW how \in {"counted", "lost"},
         Settled(S, how), \A b \in S : ~IsSettled(b)
  PROVE  /\ FateType' /\ OnceInv'
         /\ \A b \in Batches : IsSettled(b)' <=> IsSettled(b) \/ b \in S
<1> DEFINE F == Seq({"counted", "lost"})
<1>1. \A b \in Batches : fate[b] \in F /\ Len(fate[b]) <= 1
  BY DEF FateType, OnceInv
<1>2. ASSUME NEW b \in S
      PROVE  /\ fate'[b] \in F /\ Len(fate'[b]) <= 1 /\ fate'[b] # <<>>
  <2>1. fate[b] = <<>> /\ fate'[b] = Append(fate[b], how)
    BY <1>2 DEF IsSettled, Settled
  <2> QED
    BY <2>1
<1>3. ASSUME NEW b \in Batches, b \notin S
      PROVE  fate'[b] = fate[b]
  BY <1>3 DEF Settled
<1> HIDE DEF F
<1>4. ASSUME NEW b \in Batches PROVE fate'[b] \in F /\ Len(fate'[b]) <= 1
  <2>1. CASE b \in S
    BY <1>2, <2>1
  <2>2. CASE b \notin S
    BY <1>1, <1>3, <2>2
  <2> QED
    BY <2>1, <2>2
<1> USE DEF F
<1>5. FateType'
  BY <1>4 DEF FateType, Settled
<1>6. OnceInv'
  BY <1>4 DEF OnceInv
<1>7. \A b \in Batches : IsSettled(b)' <=> IsSettled(b) \/ b \in S
  BY <1>2, <1>3 DEF IsSettled
<1> QED
  BY <1>5, <1>6, <1>7

\* A batch in the thread's hands is settled.
LEMMA HandSettled ==
  ASSUME FateType, PlaceInv, OnceInv, UNCHANGED <<up.next, inbox.q>>,
         NEW S, S \subseteq Hands, S \subseteq Batches, Hands' = Hands \ S,
         NEW how \in {"counted", "lost"}, Settled(S, how)
  PROVE  FateType' /\ PlaceInv' /\ OnceInv'
<1>1. \A b \in S : ~IsSettled(b)
  BY DEF PlaceInv, InHand
<1>2. /\ FateType' /\ OnceInv'
      /\ \A b \in Batches : IsSettled(b)' <=> IsSettled(b) \/ b \in S
  BY <1>1, SettledOnce
<1>3. \A b \in Batches : (Queued(b)' <=> Queued(b)) /\ (InHand(b)' <=> InHand(b) /\ b \notin S)
  BY DEF Queued, InHand
<1>4. ASSUME NEW b \in Batches
      PROVE  /\ b < up'.next <=> IsSettled(b)' \/ Queued(b)' \/ InHand(b)'
             /\ IsSettled(b)' => ~Queued(b)' /\ ~InHand(b)'
             /\ Queued(b)' => ~InHand(b)'
  BY <1>2, <1>3 DEF PlaceInv, InHand
<1> QED
  BY <1>2, <1>4 DEF PlaceInv

\* What is in the inbox, by its members.
QueuedIsMember == \A b \in Batches : Queued(b) <=> b \in ToSet(inbox.q)

\* So it is, for an inbox that is a sequence.
LEMMA QueuedFacts == EdgeType => QueuedIsMember
<1> SUFFICES ASSUME EdgeType PROVE QueuedIsMember
  OBVIOUS
<1>1. inbox.q \in Seq(Batches)
  BY DEF EdgeType
<1> QED
  BY <1>1, ToSetByIndex DEF Queued, QueuedIsMember

\* The same of the state a step leads to.
LEMMA QueuedFactsNext == EdgeType' => QueuedIsMember'
BY QueuedFacts, PTL

\* The inbox without its oldest batch.
LEMMA InboxTail ==
  ASSUME EdgeType, OrderInv, inbox.q # <<>>
  PROVE  /\ Head(inbox.q) \in Batches /\ Tail(inbox.q) \in Seq(Batches) /\ Ascending(Tail(inbox.q))
         /\ Queued(Head(inbox.q))
         /\ \A b \in Batches : b \in ToSet(Tail(inbox.q)) <=> Queued(b) /\ b # Head(inbox.q)
<1>1. inbox.q \in Seq(Batches) /\ Batches \in SUBSET Int
  BY DEF EdgeType, Batches
<1>2. /\ Head(inbox.q) \in Batches /\ Tail(inbox.q) \in Seq(Batches)
      /\ ToSet(inbox.q) = {Head(inbox.q)} \cup ToSet(Tail(inbox.q))
  BY <1>1, TailFacts
<1>3. Ascending(Tail(inbox.q)) /\ Precedes({Head(inbox.q)}, ToSet(Tail(inbox.q)))
  BY <1>1, TailAscending DEF OrderInv
<1>4. Head(inbox.q) \notin ToSet(Tail(inbox.q))
  <2>1. ASSUME NEW x \in Int, Precedes({x}, ToSet(Tail(inbox.q))) PROVE x \notin ToSet(Tail(inbox.q))
    BY <2>1 DEF Precedes
  <2> QED
    BY <1>1, <1>2, <1>3, <2>1
<1> QED
  BY <1>2, <1>3, <1>4, QueuedFacts DEF QueuedIsMember

-----------------------------------------------------------------------------
(* The steps of the upstream edge. *)

\* Reserve keeps the invariant.
LEMMA ReserveKeeps ==
  ASSUME IInv, Reserve
  PROVE  IInv'
<1>0. /\ TypeOK /\ up.next \in 1..MaxBatches /\ ~up.hung /\ up.next \in Batches
      /\ UNCHANGED <<conf, inbox, io, lock, t, hb, extra, synced, mem, w, done>>
  BY LuaAssumption DEF IInv, TypeOK, EdgeType, Reserve, Batches
<1>1. UNCHANGED <<ThreadType, HeartType, MemType, WatcherType, RestType, OrderInv, HandInv, HeartInv, OwnerInv>>
  BY <1>0 DEF ThreadType, HeartType, MemType, WatcherType, RestType, OrderInv, HandInv, HeartInv, OwnerInv
<1>2. CASE inbox.state = "open"
  <2>1. /\ up'.next = up.next /\ ~up'.hung /\ UNCHANGED <<fate, Hands>> /\ EdgeType'
    BY <1>0, <1>2 DEF Reserve, TypeOK, EdgeType, Hands
  <2>2. PlaceInv' /\ OnceInv' /\ FateType'
    BY <1>0, <2>1 DEF IInv, PlaceInv, OnceInv, FateType, TypeOK, Queued, InHand, IsSettled
  <2>3. PermitInv' /\ CloseInv'
    BY <1>0, <2>1 DEF IInv, PermitInv, CloseInv, Closing
  <2> QED
    BY <1>0, <1>1, <2>1, <2>2, <2>3 DEF IInv, TypeOK
<1>3. CASE inbox.state # "open"
  <2>1. /\ up' = [up EXCEPT !.next = @ + 1] /\ Settled({up.next}, "counted")
    BY <1>3 DEF Reserve
  <2>2. up'.next = up.next + 1 /\ up'.permit = up.permit /\ up'.hung = up.hung /\ EdgeType'
    BY <1>0, <2>1, LuaAssumption DEF TypeOK, EdgeType
  <2>3. ~IsSettled(up.next) /\ ~Queued(up.next) /\ ~InHand(up.next)
    BY <1>0 DEF IInv, PlaceInv
  <2>4. /\ FateType' /\ OnceInv'
        /\ \A b \in Batches : IsSettled(b)' <=> IsSettled(b) \/ b \in {up.next}
    BY <1>0, <2>1, <2>3, SettledOnce DEF IInv, TypeOK
  <2>5. \A b \in Batches : (Queued(b)' <=> Queued(b)) /\ (InHand(b)' <=> InHand(b))
    BY <1>0 DEF Queued, InHand, Hands
  <2>6. ASSUME NEW b \in Batches
        PROVE  /\ b < up'.next <=> IsSettled(b)' \/ Queued(b)' \/ InHand(b)'
               /\ IsSettled(b)' => ~Queued(b)' /\ ~InHand(b)'
               /\ Queued(b)' => ~InHand(b)'
    <3>1. b < up'.next <=> b < up.next \/ b = up.next
      BY <1>0, <2>2 DEF Batches
    <3> QED
      BY <2>3, <2>4, <2>5, <3>1 DEF IInv, PlaceInv
  <2>7. PermitInv' /\ CloseInv'
    BY <1>0, <2>2 DEF IInv, PermitInv, CloseInv, Closing, Reserve
  <2> QED
    BY <1>0, <1>1, <2>2, <2>4, <2>6, <2>7 DEF IInv, TypeOK, PlaceInv
<1> QED
  BY <1>2, <1>3

\* SendPermit keeps the invariant.
LEMMA SendPermitKeeps ==
  ASSUME IInv, SendPermit
  PROVE  IInv'
<1>0. /\ TypeOK /\ up.next \in 1..MaxBatches /\ ~up.hung /\ up.next \in Batches
      /\ UNCHANGED <<conf, io, lock, t, hb, extra, synced, mem, w, done>>
      /\ up' = [up EXCEPT !.permit = FALSE, !.next = @ + 1]
  BY LuaAssumption DEF IInv, TypeOK, EdgeType, PermitInv, SendPermit, Batches
<1>1. UNCHANGED <<ThreadType, HeartType, MemType, WatcherType, RestType, HandInv, HeartInv>>
  BY <1>0 DEF ThreadType, HeartType, MemType, WatcherType, RestType, HandInv, HeartInv
<1>2. up'.next = up.next + 1 /\ ~up'.permit /\ up'.hung = up.hung
      /\ up' \in [next : 1..(MaxBatches + 1), permit : BOOLEAN, hung : BOOLEAN]
  <2>1. up \in [next : 1..(MaxBatches + 1), permit : BOOLEAN, hung : BOOLEAN]
    BY <1>0 DEF TypeOK, EdgeType
  <2>2. up.next + 1 \in 1..(MaxBatches + 1)
    BY <1>0, LuaAssumption
  <2> QED
    BY <1>0, <2>1, <2>2
<1>3. ~IsSettled(up.next) /\ ~Queued(up.next) /\ ~InHand(up.next)
  BY <1>0 DEF IInv, PlaceInv
<1>4. PermitInv' /\ CloseInv'
  BY <1>0, <1>2 DEF IInv, PermitInv, CloseInv, Closing
<1>5. \A b \in Batches : b < up'.next <=> b < up.next \/ b = up.next
  BY <1>0, <1>2 DEF Batches
<1>6. \A b \in Batches : InHand(b)' <=> InHand(b)
  BY <1>0 DEF InHand, Hands
<1>7. CASE inbox.state = "gone"
  <2>1. Settled({up.next}, "lost") /\ UNCHANGED inbox
    BY <1>7 DEF SendPermit
  <2>2. EdgeType' /\ OrderInv' /\ OwnerInv'
    BY <1>0, <1>2, <2>1 DEF IInv, TypeOK, EdgeType, OrderInv, OwnerInv
  <2>3. /\ FateType' /\ OnceInv'
        /\ \A b \in Batches : IsSettled(b)' <=> IsSettled(b) \/ b \in {up.next}
    BY <1>0, <1>3, <2>1, SettledOnce DEF IInv, TypeOK
  <2>4. \A b \in Batches : Queued(b)' <=> Queued(b)
    BY <2>1 DEF Queued
  <2>5. PlaceInv'
    BY <1>3, <1>5, <1>6, <2>3, <2>4 DEF IInv, PlaceInv
  <2> QED
    BY <1>0, <1>1, <1>4, <2>2, <2>3, <2>5 DEF IInv, TypeOK
<1>8. CASE inbox.state # "gone"
  <2>1. inbox' = [inbox EXCEPT !.q = Append(@, up.next)] /\ UNCHANGED fate
    BY <1>8 DEF SendPermit
  <2>2. inbox'.q = Append(inbox.q, up.next) /\ inbox'.state = inbox.state /\ inbox.q \in Seq(Batches)
    BY <1>0, <2>1 DEF TypeOK, EdgeType
  <2>3. /\ inbox'.q \in Seq(Batches) /\ ToSet(inbox'.q) = ToSet(inbox.q) \cup {up.next}
    BY <1>0, <2>2, AppendFacts
  <2>4. EdgeType'
    BY <1>0, <1>2, <2>1, <2>2, <2>3 DEF TypeOK, EdgeType
  <2>5. \A b \in ToSet(inbox.q) : b \in Batches /\ b < up.next
    BY <1>0, <2>2, QueuedFacts, ToSetByIndex DEF IInv, PlaceInv, TypeOK, QueuedIsMember
  <2>6. OrderInv'
    <3>1. Precedes(ToSet(inbox.q), {up.next}) /\ Batches \in SUBSET Int
      BY <2>5 DEF Precedes, Batches
    <3> QED
      BY <1>0, <2>2, <3>1, AppendAscending DEF IInv, OrderInv
  <2>7. \A b \in Batches : Queued(b)' <=> Queued(b) \/ b = up.next
    BY <2>4, <1>0, <2>3, QueuedFacts, QueuedFactsNext DEF TypeOK, QueuedIsMember
  <2>8. \A b \in Batches : IsSettled(b)' <=> IsSettled(b)
    BY <2>1 DEF IsSettled
  <2>9. PlaceInv' /\ OnceInv' /\ FateType'
    BY <1>0, <1>3, <1>5, <1>6, <2>1, <2>7, <2>8 DEF IInv, PlaceInv, OnceInv, FateType, TypeOK
  <2>10. OwnerInv'
    BY <1>0, <1>8, <2>2 DEF IInv, OwnerInv
  <2> QED
    BY <1>0, <1>1, <1>4, <2>4, <2>6, <2>9, <2>10 DEF IInv, TypeOK
<1> QED
  BY <1>7, <1>8

\* HangUp keeps the invariant.
LEMMA HangUpKeeps ==
  ASSUME IInv, HangUp
  PROVE  IInv'
<1>0. /\ UNCHANGED <<conf, inbox, io, lock, t, hb, extra, synced, mem, w, done, fate>>
      /\ ~up.permit /\ up' = [up EXCEPT !.hung = TRUE] /\ TypeOK
  BY DEF HangUp, IInv
<1>1. up'.next = up.next /\ ~up'.permit /\ up'.hung /\ EdgeType'
  BY <1>0 DEF TypeOK, EdgeType
<1>2. UNCHANGED <<ThreadType, HeartType, MemType, WatcherType, FateType, RestType, OrderInv, OnceInv,
                  HandInv, HeartInv, OwnerInv>>
  BY <1>0 DEF ThreadType, HeartType, MemType, WatcherType, FateType, RestType, OrderInv, OnceInv,
              HandInv, HeartInv, OwnerInv
<1>3. PermitInv' /\ CloseInv'
  BY <1>0, <1>1 DEF IInv, PermitInv, CloseInv, Closing
<1>4. PlaceInv'
  BY <1>0, <1>1 DEF IInv, PlaceInv, Queued, InHand, Hands, IsSettled
<1> QED
  BY <1>0, <1>1, <1>2, <1>3, <1>4 DEF IInv, TypeOK

-----------------------------------------------------------------------------
(* The steps of the thread's loop. *)

\* A step of the loop, or its end: no batch moves, and the LuaIo is where it was.
ThreadOnly ==
  /\ UNCHANGED <<conf, up, inbox, io, w, done, fate>> /\ Hands' = Hands
  /\ t.pc \notin PastTake /\ t'.pc \notin PastTake

\* Such a step has only to be right about the thread and the heartbeat.
LEMMA ThreadOnlyKeeps ==
  ASSUME IInv, ThreadOnly, ThreadType', HeartType', MemType', lock' \in {"nobody", "thread", "watcher"},
         HandInv', CloseInv', HeartInv'
  PROVE  IInv'
<1>1. UNCHANGED <<WatcherType, EdgeType, FateType, PermitInv, OrderInv>>
  BY DEF ThreadOnly, WatcherType, EdgeType, FateType, PermitInv, OrderInv
<1>2. RestType' /\ OwnerInv'
  BY DEF IInv, TypeOK, ThreadOnly, RestType, OwnerInv, PastTake
<1>3. PlaceInv' /\ OnceInv'
  BY SamePlaces DEF IInv, ThreadOnly
<1> QED
  BY <1>1, <1>2, <1>3 DEF IInv, TypeOK

\* The thread's hands and its promises depend on these fields only.
LEMMA SameHands ==
  ASSUME t'.batch = t.batch, t'.held = t.held, t'.dests = t.dests
  PROVE  Hands' = Hands
BY DEF Hands

\* The heartbeat's promise, before the thread's tail.
LEMMA HeartKeeps ==
  ASSUME HeartInv, w' = w, hb'[1] = hb[1], t'.pc \notin {"take"} \cup PastTake
  PROVE  HeartInv'
BY DEF HeartInv

\* What a verdict leaves of its own state.
VerdictLeaves ==
  \/ mem' = [mem EXCEPT !.deferred = FALSE]
  \/ mem' = [mem EXCEPT !.deferred = TRUE]
  \/ \E under \in BOOLEAN : mem' = [over |-> ~under, deferred |-> FALSE, open |-> FALSE]

\* That state is well typed.
LEMMA VerdictLeavesType ==
  ASSUME MemType, VerdictLeaves
  PROVE  MemType'
<1>1. CASE mem' = [mem EXCEPT !.deferred = FALSE]
  BY <1>1 DEF MemType
<1>2. CASE mem' = [mem EXCEPT !.deferred = TRUE]
  BY <1>2 DEF MemType
<1>3. ASSUME NEW under \in BOOLEAN, mem' = [over |-> ~under, deferred |-> FALSE, open |-> FALSE]
      PROVE  MemType'
  <2>1. CASE under
    BY <1>3, <2>1 DEF MemType
  <2>2. CASE ~under
    BY <1>3, <2>2 DEF MemType
  <2> QED
    BY <2>1, <2>2
<1> QED
  BY <1>1, <1>2, <1>3 DEF VerdictLeaves

\* A step of the thread that changes its place or ends the loop, and besides only
\* the verdict's state and the lock.
LEMMA VerdictStepKeeps ==
  ASSUME IInv, UNCHANGED <<conf, up, inbox, io, hb, extra, w, done, fate>>, MemType',
         lock' \in {"nobody", "thread", "watcher"}, synced' = synced \/ synced' = Len(hb),
         t.pc \in InLoop \ {"process", "send", "sending"},
         \/ \E pc \in InLoop \ {"process"} : Goto(pc) /\ (Closing' => Closing)
         \/ \E o \in {"ok", "failed"} : Exits(o) /\ (o = "ok" => Closing \/ io = "taken")
  PROVE  IInv'
<1>0. TypeOK /\ ThreadType /\ HeartType
  BY DEF IInv, TypeOK
<1>1. HeartType' /\ hb'[1] = hb[1]
  BY <1>0 DEF HeartType
<1>2. t.batch = 0 /\ t.dests = 0 /\ t.held = 0 /\ t.outcome = "running"
  BY <1>0 DEF IInv, HandInv, InLoop, ThreadType
<1>3. CASE \E pc \in InLoop \ {"process"} : Goto(pc) /\ (Closing' => Closing)
  <2>1. PICK pc \in InLoop \ {"process"} : Goto(pc) /\ (Closing' => Closing)
    BY <1>3
  <2>2. /\ ThreadType' /\ t'.pc = pc /\ t'.why = t.why /\ t'.outcome = t.outcome
        /\ t'.batch = t.batch /\ t'.held = t.held /\ t'.dests = t.dests
    BY <1>0, <2>1, Moves
  <2>3. HandInv'
    BY <1>2, <2>1, <2>2 DEF HandInv
  <2>4. CloseInv'
    BY <2>1 DEF IInv, CloseInv
  <2>5. t'.pc \notin {"take"} \cup PastTake /\ t.pc \notin PastTake
    BY <2>1, <2>2 DEF InLoop, PastTake
  <2>6. HeartInv' /\ ThreadOnly
    BY <1>1, <2>2, <2>5, HeartKeeps, SameHands DEF IInv, ThreadOnly
  <2> QED
    BY <1>1, <2>2, <2>3, <2>4, <2>6, ThreadOnlyKeeps
<1>4. CASE \E o \in {"ok", "failed"} : Exits(o) /\ (o = "ok" => Closing \/ io = "taken")
  <2>1. PICK o \in {"ok", "failed"} : Exits(o) /\ (o = "ok" => Closing \/ io = "taken")
    BY <1>4
  <2>2. /\ ThreadType' /\ t'.pc = "exit" /\ t'.why = t.why /\ t'.outcome = o
        /\ t'.batch = t.batch /\ t'.held = t.held /\ t'.dests = t.dests
    BY <1>0, <2>1, ExitsFacts DEF Outcomes
  <2>3. HandInv'
    BY <1>2, <2>1, <2>2 DEF HandInv, InLoop
  <2>4. CloseInv'
    BY <2>1, <2>2 DEF IInv, CloseInv, Closing
  <2>5. t'.pc \notin {"take"} \cup PastTake /\ t.pc \notin PastTake
    BY <2>1, <2>2 DEF InLoop, PastTake
  <2>6. HeartInv' /\ ThreadOnly
    BY <1>1, <2>2, <2>5, HeartKeeps, SameHands DEF IInv, ThreadOnly
  <2> QED
    BY <1>1, <2>2, <2>3, <2>4, <2>6, ThreadOnlyKeeps
<1> QED
  BY <1>3, <1>4

\* DeferredVerdict keeps the invariant.
LEMMA DeferredVerdictKeeps ==
  ASSUME IInv, DeferredVerdict
  PROVE  IInv'
<1>1. /\ MemType /\ t.pc = "top" /\ Verdict(FALSE, Goto("top"))
      /\ UNCHANGED <<conf, up, inbox, io, lock, hb, extra, synced, w, done, fate>>
  BY DEF DeferredVerdict, IInv, TypeOK
<1>2. MemType' /\ (Goto("top") \/ Exits("failed"))
  <2>1. VerdictLeaves /\ (Goto("top") \/ Exits("failed"))
    BY <1>1 DEF Verdict, VerdictLeaves
  <2> QED
    BY <1>1, <2>1, VerdictLeavesType
<1>3. Goto("top") => ~Closing'
  BY Moves DEF IInv, TypeOK, Closing, InLoop
<1>4. lock' \in {"nobody", "thread", "watcher"}
  BY <1>1 DEF IInv, TypeOK, RestType
<1> QED
  BY <1>1, <1>2, <1>3, <1>4, VerdictStepKeeps DEF InLoop

\* Check keeps the invariant.
LEMMA CheckKeeps ==
  ASSUME IInv, Check
  PROVE  IInv'
<1> DEFINE next == IF t.why = "close" THEN "close_check" ELSE "top"
<1>1. /\ MemType /\ t.pc = "check" /\ Verdict(FALSE, Goto(next))
      /\ UNCHANGED <<conf, up, inbox, io, lock, hb, extra, synced, w, done, fate>>
  BY DEF Check, IInv, TypeOK
<1> HIDE DEF next
<1>2. MemType' /\ (Goto(next) \/ Exits("failed"))
  <2>1. VerdictLeaves /\ (Goto(next) \/ Exits("failed"))
    BY <1>1 DEF Verdict, VerdictLeaves
  <2> QED
    BY <1>1, <2>1, VerdictLeavesType
<1> USE DEF next
<1>3. Goto(next) => (Closing' => Closing)
  BY <1>1, Moves DEF IInv, TypeOK, Closing, InLoop
<1>4. lock' \in {"nobody", "thread", "watcher"}
  BY <1>1 DEF IInv, TypeOK, RestType
<1> QED
  BY <1>1, <1>2, <1>3, <1>4, VerdictStepKeeps DEF InLoop

\* CheckAtClose keeps the invariant.
LEMMA CheckAtCloseKeeps ==
  ASSUME IInv, CheckAtClose
  PROVE  IInv'
<1>1. /\ MemType /\ t.pc = "close_check" /\ Closing
      /\ UNCHANGED <<conf, up, inbox, io, lock, hb, extra, synced, w, done, fate>>
  BY DEF CheckAtClose, IInv, TypeOK, Closing
<1>2. MemType' /\ (Exits("ok") \/ Exits("failed"))
  <2>1. CASE mem.deferred
    <3>1. VerdictLeaves /\ (Exits("ok") \/ Exits("failed"))
      BY <2>1 DEF CheckAtClose, Verdict, VerdictLeaves
    <3> QED
      BY <1>1, <3>1, VerdictLeavesType
  <2>2. CASE ~mem.deferred
    BY <1>1, <2>2 DEF CheckAtClose, MemType
  <2> QED
    BY <2>1, <2>2
<1>3. lock' \in {"nobody", "thread", "watcher"}
  BY <1>1 DEF IInv, TypeOK, RestType
<1> QED
  BY <1>1, <1>2, <1>3, VerdictStepKeeps DEF InLoop

\* ToRecv keeps the invariant.
LEMMA ToRecvKeeps ==
  ASSUME IInv, ToRecv
  PROVE  IInv'
<1>1. /\ MemType' /\ t.pc = "top" /\ io \in {"there", "taken"}
      /\ UNCHANGED <<conf, up, inbox, io, hb, extra, w, done, fate>>
  BY DEF ToRecv, IInv, TypeOK, RestType, MemType
<1>2. CASE io = "there"
  <2>1. Goto("recv") /\ lock' = "thread" /\ synced' = synced
    BY <1>2 DEF ToRecv
  <2>2. ~Closing'
    BY <2>1, Moves DEF IInv, TypeOK, Closing, InLoop
  <2> QED
    BY <1>1, <2>1, <2>2, VerdictStepKeeps DEF InLoop
<1>3. CASE io = "taken"
  <2>1. Exits("ok") /\ lock' = "nobody" /\ synced' = Len(hb)
    BY <1>3 DEF ToRecv, Unlock
  <2> QED
    BY <1>1, <1>3, <2>1, VerdictStepKeeps DEF InLoop
<1> QED
  BY <1>1, <1>2, <1>3

\* A flush starts, at its interval or when the inbox has closed.
LEMMA StartFlushKeeps ==
  ASSUME IInv, NEW why \in {"top", "close"}, StartFlush(why), t.pc \in {"top", "recv"},
         UNCHANGED <<conf, up, inbox, io, mem, w, done, fate>>, extra' \in 0..MaxExtra,
         lock' \in {"nobody", "thread", "watcher"}, synced' = synced \/ synced' = Len(hb),
         why = "close" => up.hung /\ inbox.q = <<>>
  PROVE  IInv'
<1>0. /\ TypeOK /\ hb' = Append(hb, TRUE) /\ t' = [t EXCEPT !.pc = "flush", !.why = why]
  BY DEF IInv, StartFlush, Beat
<1>1. /\ ThreadType' /\ t'.pc = "flush" /\ t'.why = why /\ t'.outcome = t.outcome
      /\ t'.batch = t.batch /\ t'.held = t.held /\ t'.dests = t.dests
  BY <1>0 DEF TypeOK, ThreadType, InLoop
<1>2. HeartType' /\ hb'[1] = hb[1] /\ MemType'
  BY <1>0, HeartGrows DEF TypeOK, MemType
<1>3. ThreadOnly
  BY <1>0, <1>1, SameHands DEF ThreadOnly, PastTake
<1>4. HandInv' /\ CloseInv' /\ HeartInv'
  BY <1>0, <1>1, <1>2, HeartKeeps DEF IInv, HandInv, CloseInv, Closing, PastTake, InLoop
<1> QED
  BY <1>1, <1>2, <1>3, <1>4, ThreadOnlyKeeps

\* FlushDue keeps the invariant.
LEMMA FlushDueKeeps ==
  ASSUME IInv, FlushDue
  PROVE  IInv'
<1>1. extra' \in 0..MaxExtra /\ lock' \in {"nobody", "thread", "watcher"}
  BY LuaAssumption DEF FlushDue, IntervalEnds, IInv, TypeOK, HeartType, RestType
<1> QED
  BY <1>1, StartFlushKeeps DEF FlushDue, IntervalEnds

\* WaitElapses keeps the invariant.
LEMMA WaitElapsesKeeps ==
  ASSUME IInv, WaitElapses
  PROVE  IInv'
<1>1. /\ t.pc = "recv" /\ lock' = "nobody" /\ synced' = Len(hb)
      /\ UNCHANGED <<conf, up, inbox, io, mem, w, done, fate>>
  BY DEF WaitElapses, Unlock
<1>2. CASE IntervalEnds
  <2>1. extra' \in 0..MaxExtra /\ StartFlush("top")
    BY <1>2, LuaAssumption DEF IntervalEnds, IInv, TypeOK, HeartType
  <2> QED
    BY <1>1, <2>1, StartFlushKeeps
<1>3. CASE Goto("top") /\ UNCHANGED <<hb, extra>>
  <2>1. ~Closing' /\ MemType'
    BY <1>1, <1>3, Moves DEF IInv, TypeOK, Closing, InLoop, MemType
  <2> QED
    BY <1>1, <1>3, <2>1, VerdictStepKeeps DEF InLoop
<1> QED
  BY <1>2, <1>3 DEF WaitElapses, WaitEnds

\* InboxCloses keeps the invariant.
LEMMA InboxClosesKeeps ==
  ASSUME IInv, InboxCloses
  PROVE  IInv'
<1>1. /\ t.pc = "recv" /\ lock' = "nobody" /\ synced' = Len(hb) /\ up.hung /\ inbox.q = <<>>
      /\ UNCHANGED <<conf, up, inbox, io, extra, mem, w, done, fate>>
  BY DEF InboxCloses, Unlock
<1>2. CASE conf.interval
  <2>1. StartFlush("close") /\ extra' \in 0..MaxExtra
    BY <1>1, <1>2 DEF InboxCloses, IInv, TypeOK, HeartType
  <2> QED
    BY <1>1, <2>1, StartFlushKeeps
<1>3. CASE ~conf.interval
  <2>0. Goto("close_check") /\ UNCHANGED hb /\ TypeOK
    BY <1>3 DEF InboxCloses, IInv
  <2>1. /\ ThreadType' /\ t'.pc = "close_check" /\ t'.why = t.why /\ t'.outcome = t.outcome
        /\ t'.batch = t.batch /\ t'.held = t.held /\ t'.dests = t.dests
    BY <2>0, Moves DEF TypeOK, InLoop
  <2>2. HeartType' /\ hb'[1] = hb[1] /\ MemType'
    BY <1>1, <2>0 DEF TypeOK, MemType, HeartType
  <2>3. ThreadOnly
    BY <1>1, <2>1, SameHands DEF ThreadOnly, PastTake
  <2>4. HandInv' /\ CloseInv' /\ HeartInv'
    BY <1>1, <2>1, <2>2, HeartKeeps DEF IInv, HandInv, CloseInv, Closing, PastTake, InLoop
  <2> QED
    BY <1>1, <2>1, <2>2, <2>3, <2>4, ThreadOnlyKeeps
<1> QED
  BY <1>2, <1>3

\* Recv keeps the invariant.
LEMMA RecvKeeps ==
  ASSUME IInv, Recv
  PROVE  IInv'
<1> DEFINE h == Head(inbox.q)
<1>0. /\ TypeOK /\ t.pc = "recv" /\ inbox.q # <<>> /\ hb' = Append(hb, TRUE)
      /\ t' = [t EXCEPT !.pc = "process", !.batch = h, !.held = h]
      /\ inbox' = [inbox EXCEPT !.q = Tail(@)] /\ lock' = "nobody" /\ synced' = Len(hb)
      /\ UNCHANGED <<conf, up, io, extra, mem, w, done, fate>>
  BY DEF IInv, Recv, Unlock, Beat
<1>1. /\ h \in Batches /\ Tail(inbox.q) \in Seq(Batches) /\ Ascending(Tail(inbox.q)) /\ Queued(h)
      /\ \A b \in Batches : b \in ToSet(Tail(inbox.q)) <=> Queued(b) /\ b # h
  BY <1>0, InboxTail DEF IInv, TypeOK
<1> HIDE DEF h
<1>2. h \in 0..MaxBatches /\ h # 0
  BY <1>1, LuaAssumption DEF Batches
<1>3. /\ ThreadType' /\ t'.pc = "process" /\ t'.why = t.why /\ t'.outcome = t.outcome
      /\ t'.batch = h /\ t'.held = h /\ t'.dests = t.dests
  BY <1>0, <1>2 DEF TypeOK, ThreadType, InLoop
<1>4. t.batch = 0 /\ t.held = 0 /\ t.dests = 0 /\ t.outcome = "running"
  BY <1>0 DEF IInv, HandInv, InLoop
<1>5. EdgeType' /\ inbox'.q = Tail(inbox.q) /\ inbox'.state = inbox.state
  BY <1>0, <1>1 DEF TypeOK, EdgeType
<1>6. HeartType' /\ hb'[1] = hb[1]
  <2>1. extra' \in 0..MaxExtra
    BY <1>0 DEF TypeOK, HeartType
  <2> QED
    BY <1>0, <2>1, HeartGrows DEF TypeOK
<1>7. UNCHANGED <<MemType, WatcherType, FateType, PermitInv, OnceInv>> /\ RestType'
  BY <1>0 DEF TypeOK, MemType, WatcherType, FateType, PermitInv, OnceInv, RestType
<1>8. OrderInv'
  BY <1>1, <1>5 DEF OrderInv
<1>9. PlaceInv'
  <2>1. \A b \in Batches : Queued(b)' <=> Queued(b) /\ b # h
    BY <1>5, <1>1, QueuedFacts, QueuedFactsNext DEF TypeOK, QueuedIsMember
  <2>2. \A b \in Batches : ~InHand(b) /\ (InHand(b)' <=> b = h)
    BY <1>2, <1>3, <1>4 DEF InHand, Hands
  <2>3. \A b \in Batches : IsSettled(b)' <=> IsSettled(b)
    BY <1>0 DEF IsSettled
  <2> QED
    BY <1>0, <1>1, <2>1, <2>2, <2>3 DEF IInv, PlaceInv
<1>10. HandInv' /\ CloseInv'
  BY <1>2, <1>3, <1>4 DEF IInv, HandInv, CloseInv, Closing, InLoop
<1>11. HeartInv'
  BY <1>0, <1>3, <1>6, HeartKeeps DEF IInv, PastTake
<1>12. OwnerInv'
  BY <1>0, <1>3, <1>5 DEF IInv, OwnerInv, PastTake
<1> QED
  BY <1>3, <1>5, <1>6, <1>7, <1>8, <1>9, <1>10, <1>11, <1>12 DEF IInv, TypeOK

\* What a call did to the VM's memory is well typed.
LEMMA GrewType ==
  ASSUME MemType, Grew
  PROVE  MemType'
BY DEF Grew, MemType

\* HeartbeatTick keeps the invariant.
LEMMA HeartbeatTickKeeps ==
  ASSUME IInv, HeartbeatTick
  PROVE  IInv'
<1>0. /\ TypeOK /\ t.pc \in {"process", "flush"} /\ extra < MaxExtra /\ extra' = extra + 1
      /\ hb' = Append(hb, TRUE)
      /\ UNCHANGED <<conf, up, inbox, io, lock, t, synced, mem, w, done, fate>>
  BY DEF IInv, HeartbeatTick, InCall, Beat
<1>1. HeartType' /\ hb'[1] = hb[1] /\ MemType' /\ lock' \in {"nobody", "thread", "watcher"}
  <2>1. extra' \in 0..MaxExtra
    BY <1>0, LuaAssumption DEF TypeOK, HeartType
  <2> QED
    BY <1>0, <2>1, HeartGrows DEF TypeOK, MemType, RestType
<1>2. ThreadOnly /\ ThreadType'
  BY <1>0 DEF ThreadOnly, PastTake, Hands, ThreadType, TypeOK
<1>3. HandInv' /\ CloseInv'
  BY <1>0 DEF IInv, HandInv, CloseInv, Closing
<1>4. HeartInv'
  BY <1>0, <1>1, HeartKeeps DEF IInv, PastTake
<1> QED
  BY <1>1, <1>2, <1>3, <1>4, ThreadOnlyKeeps

\* FlushReturns keeps the invariant.
LEMMA FlushReturnsKeeps ==
  ASSUME IInv, FlushReturns
  PROVE  IInv'
<1>0. /\ TypeOK /\ t.pc = "flush" /\ hb' = Left /\ Grew
      /\ UNCHANGED <<conf, up, inbox, io, lock, extra, synced, w, done, fate>>
  BY DEF IInv, FlushReturns
<1>1. PICK pc \in {"send", "check"} : Goto(pc)
  BY DEF FlushReturns
<1>2. /\ ThreadType' /\ t'.pc = pc /\ t'.why = t.why /\ t'.outcome = t.outcome
      /\ t'.batch = t.batch /\ t'.held = t.held /\ t'.dests = t.dests
  BY <1>0, <1>1, Moves DEF TypeOK, InLoop
<1>3. /\ HeartType' /\ hb'[1] = hb[1] /\ MemType' /\ lock' \in {"nobody", "thread", "watcher"}
  BY <1>0, LeftFacts, GrewType DEF TypeOK, HeartType, RestType
<1>4. ThreadOnly
  BY <1>0, <1>1, <1>2, SameHands DEF ThreadOnly, PastTake
<1>5. HandInv' /\ CloseInv'
  BY <1>0, <1>1, <1>2 DEF IInv, HandInv, CloseInv, Closing, InLoop
<1>6. HeartInv'
  BY <1>0, <1>1, <1>2, <1>3, HeartKeeps DEF IInv, PastTake
<1> QED
  BY <1>2, <1>3, <1>4, <1>5, <1>6, ThreadOnlyKeeps

\* PanicInCall keeps the invariant: the batch in hand stays in held.
LEMMA PanicInCallKeeps ==
  ASSUME IInv, PanicInCall
  PROVE  IInv'
<1>0. /\ TypeOK /\ t.pc \in {"process", "flush"}
      /\ t' = [t EXCEPT !.pc = "exit", !.outcome = "panicked", !.batch = 0]
      /\ UNCHANGED <<conf, up, inbox, io, lock, hb, extra, synced, mem, w, done, fate>>
  BY DEF IInv, PanicInCall, InCall
<1>1. /\ ThreadType' /\ t'.pc = "exit" /\ t'.outcome = "panicked"
      /\ t'.batch = 0 /\ t'.held = t.held /\ t'.dests = t.dests
  <2>1. 0 \in 0..MaxBatches /\ "exit" \in InLoop \cup InTail /\ "panicked" \in Outcomes
    BY LuaAssumption DEF InTail, Outcomes
  <2> QED
    BY <1>0, <2>1 DEF TypeOK, ThreadType
<1>2. t.dests = 0 /\ (t.batch # 0 => t.held = t.batch)
  BY <1>0 DEF IInv, HandInv
<1>3. ThreadOnly
  <2>1. Hands' = Hands
    BY <1>1, <1>2 DEF Hands
  <2> QED
    BY <1>0, <1>1, <2>1 DEF ThreadOnly, PastTake
<1>4. HeartType' /\ hb'[1] = hb[1] /\ MemType' /\ lock' \in {"nobody", "thread", "watcher"}
  BY <1>0 DEF TypeOK, HeartType, MemType, RestType
<1>5. HandInv' /\ CloseInv'
  BY <1>1, <1>2 DEF HandInv, CloseInv, Closing, InLoop
<1>6. HeartInv'
  BY <1>0, <1>1, <1>4, HeartKeeps DEF IInv, PastTake
<1> QED
  BY <1>1, <1>3, <1>4, <1>5, <1>6, ThreadOnlyKeeps

-----------------------------------------------------------------------------
(* The steps that settle what the thread holds. *)

\* A step of the loop that settles S of what the thread holds.
LoopSettles(S, how) ==
  /\ Settled(S, how) /\ S \subseteq Hands /\ Hands' = Hands \ S
  /\ UNCHANGED <<conf, up, inbox, io, w, done>>
  /\ t.pc \notin PastTake /\ t'.pc \notin PastTake

\* The thread holds batches.
LEMMA HandsAreBatches ==
  ASSUME ThreadType
  PROVE  Hands \subseteq Batches
BY DEF ThreadType, Hands, Batches

\* Such a step has only to be right about the thread and the heartbeat.
LEMMA LoopSettlesKeeps ==
  ASSUME IInv, NEW S, NEW how \in {"counted", "lost"}, LoopSettles(S, how),
         ThreadType', HeartType', MemType', lock' \in {"nobody", "thread", "watcher"},
         HandInv', CloseInv', HeartInv'
  PROVE  IInv'
<1>1. UNCHANGED <<WatcherType, EdgeType, PermitInv, OrderInv>>
  BY DEF LoopSettles, WatcherType, EdgeType, PermitInv, OrderInv
<1>2. RestType' /\ OwnerInv'
  BY DEF IInv, TypeOK, LoopSettles, RestType, OwnerInv, PastTake
<1>3. FateType' /\ PlaceInv' /\ OnceInv'
  <2>1. S \subseteq Batches
    BY HandsAreBatches DEF LoopSettles, IInv, TypeOK
  <2>2. UNCHANGED <<up.next, inbox.q>>
    BY DEF LoopSettles
  <2> QED
    BY <2>1, <2>2, HandSettled DEF LoopSettles, IInv, TypeOK
<1> QED
  BY <1>1, <1>2, <1>3 DEF IInv, TypeOK

\* PassEnds keeps the invariant.
LEMMA PassEndsKeeps ==
  ASSUME IInv, PassEnds
  PROVE  IInv'
<1>0. /\ TypeOK /\ t.pc = "process" /\ hb' = Left /\ Grew
      /\ UNCHANGED <<conf, up, inbox, io, lock, extra, synced, w, done>>
  BY DEF IInv, PassEnds
<1>1. t.batch # 0 /\ t.held = t.batch /\ t.dests = 0 /\ t.outcome = "running" /\ Hands = {t.batch}
  BY <1>0 DEF IInv, HandInv, InLoop, Hands
<1>2. PICK emits \in BOOLEAN :
         /\ t' = [t EXCEPT !.pc = "send", !.held = 0, !.why = "batch", !.batch = 0,
                           !.dests = IF emits THEN t.batch ELSE 0]
         /\ Settled(IF emits THEN {} ELSE {t.batch}, "counted")
  BY DEF PassEnds
<1> DEFINE d == IF emits THEN t.batch ELSE 0
           S == IF emits THEN {} ELSE {t.batch}
<1>3. d \in 0..MaxBatches /\ 0 \in 0..MaxBatches /\ "send" \in InLoop \cup InTail
  BY <1>0, LuaAssumption DEF TypeOK, ThreadType, InLoop
<1>4. S \subseteq Hands /\ {d} \ {0} = Hands \ S
  BY <1>1
<1>5. t' = [t EXCEPT !.pc = "send", !.held = 0, !.why = "batch", !.batch = 0, !.dests = d]
      /\ Settled(S, "counted")
  BY <1>2
<1> HIDE DEF d, S
<1>6. /\ ThreadType' /\ t'.pc = "send" /\ t'.why = "batch" /\ t'.outcome = t.outcome
      /\ t'.batch = 0 /\ t'.held = 0 /\ t'.dests = d
  BY <1>0, <1>3, <1>5 DEF TypeOK, ThreadType
<1>7. LoopSettles(S, "counted")
  <2>1. Hands' = Hands \ S
    BY <1>4, <1>6 DEF Hands
  <2> QED
    BY <1>0, <1>4, <1>5, <1>6, <2>1 DEF LoopSettles, PastTake
<1>8. /\ HeartType' /\ hb'[1] = hb[1] /\ MemType' /\ lock' \in {"nobody", "thread", "watcher"}
  BY <1>0, LeftFacts, GrewType DEF TypeOK, HeartType, RestType
<1>9. HandInv' /\ CloseInv'
  BY <1>1, <1>6 DEF HandInv, CloseInv, Closing, InLoop
<1>10. HeartInv'
  BY <1>0, <1>6, <1>8, HeartKeeps DEF IInv, PastTake
<1> QED
  BY <1>6, <1>7, <1>8, <1>9, <1>10, LoopSettlesKeeps

\* The send is over, or the node was revoked: what it held is settled.
LEMMA SendEndsKeeps ==
  ASSUME IInv, t.pc \in {"send", "sending"}, NEW pc \in {"check", "exit"},
         NEW o \in {"running", "ok", "panicked"}, NEW how \in {"counted", "lost"},
         o = "running" <=> pc = "check", o = "ok" => io = "taken",
         t' = [t EXCEPT !.pc = pc, !.outcome = o, !.dests = 0],
         Settled(SetOf(t.dests), how), lock' = "nobody", synced' = Len(hb),
         UNCHANGED <<conf, up, inbox, io, hb, extra, mem, w, done>>
  PROVE  IInv'
<1>0. TypeOK
  BY DEF IInv
<1>1. t.batch = 0 /\ t.held = 0 /\ t.outcome = "running"
  BY DEF IInv, HandInv, InLoop
<1>2. 0 \in 0..MaxBatches /\ pc \in InLoop \cup InTail /\ o \in Outcomes
  BY LuaAssumption DEF InLoop, InTail, Outcomes
<1>3. /\ ThreadType' /\ t'.pc = pc /\ t'.why = t.why /\ t'.outcome = o
      /\ t'.batch = t.batch /\ t'.held = t.held /\ t'.dests = 0
  BY <1>0, <1>2 DEF TypeOK, ThreadType
<1>4. LoopSettles(SetOf(t.dests), how)
  <2>1. SetOf(t.dests) \subseteq Hands /\ Hands' = Hands \ SetOf(t.dests)
    BY <1>1, <1>3 DEF Hands, SetOf
  <2> QED
    BY <1>3, <2>1 DEF LoopSettles, PastTake
<1>5. HeartType' /\ hb'[1] = hb[1] /\ MemType'
  BY <1>0 DEF TypeOK, HeartType, MemType
<1>6. HandInv' /\ CloseInv'
  BY <1>1, <1>3 DEF IInv, HandInv, CloseInv, Closing, InLoop
<1>7. HeartInv'
  BY <1>3, <1>5, HeartKeeps DEF IInv, PastTake
<1> QED
  BY <1>3, <1>4, <1>5, <1>6, <1>7, LoopSettlesKeeps

\* ToSend keeps the invariant.
LEMMA ToSendKeeps ==
  ASSUME IInv, ToSend
  PROVE  IInv'
<1>0. /\ TypeOK /\ t.pc = "send" /\ io \in {"there", "taken"}
      /\ UNCHANGED <<conf, up, inbox, io, hb, extra, mem, w, done>>
  BY DEF ToSend, IInv, TypeOK, RestType
<1>1. CASE io = "there"
  <2>0. Goto("sending") /\ lock' = "thread" /\ UNCHANGED <<synced, fate>>
    BY <1>1 DEF ToSend
  <2>1. /\ ThreadType' /\ t'.pc = "sending" /\ t'.why = t.why /\ t'.outcome = t.outcome
        /\ t'.batch = t.batch /\ t'.held = t.held /\ t'.dests = t.dests
    BY <1>0, <2>0, Moves DEF TypeOK, InLoop
  <2>2. HeartType' /\ hb'[1] = hb[1] /\ MemType'
    BY <1>0, <2>0 DEF TypeOK, MemType, HeartType
  <2>3. ThreadOnly
    BY <1>0, <2>0, <2>1, SameHands DEF ThreadOnly, PastTake
  <2>4. HandInv' /\ CloseInv'
    BY <1>0, <2>1 DEF IInv, HandInv, CloseInv, Closing, InLoop
  <2>5. HeartInv'
    BY <1>0, <2>1, <2>2, HeartKeeps DEF IInv, PastTake
  <2> QED
    BY <2>0, <2>1, <2>2, <2>3, <2>4, <2>5, ThreadOnlyKeeps
<1>2. CASE io = "taken"
  <2>1. /\ t' = [t EXCEPT !.pc = "exit", !.outcome = "ok", !.dests = 0]
        /\ Settled(SetOf(t.dests), "counted") /\ lock' = "nobody" /\ synced' = Len(hb)
    BY <1>2 DEF ToSend, Unlock
  <2> QED
    BY <1>0, <1>2, <2>1, SendEndsKeeps
<1> QED
  BY <1>0, <1>1, <1>2

\* SendReturns keeps the invariant.
LEMMA SendReturnsKeeps ==
  ASSUME IInv, SendReturns
  PROVE  IInv'
<1>1. /\ t.pc = "sending" /\ Settled(SetOf(t.dests), "counted") /\ lock' = "nobody" /\ synced' = Len(hb)
      /\ t' = [t EXCEPT !.pc = "check", !.dests = 0]
      /\ UNCHANGED <<conf, up, inbox, io, hb, extra, mem, w, done>>
  BY DEF SendReturns, Unlock
<1>2. t.outcome = "running" /\ ThreadType
  BY <1>1 DEF IInv, HandInv, InLoop, TypeOK
<1>3. t' = [t EXCEPT !.pc = "check", !.outcome = "running", !.dests = 0]
  BY <1>1, <1>2 DEF ThreadType
<1> QED
  BY <1>1, <1>3, SendEndsKeeps

\* PanicInSend keeps the invariant.
LEMMA PanicInSendKeeps ==
  ASSUME IInv, PanicInSend
  PROVE  IInv'
BY SendEndsKeeps DEF PanicInSend, Unlock

-----------------------------------------------------------------------------
(* The steps of run_lua's tail. *)

\* LeaveAtExit keeps the invariant, and leaves the heartbeat idle.
LEMMA LeaveAtExitKeeps ==
  ASSUME IInv, LeaveAtExit
  PROVE  IInv'
<1>0. /\ TypeOK /\ t.pc = "exit" /\ hb' = Left /\ Goto("take")
      /\ UNCHANGED <<conf, up, inbox, io, lock, extra, synced, mem, w, done, fate>>
  BY DEF LeaveAtExit, IInv
<1>1. /\ ThreadType' /\ t'.pc = "take" /\ t'.why = t.why /\ t'.outcome = t.outcome
      /\ t'.batch = t.batch /\ t'.held = t.held /\ t'.dests = t.dests
  BY <1>0, Moves DEF TypeOK, InTail
<1>2. /\ HeartType' /\ hb'[1] = hb[1] /\ ~hb'[Len(hb')]
      /\ MemType' /\ lock' \in {"nobody", "thread", "watcher"}
  BY <1>0, LeftFacts DEF TypeOK, HeartType, RestType, MemType
<1>3. ThreadOnly
  BY <1>0, <1>1, SameHands DEF ThreadOnly, PastTake
<1>4. HandInv' /\ CloseInv'
  BY <1>0, <1>1 DEF IInv, HandInv, CloseInv, Closing, InLoop
<1>5. HeartInv'
  BY <1>0, <1>1, <1>2 DEF IInv, HeartInv, PastTake
<1> QED
  BY <1>1, <1>2, <1>3, <1>4, <1>5, ThreadOnlyKeeps

\* TakeLeftover keeps the invariant.
LEMMA TakeLeftoverKeeps ==
  ASSUME IInv, TakeLeftover
  PROVE  IInv'
<1> DEFINE failed == t.outcome # "ok"
           mine == io = "there"
           S == IF failed THEN SetOf(t.held) ELSE {}
           pc == IF failed /\ mine THEN "sweep" ELSE "report"
           st == IF mine THEN IF failed THEN "closed" ELSE "gone" ELSE inbox.state
<1>0. /\ TypeOK /\ t.pc = "take" /\ lock' = "nobody" /\ synced' = Len(hb) /\ io' = "taken"
      /\ Settled(S, "counted") /\ t' = [t EXCEPT !.held = 0, !.pc = pc]
      /\ inbox' = [inbox EXCEPT !.state = st]
      /\ UNCHANGED <<conf, up, hb, extra, mem, w, done>>
  BY DEF TakeLeftover, Unlock, IInv
<1>1. /\ 0 \in 0..MaxBatches /\ pc \in PastTake /\ pc \in InLoop \cup InTail
      /\ st \in {"open", "closed", "gone"}
  BY <1>0, LuaAssumption DEF TypeOK, EdgeType, PastTake, InTail
<1>2. /\ t.batch = 0 /\ t.dests = 0 /\ (t.held # 0 => failed) /\ t.outcome # "running"
      /\ Hands = SetOf(t.held) /\ S = Hands
  BY <1>0 DEF IInv, HandInv, InLoop, Hands, SetOf
<1>3. ~w.revoked <=> mine
  BY <1>0 DEF IInv, OwnerInv, PastTake, TypeOK, RestType
<1>4. mine /\ ~failed => inbox.q = <<>>
  BY <1>0 DEF IInv, CloseInv, Closing
<1>5. pc = "sweep" => mine /\ st = "closed"
  OBVIOUS
<1>6. pc # "sweep" => pc = "report" /\ (mine => st = "gone")
  OBVIOUS
<1>7. st = "gone" => inbox.q = <<>>
  BY <1>4 DEF IInv, OwnerInv
<1>8. ~mine => st = inbox.state
  OBVIOUS
<1> HIDE DEF failed, mine, S, pc, st
<1>9. /\ ThreadType' /\ t'.pc = pc /\ t'.outcome = t.outcome
      /\ t'.batch = t.batch /\ t'.held = 0 /\ t'.dests = t.dests
  BY <1>0, <1>1 DEF TypeOK, ThreadType
<1>10. EdgeType' /\ inbox'.q = inbox.q /\ inbox'.state = st
  BY <1>0, <1>1 DEF TypeOK, EdgeType
<1>11. HeartType' /\ MemType' /\ WatcherType' /\ RestType' /\ PermitInv'
  BY <1>0 DEF IInv, TypeOK, HeartType, MemType, WatcherType, RestType, PermitInv
<1>12. OrderInv'
  BY <1>10 DEF IInv, OrderInv
<1>13. FateType' /\ PlaceInv' /\ OnceInv'
  <2>1. Hands' = Hands \ S
    BY <1>2, <1>9 DEF Hands
  <2>2. Hands \subseteq Batches /\ UNCHANGED <<up.next, inbox.q>>
    BY <1>0, <1>10, HandsAreBatches DEF TypeOK
  <2> QED
    BY <1>0, <1>2, <2>1, <2>2, HandSettled DEF IInv, TypeOK
<1>14. HandInv' /\ CloseInv'
  BY <1>1, <1>2, <1>9 DEF HandInv, CloseInv, Closing, InLoop, PastTake
<1>15. HeartInv'
  BY <1>0, <1>1, <1>9 DEF IInv, HeartInv, PastTake
<1>16. OwnerInv'
  <2>1. inbox'.state = "gone" => inbox'.q = <<>>
    BY <1>7, <1>10
  <2>2. w.pc = "returned" => w.revoked
    BY <1>0 DEF IInv, OwnerInv
  <2>3. done' = "none"
    BY <1>0 DEF IInv, OwnerInv
  <2>4. w.revoked => w.pc \in {"sweep", "returned"} /\ pc = "report"
    BY <1>3, <1>5, <1>6 DEF IInv, OwnerInv
  <2>5. w.pc = "sweep" => w.revoked /\ inbox'.state = "closed"
    BY <1>3, <1>8, <1>10 DEF IInv, OwnerInv
  <2>6. w.pc = "returned" => w.revoked /\ inbox'.state = "gone"
    BY <1>3, <1>8, <1>10, <2>2 DEF IInv, OwnerInv
  <2> QED
    BY <1>0, <1>1, <1>3, <1>5, <1>6, <1>9, <1>10, <2>1, <2>3, <2>4, <2>5, <2>6 DEF OwnerInv, PastTake
<1> QED
  BY <1>9, <1>10, <1>11, <1>12, <1>13, <1>14, <1>15, <1>16 DEF IInv, TypeOK

\* Report keeps the invariant.
LEMMA ReportKeeps ==
  ASSUME IInv, Report
  PROVE  IInv'
<1>0. /\ TypeOK /\ t.pc = "report" /\ Goto("ended") /\ done' = t.outcome
      /\ UNCHANGED <<conf, up, inbox, io, lock, hb, extra, synced, mem, w, fate>>
  BY DEF Report, IInv
<1>1. /\ ThreadType' /\ t'.pc = "ended" /\ t'.why = t.why /\ t'.outcome = t.outcome
      /\ t'.batch = t.batch /\ t'.held = t.held /\ t'.dests = t.dests
  BY <1>0, Moves DEF TypeOK, InTail
<1>2. t.outcome \in {"ok", "failed", "panicked"}
  BY <1>0 DEF IInv, HandInv, InLoop, TypeOK, ThreadType, Outcomes
<1>3. UNCHANGED <<HeartType, MemType, WatcherType, EdgeType, FateType, PermitInv, OrderInv>> /\ RestType'
  BY <1>0, <1>2 DEF TypeOK, HeartType, MemType, WatcherType, EdgeType, FateType, PermitInv, OrderInv, RestType
<1>4. PlaceInv' /\ OnceInv'
  BY <1>0, <1>1, SameHands, SamePlaces DEF IInv
<1>5. HandInv' /\ CloseInv'
  BY <1>0, <1>1 DEF IInv, HandInv, CloseInv, Closing, InLoop
<1>6. OwnerInv'
  BY <1>0, <1>1 DEF IInv, OwnerInv, PastTake
<1>7. HeartInv'
  BY <1>0, <1>1 DEF IInv, HeartInv, PastTake
<1> QED
  BY <1>1, <1>3, <1>4, <1>5, <1>6, <1>7 DEF IInv, TypeOK

-----------------------------------------------------------------------------
(* The sweep of a closed inbox. *)

\* A batch of the inbox is counted.
LEMMA SweepRecvKeeps ==
  ASSUME IInv, SweepRecv, UNCHANGED <<conf, up, io, lock, t, hb, extra, synced, mem, w, done>>
  PROVE  IInv'
<1> DEFINE h == Head(inbox.q)
<1>0. /\ TypeOK /\ inbox.q # <<>> /\ Settled({h}, "counted") /\ inbox' = [inbox EXCEPT !.q = Tail(@)]
  BY DEF IInv, SweepRecv
<1>1. /\ h \in Batches /\ Tail(inbox.q) \in Seq(Batches) /\ Ascending(Tail(inbox.q)) /\ Queued(h)
      /\ \A b \in Batches : b \in ToSet(Tail(inbox.q)) <=> Queued(b) /\ b # h
  BY <1>0, InboxTail DEF IInv, TypeOK
<1> HIDE DEF h
<1>2. EdgeType' /\ inbox'.q = Tail(inbox.q) /\ inbox'.state = inbox.state
  BY <1>0, <1>1 DEF TypeOK, EdgeType
<1>3. UNCHANGED <<ThreadType, HeartType, MemType, WatcherType, RestType, PermitInv, HandInv, HeartInv>>
  BY DEF ThreadType, HeartType, MemType, WatcherType, RestType, PermitInv, HandInv, HeartInv
<1>4. OrderInv'
  BY <1>1, <1>2 DEF OrderInv
<1>5. /\ FateType' /\ OnceInv'
      /\ \A b \in Batches : IsSettled(b)' <=> IsSettled(b) \/ b \in {h}
  <2>1. ~IsSettled(h)
    BY <1>1 DEF IInv, PlaceInv
  <2> QED
    BY <1>0, <1>1, <2>1, SettledOnce DEF IInv, TypeOK
<1>6. PlaceInv'
  <2>1. \A b \in Batches : Queued(b)' <=> Queued(b) /\ b # h
    BY <1>2, <1>1, QueuedFacts, QueuedFactsNext DEF TypeOK, QueuedIsMember
  <2>2. \A b \in Batches : InHand(b)' <=> InHand(b)
    BY DEF InHand, Hands
  <2> QED
    BY <1>1, <1>5, <2>1, <2>2 DEF IInv, PlaceInv
<1>7. CloseInv'
  BY <1>0 DEF IInv, CloseInv, Closing
<1>8. OwnerInv'
  BY <1>0, <1>2 DEF IInv, OwnerInv
<1> QED
  BY <1>0, <1>2, <1>3, <1>4, <1>5, <1>6, <1>7, <1>8 DEF IInv, TypeOK

\* ThreadSweeps keeps the invariant.
LEMMA ThreadSweepsKeeps ==
  ASSUME IInv, ThreadSweeps
  PROVE  IInv'
<1>0. TypeOK /\ t.pc = "sweep" /\ UNCHANGED <<conf, up, io, lock, hb, extra, synced, mem, w, done>>
  BY DEF ThreadSweeps, IInv
<1>1. CASE SweepRecv /\ UNCHANGED t
  BY <1>0, <1>1, SweepRecvKeeps
<1>2. CASE SweepDone /\ Goto("report")
  <2>0. inbox.q = <<>> /\ inbox' = [inbox EXCEPT !.state = "gone"] /\ UNCHANGED fate
    BY <1>2 DEF SweepDone
  <2>1. /\ ThreadType' /\ t'.pc = "report" /\ t'.why = t.why /\ t'.outcome = t.outcome
        /\ t'.batch = t.batch /\ t'.held = t.held /\ t'.dests = t.dests
    BY <1>0, <1>2, Moves DEF TypeOK, InTail
  <2>2. EdgeType' /\ inbox'.q = inbox.q /\ inbox'.state = "gone"
    BY <1>0, <2>0 DEF TypeOK, EdgeType
  <2>3. UNCHANGED <<HeartType, MemType, WatcherType, FateType, RestType, PermitInv, OnceInv>>
    BY <1>0, <2>0 DEF HeartType, MemType, WatcherType, FateType, RestType, PermitInv, OnceInv
  <2>4. PlaceInv' /\ OrderInv'
    BY <1>0, <2>0, <2>1, <2>2 DEF IInv, PlaceInv, OrderInv, Queued, InHand, Hands, IsSettled
  <2>5. HandInv' /\ CloseInv'
    BY <1>0, <2>1 DEF IInv, HandInv, CloseInv, Closing, InLoop
  <2>6. OwnerInv'
    BY <1>0, <2>0, <2>1, <2>2 DEF IInv, OwnerInv, PastTake
  <2>7. HeartInv'
    BY <1>0, <2>1 DEF IInv, HeartInv, PastTake
  <2> QED
    BY <1>0, <2>1, <2>2, <2>3, <2>4, <2>5, <2>6, <2>7 DEF IInv, TypeOK
<1> QED
  BY <1>1, <1>2 DEF ThreadSweeps

-----------------------------------------------------------------------------
(* The watcher's steps. *)

\* A step of the watcher that leaves the inbox alone.
LEMMA WatcherOnlyKeeps ==
  ASSUME IInv, UNCHANGED <<conf, up, inbox, io, t, extra, done, fate>>, WatcherType', HeartType', MemType',
         lock' \in {"nobody", "thread", "watcher"}, OwnerInv', HeartInv'
  PROVE  IInv'
<1>1. UNCHANGED <<ThreadType, EdgeType, FateType, PermitInv, OrderInv, HandInv, CloseInv>>
  BY DEF ThreadType, EdgeType, FateType, PermitInv, OrderInv, HandInv, CloseInv, Closing
<1>2. RestType'
  BY DEF IInv, TypeOK, RestType
<1>3. PlaceInv' /\ OnceInv'
  BY SamePlaces DEF IInv, Hands
<1> QED
  BY <1>1, <1>2, <1>3 DEF IInv, TypeOK

\* The end of the rate limit's window keeps the invariant.
LEMMA WindowOpensKeeps ==
  ASSUME IInv, WindowOpens
  PROVE  IInv'
<1>1. /\ UNCHANGED <<conf, up, inbox, io, lock, t, hb, extra, synced, w, done, fate>>
      /\ mem' = [mem EXCEPT !.open = TRUE] /\ TypeOK
  BY DEF WindowOpens, IInv
<1>2. MemType' /\ WatcherType' /\ HeartType' /\ lock' \in {"nobody", "thread", "watcher"}
  BY <1>1 DEF TypeOK, MemType, WatcherType, HeartType, RestType
<1>3. OwnerInv' /\ HeartInv'
  BY <1>1 DEF IInv, OwnerInv, HeartInv
<1> QED
  BY <1>1, <1>2, <1>3, WatcherOnlyKeeps

\* A change of the watcher's place that neither revokes nor ends it.
LEMMA WatcherMoves ==
  ASSUME IInv, UNCHANGED <<conf, up, inbox, io, t, hb, extra, synced, mem, done, fate>>,
         lock' \in {"nobody", "thread", "watcher"}, WatcherType', w'.revoked = w.revoked,
         w.pc \in {"wait", "trylock", "reread"}, w'.pc \in {"wait", "trylock", "reread"},
         w'.pc = "wait" \/ hb[1]
  PROVE  IInv'
<1>1. HeartType' /\ MemType'
  BY DEF IInv, TypeOK, HeartType, MemType
<1>2. OwnerInv' /\ HeartInv'
  BY DEF IInv, OwnerInv, HeartInv
<1> QED
  BY <1>1, <1>2, WatcherOnlyKeeps

\* WatcherDone keeps the invariant.
LEMMA WatcherDoneKeeps ==
  ASSUME IInv, WatcherDone
  PROVE  IInv'
<1>1. /\ UNCHANGED <<conf, up, inbox, io, lock, t, hb, extra, synced, mem, done, fate>>
      /\ w.pc = "wait" /\ done # "none" /\ w' = [w EXCEPT !.pc = "returned"] /\ TypeOK
  BY DEF WatcherDone, IInv
<1>2. WatcherType' /\ w'.pc = "returned" /\ w'.revoked = w.revoked
  BY <1>1 DEF TypeOK, WatcherType
<1>3. MemType' /\ HeartType' /\ lock' \in {"nobody", "thread", "watcher"}
  BY <1>1 DEF TypeOK, MemType, HeartType, RestType
<1>4. OwnerInv' /\ HeartInv'
  BY <1>1, <1>2 DEF IInv, OwnerInv, HeartInv, PastTake
<1> QED
  BY <1>1, <1>2, <1>3, <1>4, WatcherOnlyKeeps

\* Signal keeps the invariant.
LEMMA SignalKeeps ==
  ASSUME IInv, Signal
  PROVE  IInv'
<1>1. /\ UNCHANGED <<conf, up, inbox, io, lock, t, hb, extra, synced, mem, done, fate>>
      /\ w.pc = "wait" /\ w' = [w EXCEPT !.sig = 0] /\ TypeOK
  BY DEF Signal, IInv
<1>2. WatcherType' /\ w'.pc = w.pc /\ w'.revoked = w.revoked
  BY <1>1 DEF TypeOK, WatcherType
<1>3. lock' \in {"nobody", "thread", "watcher"}
  BY <1>1 DEF TypeOK, RestType
<1> QED
  BY <1>1, <1>2, <1>3, WatcherMoves

\* Ages are natural numbers.
LEMMA OlderType ==
  ASSUME NEW age \in Nat, NEW threshold \in Nat
  PROVE  Older(age, threshold) \in Nat
BY DEF Older

\* Tick keeps the invariant: a read of a later value forgets the values before it.
LEMMA TickKeeps ==
  ASSUME IInv, Tick
  PROVE  IInv'
<1>0. /\ TypeOK /\ w.pc = "wait"
      /\ UNCHANGED <<conf, up, inbox, io, lock, t, extra, mem, done, fate>>
  BY DEF Tick, IInv
<1>1. PICK v \in 1..Len(hb) : TickReading(v)
  BY DEF Tick
<1> DEFINE sig == IF Signalled THEN Older(w.sig, GraceTicks) ELSE NoSignal
           quiet == Older(w.quiet, LongerThreshold)
           stalled == w.stalled \/ quiet >= StallTicks
<1>2. sig \in Nat \cup {NoSignal} /\ quiet \in Nat /\ stalled \in BOOLEAN
  <2>1. w.sig \in Nat \cup {NoSignal} /\ w.quiet \in Nat /\ w.stalled \in BOOLEAN
    BY <1>0 DEF TypeOK, WatcherType
  <2>2. GraceTicks \in Nat /\ LongerThreshold \in Nat
    BY LuaAssumption DEF LongerThreshold
  <2>3. quiet \in Nat
    BY <2>1, <2>2, OlderType
  <2>4. sig \in Nat \cup {NoSignal}
    BY <2>1, <2>2, OlderType DEF Signalled
  <2> HIDE DEF quiet
  <2>5. stalled \in BOOLEAN
    BY <2>1
  <2> QED
    BY <2>3, <2>4, <2>5
<1>3. \/ /\ v > 1 /\ w' = [w EXCEPT !.quiet = 0, !.sig = sig, !.stalled = FALSE]
         /\ hb' = SubSeq(hb, v, Len(hb))
         /\ synced' = IF synced > v THEN synced - v + 1 ELSE 1
      \/ w' = [w EXCEPT !.sig = sig] /\ UNCHANGED <<hb, synced>>
      \/ \E pc \in {"trylock", "wait"} :
           /\ hb[1] /\ UNCHANGED <<hb, synced>>
           /\ w' = [w EXCEPT !.quiet = quiet, !.sig = sig, !.stalled = stalled, !.pc = pc]
  BY <1>1 DEF TickReading
<1> HIDE DEF sig, quiet, stalled
<1>4. lock' \in {"nobody", "thread", "watcher"} /\ w \in [pc : {"wait", "trylock", "reread", "sweep", "returned"},
        quiet : Nat, sig : Nat \cup {NoSignal}, stalled : BOOLEAN, revoked : BOOLEAN]
  BY <1>0 DEF TypeOK, RestType, WatcherType
<1>5. CASE w' = [w EXCEPT !.sig = sig] /\ UNCHANGED <<hb, synced>>
  <2>1. WatcherType' /\ w'.pc = w.pc /\ w'.revoked = w.revoked
    BY <1>2, <1>4, <1>5 DEF WatcherType
  <2> QED
    BY <1>0, <1>4, <1>5, <2>1, WatcherMoves
<1>6. ASSUME NEW pc \in {"trylock", "wait"}, hb[1], UNCHANGED <<hb, synced>>,
             w' = [w EXCEPT !.quiet = quiet, !.sig = sig, !.stalled = stalled, !.pc = pc]
      PROVE  IInv'
  <2>1. WatcherType' /\ w'.pc = pc /\ w'.revoked = w.revoked
    BY <1>2, <1>4, <1>6 DEF WatcherType
  <2> QED
    BY <1>0, <1>4, <1>6, <2>1, WatcherMoves
<1>7. CASE /\ v > 1 /\ w' = [w EXCEPT !.quiet = 0, !.sig = sig, !.stalled = FALSE]
           /\ hb' = SubSeq(hb, v, Len(hb))
           /\ synced' = IF synced > v THEN synced - v + 1 ELSE 1
  <2>1. WatcherType' /\ w'.pc = w.pc /\ w'.revoked = w.revoked
    BY <1>2, <1>4, <1>7 DEF WatcherType
  <2>2. hb \in Seq(BOOLEAN) /\ Len(hb) \in Nat /\ synced \in 1..Len(hb) /\ extra \in 0..MaxExtra
    BY <1>0 DEF TypeOK, HeartType
  <2>3. /\ hb' \in Seq(BOOLEAN) /\ Len(hb') = Len(hb) - v + 1
        /\ hb'[Len(hb')] = hb[Len(hb)]
    <3>1. hb' = SubSeq(hb, (v - 1) + 1, Len(hb)) /\ v - 1 \in 0..Len(hb)
      <4>1. (v - 1) + 1 = v /\ v - 1 \in 0..Len(hb)
        BY <1>1, <2>2
      <4> QED
        BY <1>7, <4>1
    <3>2. /\ hb' \in Seq(BOOLEAN) /\ Len(hb') = Len(hb) - (v - 1)
          /\ \A i \in 1..(Len(hb) - (v - 1)) : hb'[i] = hb[i + (v - 1)]
      BY <2>2, <3>1, RestFacts
    <3> QED
      BY <1>1, <2>2, <3>2
  <2>4. HeartType' /\ MemType'
    <3>1. Len(hb') \in Nat /\ Len(hb') >= 1
      BY <1>1, <2>2, <2>3
    <3>2. synced' \in 1..Len(hb')
      <4>1. CASE synced > v
        <5>1. synced' = synced - v + 1
          BY <1>7, <4>1
        <5> QED
          BY <1>1, <2>2, <2>3, <4>1, <5>1
      <4>2. CASE ~(synced > v)
        BY <1>7, <3>1, <4>2
      <4> QED
        BY <4>1, <4>2
    <3>3. MemType'
      BY <1>0 DEF TypeOK, MemType
    <3> QED
      BY <1>0, <2>2, <2>3, <3>1, <3>2, <3>3 DEF HeartType
  <2>5. synced = Len(hb) => synced' = Len(hb')
    BY <1>1, <1>7, <2>2, <2>3
  <2>6. OwnerInv' /\ HeartInv'
    BY <1>0, <2>1, <2>3, <2>5 DEF IInv, OwnerInv, HeartInv
  <2> QED
    BY <1>0, <1>4, <2>1, <2>4, <2>6, WatcherOnlyKeeps
<1> QED
  BY <1>3, <1>5, <1>6, <1>7

\* TryLock keeps the invariant.
LEMMA TryLockKeeps ==
  ASSUME IInv, TryLock
  PROVE  IInv'
<1>0. /\ TypeOK /\ w.pc = "trylock" /\ hb[1]
      /\ UNCHANGED <<conf, up, inbox, io, t, hb, extra, synced, mem, done, fate>>
  BY DEF TryLock, IInv, HeartInv
<1>1. PICK pc \in {"reread", "wait"} : w' = [w EXCEPT !.pc = pc]
  BY DEF TryLock
<1>2. lock' \in {"nobody", "thread", "watcher"}
  BY <1>0 DEF TryLock, TypeOK, RestType
<1>3. WatcherType' /\ w'.pc = pc /\ w'.revoked = w.revoked
  BY <1>0, <1>1 DEF TypeOK, WatcherType
<1> QED
  BY <1>0, <1>2, <1>3, WatcherMoves

\* Reread keeps the invariant: it revokes no thread that took its LuaIo back.
LEMMA RereadKeeps ==
  ASSUME IInv, Reread
  PROVE  IInv'
<1>0. /\ TypeOK /\ w.pc = "reread" /\ lock' = "nobody" /\ hb[1]
      /\ UNCHANGED <<conf, up, t, hb, extra, synced, mem, done, fate>>
  BY DEF Reread, IInv, HeartInv
<1>1. PICK progress \in SeesProgress :
         IF progress
         THEN w' = [w EXCEPT !.pc = "wait"] /\ UNCHANGED <<io, inbox>>
         ELSE /\ io' = "taken"
              /\ w' = [w EXCEPT !.pc = IF io = "there" THEN "sweep" ELSE "returned",
                                !.revoked = TRUE]
              /\ inbox' = [inbox EXCEPT !.state = IF io = "there" THEN "closed" ELSE @]
  BY DEF Reread
<1>2. CASE progress
  <2>1. w' = [w EXCEPT !.pc = "wait"] /\ UNCHANGED <<io, inbox>>
    BY <1>1, <1>2
  <2>2. WatcherType' /\ w'.pc = "wait" /\ w'.revoked = w.revoked
    BY <1>0, <2>1 DEF TypeOK, WatcherType
  <2> QED
    BY <1>0, <2>1, <2>2, WatcherMoves
<1>3. CASE ~progress
  <2>1. synced = 1
    <3>1. PICK v \in synced..Len(hb) : progress = (v # 1)
      BY <1>1 DEF SeesProgress
    <3> QED
      BY <1>0, <1>3, <3>1 DEF TypeOK, HeartType
  <2>2. t.pc \notin PastTake
    <3>1. t.pc \in PastTake => hb[Len(hb)] = hb[1] /\ ~hb[Len(hb)]
      BY <2>1 DEF IInv, HeartInv
    <3> QED
      BY <1>0, <3>1
  <2>3. ~w.revoked /\ io = "there"
    BY <1>0, <2>2 DEF IInv, OwnerInv, TypeOK, RestType
  <2>4. /\ io' = "taken" /\ w' = [w EXCEPT !.pc = "sweep", !.revoked = TRUE]
        /\ inbox' = [inbox EXCEPT !.state = "closed"]
    BY <1>1, <1>3, <2>3
  <2>5. WatcherType' /\ w'.pc = "sweep" /\ w'.revoked
    BY <1>0, <2>4 DEF TypeOK, WatcherType
  <2>6. EdgeType' /\ inbox'.q = inbox.q /\ inbox'.state = "closed"
    BY <1>0, <2>4 DEF TypeOK, EdgeType
  <2>7. UNCHANGED <<ThreadType, HeartType, MemType, FateType, PermitInv, OnceInv, HandInv>> /\ RestType'
    BY <1>0, <2>4 DEF TypeOK, ThreadType, HeartType, MemType, FateType, PermitInv, OnceInv, HandInv, RestType
  <2>8. PlaceInv' /\ OrderInv'
    BY <1>0, <2>6 DEF IInv, PlaceInv, OrderInv, Queued, InHand, Hands, IsSettled
  <2>9. CloseInv'
    BY <1>0, <2>4, <2>6 DEF IInv, CloseInv, Closing
  <2>10. OwnerInv'
    BY <1>0, <2>2, <2>4, <2>5, <2>6 DEF IInv, OwnerInv, PastTake
  <2>11. HeartInv'
    BY <1>0, <2>5 DEF IInv, HeartInv
  <2> QED
    BY <1>0, <2>5, <2>6, <2>7, <2>8, <2>9, <2>10, <2>11 DEF IInv, TypeOK
<1> QED
  BY <1>2, <1>3

\* WatcherSweeps keeps the invariant.
LEMMA WatcherSweepsKeeps ==
  ASSUME IInv, WatcherSweeps
  PROVE  IInv'
<1>0. TypeOK /\ w.pc = "sweep" /\ UNCHANGED <<conf, up, io, lock, t, hb, extra, synced, mem, done>>
  BY DEF WatcherSweeps, IInv
<1>1. CASE SweepRecv /\ UNCHANGED w
  BY <1>0, <1>1, SweepRecvKeeps
<1>2. CASE SweepDone /\ w' = [w EXCEPT !.pc = "returned"]
  <2>0. inbox.q = <<>> /\ inbox' = [inbox EXCEPT !.state = "gone"] /\ UNCHANGED fate
    BY <1>2 DEF SweepDone
  <2>1. WatcherType' /\ w'.pc = "returned" /\ w'.revoked = w.revoked
    BY <1>0, <1>2 DEF TypeOK, WatcherType
  <2>2. EdgeType' /\ inbox'.q = inbox.q /\ inbox'.state = "gone"
    BY <1>0, <2>0 DEF TypeOK, EdgeType
  <2>3. UNCHANGED <<ThreadType, HeartType, MemType, FateType, RestType, PermitInv, OnceInv, HandInv>>
    BY <1>0, <2>0 DEF ThreadType, HeartType, MemType, FateType, RestType, PermitInv, OnceInv, HandInv
  <2>4. PlaceInv' /\ OrderInv'
    BY <1>0, <2>0, <2>2 DEF IInv, PlaceInv, OrderInv, Queued, InHand, Hands, IsSettled
  <2>5. CloseInv'
    BY <1>0, <2>2 DEF IInv, CloseInv, Closing
  <2>6. OwnerInv'
    BY <1>0, <2>0, <2>1, <2>2 DEF IInv, OwnerInv, PastTake
  <2>7. HeartInv'
    BY <1>0, <2>1 DEF IInv, HeartInv
  <2> QED
    BY <1>0, <2>1, <2>2, <2>3, <2>4, <2>5, <2>6, <2>7 DEF IInv, TypeOK
<1> QED
  BY <1>1, <1>2 DEF WatcherSweeps

-----------------------------------------------------------------------------
(* The theorems. *)

\* The invariant holds initially.
LEMMA InitIInv == Init => IInv
<1> SUFFICES ASSUME Init PROVE IInv
  OBVIOUS
<1>1. ThreadType /\ HeartType /\ MemType /\ WatcherType
  BY LuaAssumption DEF Init, ThreadType, HeartType, MemType, WatcherType, InLoop, InTail, Outcomes, NoSignal
<1>2. EdgeType /\ FateType /\ RestType
  BY LuaAssumption DEF Init, EdgeType, FateType, RestType
<1>3. PermitInv /\ OrderInv
  BY DEF Init, PermitInv, OrderInv, Ascending
<1>4. PlaceInv /\ OnceInv
  BY DEF Init, PlaceInv, OnceInv, Queued, InHand, Hands, IsSettled, Batches
<1>5. HandInv /\ CloseInv
  BY DEF Init, HandInv, CloseInv, Closing, InLoop
<1>6. OwnerInv /\ HeartInv
  BY DEF Init, OwnerInv, HeartInv, PastTake
<1> QED
  BY <1>1, <1>2, <1>3, <1>4, <1>5, <1>6 DEF IInv, TypeOK

\* A stuttering step keeps the invariant.
LEMMA StutterKeeps ==
  ASSUME IInv, UNCHANGED vars
  PROVE  IInv'
BY DEF IInv, TypeOK, ThreadType, HeartType, MemType, WatcherType, EdgeType, FateType, RestType,
       PermitInv, OrderInv, PlaceInv, OnceInv, HandInv, CloseInv, OwnerInv, HeartInv, Closing,
       Queued, InHand, Hands, IsSettled, vars

\* Every step of the thread, the script, the watcher and the upstream edge keeps
\* the invariant.
THEOREM Inductive == IInv /\ [Next]_vars => IInv'
<1> SUFFICES ASSUME IInv, [Next]_vars PROVE IInv'
  OBVIOUS
<1>1. CASE FlushDue \/ WindowOpens \/ Signal \/ Tick
  BY <1>1, FlushDueKeeps, WindowOpensKeeps, SignalKeeps, TickKeeps
<1>2. CASE ThreadRuns
  BY <1>2, DeferredVerdictKeeps, ToRecvKeeps, RecvKeeps, WaitElapsesKeeps, InboxClosesKeeps,
     CheckAtCloseKeeps, ToSendKeeps, SendReturnsKeeps, CheckKeeps, LeaveAtExitKeeps,
     TakeLeftoverKeeps, ReportKeeps, ThreadSweepsKeeps DEF ThreadRuns
<1>3. CASE ScriptRuns
  BY <1>3, HeartbeatTickKeeps, PassEndsKeeps, FlushReturnsKeeps, PanicInCallKeeps, PanicInSendKeeps
     DEF ScriptRuns
<1>4. CASE WatcherRuns
  BY <1>4, WatcherDoneKeeps, TryLockKeeps, RereadKeeps, WatcherSweepsKeeps DEF WatcherRuns
<1>5. CASE Upstream
  BY <1>5, ReserveKeeps, SendPermitKeeps, HangUpKeeps DEF Upstream
<1>6. CASE Terminated \/ UNCHANGED vars
  BY <1>6, StutterKeeps DEF Terminated
<1> QED
  BY <1>1, <1>2, <1>3, <1>4, <1>5, <1>6 DEF Next

\* IInv is an invariant of the node.
THEOREM InvariantHolds == Spec => []IInv
BY InitIInv, Inductive, PTL DEF Spec

\* The places of a batch, counted.
LEMMA InvariantCounts == IInv => EveryBatchCounted
<1> SUFFICES ASSUME IInv PROVE EveryBatchCounted
  OBVIOUS
<1>1. ASSUME NEW b \in Batches, b < up.next PROVE Places(b) = 1
  <2>1. Len(fate[b]) = IF IsSettled(b) THEN 1 ELSE 0
    <3>1. fate[b] \in Seq({"counted", "lost"}) /\ Len(fate[b]) <= 1
      BY DEF IInv, TypeOK, FateType, OnceInv
    <3> QED
      BY <3>1 DEF IsSettled
  <2>2. b # 0 /\ (InHand(b) <=> b \in {t.batch, t.dests} \/ t.held = b)
    BY DEF InHand, Hands, Batches
  <2>3. InHand(b) <=> b \in {t.batch, t.dests} \/ (t.outcome # "running" /\ t.held = b)
    BY <2>2 DEF IInv, HandInv, InLoop
  <2>4. Places(b) = (IF IsSettled(b) THEN 1 ELSE 0) + (IF Queued(b) THEN 1 ELSE 0)
                      + (IF InHand(b) THEN 1 ELSE 0)
    BY <2>1, <2>3 DEF Places, Queued
  <2>5. /\ IsSettled(b) \/ Queued(b) \/ InHand(b)
        /\ IsSettled(b) => ~Queued(b) /\ ~InHand(b)
        /\ Queued(b) => ~InHand(b)
    BY <1>1 DEF IInv, PlaceInv
  <2> QED
    BY <2>4, <2>5
<1>2. ASSUME w.pc = "returned" PROVE inbox = [q |-> <<>>, state |-> "gone"]
  <2>1. inbox.state = "gone" /\ inbox.q = <<>>
    BY <1>2 DEF IInv, OwnerInv
  <2> QED
    BY <2>1 DEF IInv, TypeOK, EdgeType
<1>3. ASSUME w.pc = "returned", NEW b \in Batches, b < up.next, fate[b] = <<>>
      PROVE  w.revoked /\ t.pc # "ended"
  <2>1. inbox.q = <<>>
    BY <1>2, <1>3 DEF IInv, OwnerInv
  <2>2. InHand(b)
    BY <1>3, <2>1 DEF IInv, PlaceInv, IsSettled, Queued
  <2>3. t.pc # "ended"
    BY <2>2 DEF IInv, HandInv, InHand, Hands
  <2> QED
    BY <1>3, <2>3 DEF IInv, OwnerInv, TypeOK, WatcherType
<1> QED
  BY <1>1, <1>2, <1>3 DEF EveryBatchCounted

\* Every batch the upstream handed a Lua node is in one place or settled once,
\* however a panic, a verdict, the thread's end and a revoke interleave, and a
\* watcher that returns leaves nothing but what a thread it gave up on holds
\* (run_lua, watch_lua_thread, revoke_lua_io).
THEOREM CountsEveryBatch == Spec => []EveryBatchCounted
BY InvariantHolds, InvariantCounts, PTL

=============================================================================
