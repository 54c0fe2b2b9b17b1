---------------------------- MODULE SinkDelivery ----------------------------
(***************************************************************************)
(* One sink node: crates/logit-pipeline/src/runtime.rs run_output, with its  *)
(* two halves drain_inbox and write_loop, over a SinkStore (queue.rs) and an *)
(* Output (output.rs).                                                      *)
(*                                                                          *)
(* Both halves run in one task, so a step is what one poll does between two  *)
(* awaits.  The sink and its destination are external: every answer the      *)
(* Output contract allows may come, and `landed` records what the            *)
(* destination really applied.  The store is seen as a sequence bounded by a *)
(* batch count; BoundedQueue models its insides.                            *)
(***************************************************************************)
EXTENDS Integers, Sequences, SequencesExt

CONSTANTS
  NBatches,    \* bound: batches upstream has to send, numbered from 1
  InboxCap,    \* capacity of the node's inbox channel
  MaxQueued,   \* the store's bound, in batches
  Wide,        \* the window of a sink that negotiated one
  MaxFaults,   \* bound: failed calls of the sink or the disk
  Kinds,       \* stores explored: "memory", "disk"
  Postures,    \* delivery postures explored
  Policies,    \* overflow policies explored
  Sinks        \* sinks explored: "single", "windowed", "collecting"

ASSUME SinkAssumption ==
  /\ NBatches \in Nat /\ MaxFaults \in Nat
  /\ InboxCap \in Nat \ {0} /\ MaxQueued \in Nat \ {0} /\ Wide \in Nat \ {0}
  /\ Kinds \subseteq {"memory", "disk"}
  /\ Postures \subseteq {"at_least_once", "at_most_once"}
  /\ Policies \subseteq {"block", "drop_oldest", "drop_newest"}
  /\ Sinks \subseteq {"single", "windowed", "collecting"}

VARIABLES
  conf,      \* [kind, posture, policy, sink], fixed by the configuration
  next,      \* the number of the batch upstream sends next
  permit,    \* upstream holds a reserved slot of the inbox
  hungUp,    \* every sender of the inbox is gone
  inbox,     \* batches in the channel
  dpc,       \* drain_inbox: "recv", "push", "done"
  inHand,    \* the batch drain_inbox is pushing, as a sequence of at most one
  items,     \* the store, the head first
  reserved,  \* how many items from the head peek and peek_at reserved
  closed,    \* the store is closed
  wpc,       \* write_loop: where it is
  fast,      \* the head takes the send path
  owedArm,   \* the grace arm is off: the round reads answers a closed window owes
  resubmit,  \* deliver_window's resubmit_head
  fl,        \* InFlight: [out, observed, collecting, closed]
  snk,       \* the sink: [win, sub, full, visible, owed]
  grace,     \* "none", "signalled", "anchored", "expired"
  rpc,       \* run_output: "run", "parked", "sweep", "finish", "done"
  abandoned, \* batches the sweep found and a memory store cannot take
  received, delivered, dropped, strayed,   \* what is counted, and what cannot be
  landed,    \* how often the destination applied each batch
  seen,      \* how often each batch was observed
  exposed,   \* batches that may have reached the destination
  faults     \* failed calls so far

upVars   == <<next, permit, hungUp>>
drainVars == <<dpc, inHand>>
storeVars == <<items, reserved, closed>>
loopVars == <<wpc, fast, owedArm, resubmit, fl>>
countVars == <<received, delivered, dropped, strayed>>
ghostVars == <<landed, seen, exposed>>
vars == <<conf, upVars, inbox, drainVars, storeVars, loopVars, snk, grace, rpc, abandoned,
          countVars, ghostVars, faults>>

Batch == 1..NBatches
Reasons == {"overflow_oldest", "overflow_newest", "disk_error", "rejected",
            "ambiguous_at_most_once", "shutdown"}
Faults == {"clean", "ambiguous", "rejected", "refused"}
Unbounded == NBatches + MaxQueued + Wide   \* usize::MAX

AtMostOnce == conf.posture = "at_most_once"
Memory == conf.kind = "memory"
Sub1(n) == IF n = 0 THEN 0 ELSE n - 1      \* saturating_sub(1)

-----------------------------------------------------------------------------
(* Upstream: Fanout reserves a slot of the channel, then sends into it. *)

Reserve ==
  /\ ~permit /\ ~hungUp /\ next <= NBatches
  /\ rpc = "run"
  /\ Len(inbox) < InboxCap
  /\ permit' = TRUE
  /\ UNCHANGED <<conf, next, hungUp, inbox, drainVars, storeVars, loopVars, snk, grace, rpc,
                 abandoned, countVars, ghostVars, faults>>

\* A permit reserved before the inbox closed still delivers, until the receiver
\* is gone.
Send ==
  /\ permit
  /\ permit' = FALSE
  /\ next' = next + 1
  /\ IF rpc \in {"run", "parked", "sweep"}
     THEN inbox' = Append(inbox, next) /\ UNCHANGED strayed
     ELSE strayed' = strayed \cup {next} /\ UNCHANGED inbox
  /\ UNCHANGED <<conf, hungUp, drainVars, storeVars, loopVars, snk, grace, rpc, abandoned,
                 received, delivered, dropped, ghostVars, faults>>

HangUp ==
  /\ ~permit /\ ~hungUp
  /\ hungUp' = TRUE
  /\ UNCHANGED <<conf, next, permit, inbox, drainVars, storeVars, loopVars, snk, grace, rpc,
                 abandoned, countVars, ghostVars, faults>>

-----------------------------------------------------------------------------
(* The store, as SinkStore presents it. *)

Full == Len(items) >= MaxQueued

\* A push that waits: block, no room, and nobody closed the store.
PushWaits == conf.policy = "block" /\ Full /\ ~closed

\* A push that drops the batch itself.  A disk spool evicts nothing behind a
\* record that was read ahead.
PushRejects ==
  /\ Full
  /\ \/ conf.policy = "drop_newest" /\ (Memory \/ ~closed)
     \/ conf.policy = "drop_oldest" /\ ~Memory /\ ~closed /\ reserved > 0

\* How many items past the reserved prefix a push that does not wait evicts.
Evicts ==
  LET over == Len(items) + 1 - MaxQueued
      free == Len(items) - reserved
  IN  IF ~Full \/ (~Memory /\ (closed \/ conf.policy = "block")) THEN 0
      ELSE IF over < free THEN over ELSE free

Drop(reason, bs) == dropped' = [dropped EXCEPT ![reason] = @ \cup bs]

\* SinkStore::push of b, once it need not wait; a disk write may fail.
StorePush(b) ==
  \/ /\ PushRejects
     /\ Drop("overflow_newest", {b})
     /\ UNCHANGED <<storeVars, faults>>
  \/ /\ ~PushRejects
     /\ items' = SubSeq(items, 1, reserved) \o SubSeq(items, reserved + Evicts + 1, Len(items))
                   \o <<b>>
     /\ Drop("overflow_oldest", {items[reserved + i] : i \in 1..Evicts})
     /\ UNCHANGED <<reserved, closed, faults>>
  \/ /\ ~PushRejects /\ ~Memory /\ faults < MaxFaults
     /\ faults' = faults + 1
     /\ Drop("disk_error", {b})
     /\ UNCHANGED storeVars

\* The items that k calls of commit return; on an empty store it returns None.
First(k) == {items[i] : i \in (1..k) \cap DOMAIN items}

\* What is left of the store after its first k items are committed.
Committed(k) ==
  /\ items' = SubSeq(items, k + 1, Len(items))
  /\ reserved' = IF reserved > k THEN reserved - k ELSE 0
  /\ UNCHANGED closed

-----------------------------------------------------------------------------
(* drain_inbox. *)

DrainRecv ==
  /\ rpc = "run" /\ dpc = "recv" /\ inbox # <<>>
  /\ inHand' = <<Head(inbox)>>
  /\ inbox' = Tail(inbox)
  /\ received' = received \cup {Head(inbox)}
  /\ dpc' = "push"
  /\ UNCHANGED <<conf, upVars, storeVars, loopVars, snk, grace, rpc, abandoned, delivered,
                 dropped, strayed, ghostVars, faults>>

DrainPush ==
  /\ rpc = "run" /\ dpc = "push" /\ ~PushWaits
  /\ StorePush(Head(inHand))
  /\ inHand' = <<>>
  /\ dpc' = "recv"
  /\ UNCHANGED <<conf, upVars, inbox, loopVars, snk, grace, rpc, abandoned, received, delivered,
                 strayed, ghostVars>>

\* The inbox is closed and drained: the store closes, which ends the write loop.
DrainDone ==
  /\ rpc = "run" /\ dpc = "recv" /\ inbox = <<>> /\ hungUp
  /\ closed' = TRUE
  /\ dpc' = "done"
  /\ UNCHANGED <<conf, upVars, inbox, inHand, items, reserved, loopVars, snk, grace, rpc,
                 abandoned, countVars, ghostVars, faults>>

-----------------------------------------------------------------------------
(* The sink's side of the Output contract, which the write loop relies on. *)

\* Output::window.
Window ==
  CASE conf.sink = "single" -> 1
    [] conf.sink = "windowed" -> snk.win
    [] conf.sink = "collecting" ->
         IF snk.owed > 0 THEN snk.owed ELSE IF snk.full THEN Len(snk.sub) ELSE Unbounded

\* The windows a connection made or lost by a call may leave.
Windows == IF conf.sink = "windowed" THEN {1, Wide} ELSE {1}

\* Output::reached_destination.
Reached(n) == IF conf.sink = "collecting" /\ ~snk.visible THEN 0 ELSE n

\* The batches that may be applied although their call failed or was cut.
AtRisk(bs) == IF conf.sink = "collecting" /\ ~snk.visible THEN {} ELSE bs

Land(bs) == landed' = [b \in Batch |-> landed[b] + IF b \in bs THEN 1 ELSE 0]

\* A collecting sink's call is ambiguous only once its request is out.
MayAnswer(f) == f = "ambiguous" => conf.sink # "collecting" \/ snk.visible

\* A fault other than ambiguous says that nothing was applied.
LandsUnder(f, bs) ==
  /\ MayAnswer(f)
  /\ \E applied \in SUBSET bs : (f # "ambiguous" => applied = {}) /\ Land(applied)

-----------------------------------------------------------------------------
(* write_loop: what an outcome does to the window and the store. *)

HeadItem == items[1]

IsRetryable(f) == f \in {"clean", "refused"} \/ (f = "ambiguous" /\ ~AtMostOnce)

DropReason(f) == IF f = "ambiguous" THEN "ambiguous_at_most_once" ELSE "rejected"

SettleKeepsOut(w) == [w EXCEPT !.observed = Sub1(@)]
\* InFlight::settle_head with the commit's observed.
SettleHead(w) ==
  [w EXCEPT !.out = Sub1(@), !.observed = Sub1(@),
            !.closed = IF Sub1(w.out) = 0 THEN FALSE ELSE @]

CutKeepsOut(w) == [w EXCEPT !.collecting = FALSE, !.closed = FALSE]
\* InFlight::cut.
Cut(w) == [w EXCEPT !.out = 0, !.collecting = FALSE, !.closed = FALSE]

InFlightLimit == IF Memory THEN MaxQueued ELSE Unbounded

OwedRound == fl.closed /\ Window # Unbounded

\* Output::observe_batch for b.
Observe(b) == seen' = [seen EXCEPT ![b] = @ + 1]

\* How many of the store's first items a drop for fault f commits: the head, and
\* under at-most-once all that an ambiguous connection-level fault left open.
DropsWith(f, headOnly, atFault) ==
  IF ~fast /\ ~headOnly /\ f = "ambiguous" /\ atFault > 0 THEN atFault ELSE 1

\* Delivery::Delivered.
HeadDelivered ==
  /\ Committed(1)
  /\ fl' = SettleHead(fl)
  /\ delivered' = Append(delivered, HeadItem)
  /\ wpc' = "peek"
  /\ UNCHANGED <<fast, owedArm, resubmit, received, dropped, strayed>>

\* A failed attempt or round that left the window w: a backoff, or
\* Delivery::Dropped, which commits the drop.
Failed(f, headOnly, atFault, w) ==
  /\ faults < MaxFaults /\ faults' = faults + 1
  /\ \/ /\ IsRetryable(f)
        /\ wpc' = "backoff"
        /\ resubmit' = headOnly
        /\ fl' = w
        /\ UNCHANGED <<storeVars, dropped>>
     \/ /\ ~IsRetryable(f)
        /\ LET n == DropsWith(f, headOnly, atFault) IN
             /\ Committed(n)
             /\ Drop(DropReason(f), First(n))
             /\ fl' = [SettleHead(w) EXCEPT !.observed = IF w.observed > n THEN w.observed - n ELSE 0]
        /\ wpc' = "peek"
        /\ UNCHANGED resubmit
  /\ UNCHANGED <<fast, owedArm, received, delivered, strayed>>

DropsUnderEither(n) == Reached(n)
\* drop_cut_off_at_shutdown drops under at-most-once what may have been applied.
DropsCutOff(n) == IF AtMostOnce THEN Reached(n) ELSE 0

\* write_loop returns at the grace with n batches out of the process; bs are
\* the ones still at the sink or in the cut call.
GiveUp(n, bs) ==
  /\ LET k == DropsCutOff(n) IN
       /\ Committed(k)
       /\ Drop("shutdown", First(k))
  /\ wpc' = "gone"
  /\ \E applied \in SUBSET AtRisk(bs) : Land(applied)
  /\ snk' = [snk EXCEPT !.sub = <<>>]
  /\ UNCHANGED <<fast, owedArm, resubmit, fl, received, delivered, strayed, seen, exposed, faults>>

-----------------------------------------------------------------------------
(* write_loop: the steps. *)

outside == <<conf, upVars, inbox, drainVars, grace, rpc, abandoned>>

FastIgnoresObserved == fl.out = 0 /\ Window <= 1
IsFast == fl.out = 0 /\ fl.observed = 0 /\ Window <= 1

\* peek returns the head, which chooses its path; the send path observes it.
PeekHead ==
  /\ wpc = "peek" /\ items # <<>>
  /\ reserved' = IF reserved = 0 THEN 1 ELSE reserved
  /\ owedArm' = OwedRound
  /\ fast' = IsFast
  /\ IF IsFast THEN Observe(HeadItem) /\ wpc' = "attempt"
               ELSE wpc' = "round" /\ UNCHANGED seen
  /\ resubmit' = FALSE
  /\ UNCHANGED <<outside, items, closed, fl, snk, countVars, landed, exposed, faults>>

\* peek returns None: closed and empty.
PeekClosed ==
  /\ wpc = "peek" /\ items = <<>> /\ closed
  /\ wpc' = "gone"
  /\ UNCHANGED <<outside, storeVars, fast, owedArm, resubmit, fl, snk, countVars, ghostVars, faults>>

\* The peek's select! takes the grace arm, which is on unless answers are owed.
PeekExpired ==
  /\ wpc = "peek" /\ grace = "expired" /\ ~OwedRound
  /\ GiveUp(fl.out, ToSet(snk.sub))
  /\ UNCHANGED outside

\* deliver_with_retry starts an attempt, unless the grace is over.
Attempt ==
  /\ wpc = "attempt"
  /\ \/ /\ grace = "expired"
        /\ GiveUp(fl.out, {})
     \/ /\ grace # "expired"
        /\ wpc' = "sending"
        /\ exposed' = exposed \cup {HeadItem}
        /\ UNCHANGED <<storeVars, fast, owedArm, resubmit, fl, snk, countVars, landed, seen,
                       faults>>
  /\ UNCHANGED outside

\* Output::send returns.
SendReturns ==
  /\ wpc = "sending"
  /\ \E w \in Windows : snk' = [snk EXCEPT !.win = w]
  /\ \/ /\ HeadDelivered
        /\ Land({HeadItem})
        /\ UNCHANGED faults
     \/ \E f \in Faults : Failed(f, FALSE, 0, fl) /\ LandsUnder(f, {HeadItem})
  /\ UNCHANGED <<outside, seen, exposed>>

BackoffOver ==
  /\ wpc = "backoff"
  /\ wpc' = IF fast THEN "attempt" ELSE "round"
  /\ UNCHANGED <<outside, storeVars, fast, owedArm, resubmit, fl, snk, countVars, ghostVars, faults>>

\* deliver_window starts a round, unless the grace is over and no answer is owed.
Round ==
  /\ wpc = "round"
  /\ \/ /\ grace = "expired" /\ ~OwedRound
        /\ GiveUp(fl.out, ToSet(snk.sub))
     \/ /\ grace # "expired" \/ OwedRound
        /\ IF resubmit /\ fl.out > 0
           THEN wpc' = "resubmitting" /\ exposed' = exposed \cup {HeadItem}
           ELSE wpc' = "fill" /\ UNCHANGED exposed
        /\ UNCHANGED <<storeVars, fast, owedArm, resubmit, fl, snk, countVars, landed, seen,
                       faults>>
  /\ UNCHANGED outside

\* The head's resubmit after its own retryable fault returns.
ResubmitReturns ==
  /\ wpc = "resubmitting"
  /\ \/ /\ wpc' = "fill"
        /\ snk' = [snk EXCEPT !.sub = <<HeadItem>> \o @]
        /\ UNCHANGED <<storeVars, fast, owedArm, resubmit, fl, countVars, landed, faults>>
     \/ \E f \in Faults :
          /\ Failed(f, TRUE, 1, fl)
          /\ LandsUnder(f, {HeadItem})
          /\ UNCHANGED snk
     \/ \E f \in Faults, w \in Windows :
          /\ Failed(f, FALSE, fl.out, Cut(fl))
          /\ LandsUnder(f, {HeadItem} \cup ToSet(snk.sub))
          /\ snk' = [snk EXCEPT !.win = w, !.sub = <<>>]
  /\ UNCHANGED <<outside, seen, exposed>>

\* The fill ends; a collecting window closes.
EndFill(w) ==
  /\ fl' = [w EXCEPT !.collecting = FALSE, !.closed = @ \/ w.collecting]
  /\ wpc' = "acking"
  /\ UNCHANGED <<fast, owedArm, resubmit>>

\* The item at the window's end is observed, if it was not yet, and submitted;
\* a collecting sink opens a new window with the head.
BeginSubmit ==
  LET b == items[fl.out + 1] IN
  /\ reserved' = IF reserved < fl.out + 1 THEN fl.out + 1 ELSE reserved
  /\ IF fl.out >= fl.observed
     THEN Observe(b) /\ fl' = [fl EXCEPT !.observed = fl.out + 1]
     ELSE UNCHANGED <<seen, fl>>
  /\ exposed' = IF conf.sink = "collecting" THEN exposed ELSE exposed \cup {b}
  /\ snk' = [snk EXCEPT !.visible = @ /\ fl.out > 0]
  /\ wpc' = "submitting"
  /\ UNCHANGED <<items, closed, fast, owedArm, resubmit, landed>>

\* min(output.window(), store.max_in_flight()).max(1).
Limit ==
  LET least == IF Window < InFlightLimit THEN Window ELSE InFlightLimit IN
  IF least > 1 THEN least ELSE 1

\* One turn of window_round's fill: full, the next item, an empty store, or for
\* a collecting window its own bounds or a wait on the store.
Fill ==
  /\ wpc = "fill"
  /\ \/ /\ fl.out < Limit /\ Len(items) > fl.out
        /\ BeginSubmit
     \/ /\ \/ fl.out >= Limit
           \/ Len(items) <= fl.out /\ (~fl.collecting \/ grace # "none")
           \/ fl.collecting
        /\ EndFill(fl)
        /\ UNCHANGED <<storeVars, snk, ghostVars>>
     \/ /\ fl.out < Limit /\ Len(items) <= fl.out /\ fl.collecting /\ grace = "none"
        /\ wpc' = "waiting"
        /\ UNCHANGED <<storeVars, fast, owedArm, resubmit, fl, snk, ghostVars>>
  /\ UNCHANGED <<outside, countVars, faults>>

\* wait_at returns the item, or the window closes: the deadline, store pressure,
\* the store's close, the shutdown signal.
WindowWaitEnds ==
  /\ wpc = "waiting"
  /\ \/ Len(items) > fl.out /\ BeginSubmit
     \/ EndFill(fl) /\ UNCHANGED <<storeVars, snk, ghostVars>>
  /\ UNCHANGED <<outside, countVars, faults>>

\* Output::submit returns.  Only the head's failure is classified; one past the
\* head ends the fill, and the sink did not take the batch.
SubmitReturns ==
  /\ wpc = "submitting"
  /\ \/ /\ \E w \in Windows, full \in BOOLEAN :
             /\ full => conf.sink = "collecting"
             /\ snk' = [snk EXCEPT !.win = w, !.sub = Append(@, items[fl.out + 1]), !.full = full]
             /\ fl' = [fl EXCEPT !.out = @ + 1,
                                 !.collecting = @ \/ (conf.sink = "collecting" /\ fl.out = 0 /\ ~full)]
        /\ wpc' = "fill"
        /\ UNCHANGED <<storeVars, fast, owedArm, resubmit, countVars, landed, faults>>
     \/ /\ fl.out = 0
        /\ \E f \in Faults, headOnly \in BOOLEAN :
             /\ headOnly => conf.sink = "windowed"
             /\ Failed(f, headOnly, 1, [fl EXCEPT !.collecting = FALSE])
             /\ LandsUnder(f, {HeadItem})
        /\ \E w \in Windows : snk' = [snk EXCEPT !.win = w]
     \/ /\ fl.out > 0
        /\ faults < MaxFaults /\ faults' = faults + 1
        /\ EndFill(fl)
        /\ UNCHANGED <<storeVars, snk, countVars, landed>>
  /\ UNCHANGED <<outside, seen, exposed>>

\* A collecting sink sends the request that makes its window visible.
BecomesVisible ==
  /\ wpc = "acking" /\ conf.sink = "collecting" /\ snk.owed = 0 /\ ~snk.visible
  /\ snk' = [snk EXCEPT !.visible = TRUE]
  /\ exposed' = exposed \cup ToSet(snk.sub)
  /\ UNCHANGED <<outside, storeVars, loopVars, countVars, landed, seen, faults>>

\* The sink's oldest outstanding batch is acknowledged, and the loop commits its
\* head.  A collecting sink applied its whole window and owes the other answers.
AckDelivers ==
  /\ wpc = "acking" /\ snk.sub # <<>>
  /\ conf.sink = "collecting" => snk.visible
  /\ HeadDelivered
  /\ Land(CASE conf.sink # "collecting" -> {Head(snk.sub)}
             [] conf.sink = "collecting" /\ snk.owed = 0 -> ToSet(snk.sub)
             [] OTHER -> {})
  /\ snk' = [snk EXCEPT !.sub = Tail(@), !.full = FALSE,
                        !.owed = IF conf.sink = "collecting" THEN Len(snk.sub) - 1 ELSE 0]
  /\ UNCHANGED <<outside, seen, exposed, faults>>

\* The head's answer fails: with its connection, or alone (HeadOnly).
AckFails ==
  /\ wpc = "acking" /\ snk.owed = 0
  /\ \E f \in Faults, w \in Windows :
       \/ /\ Failed(f, FALSE, fl.out, Cut(fl))
          /\ LandsUnder(f, ToSet(snk.sub))
          /\ snk' = [snk EXCEPT !.win = w, !.sub = <<>>, !.full = FALSE]
       \/ /\ conf.sink = "windowed" /\ snk.sub # <<>>
          /\ Failed(f, TRUE, 1, fl)
          /\ LandsUnder(f, {HeadItem})
          /\ snk' = [snk EXCEPT !.sub = Tail(@)]
  /\ UNCHANGED <<outside, seen, exposed>>

-----------------------------------------------------------------------------
(* Shutdown. *)

Signal ==
  /\ grace = "none"
  /\ grace' = "signalled"
  /\ UNCHANGED <<conf, upVars, inbox, drainVars, storeVars, loopVars, snk, rpc, abandoned,
                 countVars, ghostVars, faults>>

\* write_loop awaits something under a select! whose other arm is the grace.
Awaiting ==
  \/ wpc = "peek" /\ ~OwedRound
  \/ wpc \in {"sending", "backoff", "resubmitting", "submitting", "waiting", "acking"} /\ ~owedArm

\* The first poll of the grace arm after the signal sets the deadline.
Anchor ==
  /\ grace = "signalled" /\ Awaiting
  /\ grace' = "anchored"
  /\ UNCHANGED <<conf, upVars, inbox, drainVars, storeVars, loopVars, snk, rpc, abandoned,
                 countVars, ghostVars, faults>>

DeadlinePasses ==
  /\ grace = "anchored"
  /\ grace' = "expired"
  /\ UNCHANGED <<conf, upVars, inbox, drainVars, storeVars, loopVars, snk, rpc, abandoned,
                 countVars, ghostVars, faults>>

LeftIgnoresSubmit == fl.out
\* InFlight::left_the_process, or the one send on the fast path.
LeftTheProcess ==
  IF fast THEN IF wpc = "sending" THEN 1 ELSE 0
  ELSE fl.out + IF wpc = "submitting" THEN 1 ELSE 0

\* The batch of the call that a cut drops, if the cut drops one.
InCall ==
  CASE wpc \in {"sending", "resubmitting"} -> {HeadItem}
    [] wpc = "submitting" -> {items[fl.out + 1]}
    [] OTHER -> {}

\* The grace cuts a delivery at an await.
GraceCut ==
  /\ wpc # "peek" /\ Awaiting /\ grace = "expired"
  /\ GiveUp(LeftTheProcess, ToSet(snk.sub) \cup InCall)
  /\ UNCHANGED outside

StopLeavesStoreOpen ==
  /\ rpc = "run" /\ wpc = "gone"
  /\ dpc' = "done"
  /\ rpc' = "parked"
  /\ UNCHANGED <<conf, upVars, inbox, inHand, storeVars, loopVars, snk, grace, abandoned,
                 countVars, ghostVars, faults>>

\* run_output, write_loop gone: drain_inbox is dropped, the store and then the
\* inbox are closed.
StopDrain ==
  /\ rpc = "run" /\ wpc = "gone"
  /\ closed' = TRUE
  /\ dpc' = "done"
  /\ rpc' = "parked"
  /\ UNCHANGED <<conf, upVars, inbox, inHand, items, reserved, loopVars, snk, grace, abandoned,
                 countVars, ghostVars, faults>>

\* A batch the sweep found: a disk store takes it, as one closed before the sweep
\* never makes it wait; a memory store cannot.
Sweep(b) ==
  IF Memory
  THEN abandoned' = abandoned \cup {b} /\ UNCHANGED <<storeVars, dropped, faults>>
  ELSE ~PushWaits /\ StorePush(b) /\ UNCHANGED abandoned

\* The batch the dropped drain_inbox was pushing.
SweepParked ==
  /\ rpc = "parked"
  /\ IF inHand # <<>> THEN Sweep(Head(inHand))
                      ELSE UNCHANGED <<storeVars, dropped, faults, abandoned>>
  /\ inHand' = <<>>
  /\ rpc' = "sweep"
  /\ UNCHANGED <<conf, upVars, inbox, dpc, loopVars, snk, grace, received, delivered, strayed,
                 ghostVars>>

SweepRecv ==
  /\ rpc = "sweep" /\ inbox # <<>>
  /\ Sweep(Head(inbox))
  /\ inbox' = Tail(inbox)
  /\ received' = received \cup {Head(inbox)}
  /\ UNCHANGED <<conf, upVars, drainVars, loopVars, snk, grace, rpc, delivered, strayed, ghostVars>>

SweepStopsEarly ==
  /\ rpc = "sweep"
  /\ rpc' = "finish"
  /\ Drop("shutdown", abandoned)
  /\ abandoned' = {}
  /\ UNCHANGED <<conf, upVars, inbox, drainVars, storeVars, loopVars, snk, grace, received,
                 delivered, strayed, ghostVars, faults>>

\* The closed inbox is drained, or a permit was still out at SWEEP_DRAIN_TIMEOUT.
SweepEnds ==
  /\ rpc = "sweep" /\ inbox = <<>>
  /\ rpc' = "finish"
  /\ Drop("shutdown", abandoned)
  /\ abandoned' = {}
  /\ UNCHANGED <<conf, upVars, inbox, drainVars, storeVars, loopVars, snk, grace, received,
                 delivered, strayed, ghostVars, faults>>

\* finish_and_flush: a memory store drops what is left, a disk store keeps it.
Finish ==
  /\ rpc = "finish"
  /\ rpc' = "done"
  /\ IF Memory THEN Committed(Len(items)) /\ Drop("shutdown", ToSet(items))
               ELSE UNCHANGED <<storeVars, dropped>>
  /\ UNCHANGED <<conf, upVars, inbox, drainVars, loopVars, snk, grace, abandoned, received,
                 delivered, strayed, ghostVars, faults>>

-----------------------------------------------------------------------------

Init ==
  /\ conf \in [kind : Kinds, posture : Postures, policy : Policies, sink : Sinks]
  /\ next = 1 /\ permit = FALSE /\ hungUp = FALSE /\ inbox = <<>>
  /\ dpc = "recv" /\ inHand = <<>>
  /\ items = <<>> /\ reserved = 0 /\ closed = FALSE
  /\ wpc = "peek" /\ fast = FALSE /\ owedArm = FALSE /\ resubmit = FALSE
  /\ fl = [out |-> 0, observed |-> 0, collecting |-> FALSE, closed |-> FALSE]
  /\ snk \in [win : Windows, sub : {<<>>}, full : {FALSE}, visible : {FALSE}, owed : {0}]
  /\ grace = "none" /\ rpc = "run" /\ abandoned = {}
  /\ received = {} /\ delivered = <<>> /\ strayed = {}
  /\ dropped = [r \in Reasons |-> {}]
  /\ landed = [b \in Batch |-> 0] /\ seen = [b \in Batch |-> 0]
  /\ exposed = {} /\ faults = 0

Upstream == Reserve \/ Send \/ HangUp
DrainStep == DrainRecv \/ DrainPush \/ DrainDone
\* What the write loop does on its own, and what it waits for from the sink.
LoopStep == PeekHead \/ PeekClosed \/ Attempt \/ BackoffOver \/ Round \/ Fill \/ WindowWaitEnds
SinkStep == SendReturns \/ ResubmitReturns \/ SubmitReturns \/ BecomesVisible \/ AckDelivers \/ AckFails
GraceStep == Anchor \/ DeadlinePasses \/ PeekExpired \/ GraceCut
StopStep == StopDrain \/ SweepParked \/ SweepRecv \/ SweepEnds \/ Finish

Next == Upstream \/ DrainStep \/ LoopStep \/ SinkStep \/ Signal \/ GraceStep \/ StopStep

\* The task is polled whenever it is woken and the clock runs.  A collecting sink
\* answers an owed batch at once (Output::collecting).
Fairness ==
  /\ WF_vars(DrainStep) /\ WF_vars(LoopStep) /\ WF_vars(StopStep)
  /\ WF_vars(Anchor) /\ WF_vars(DeadlinePasses) /\ WF_vars(PeekExpired) /\ WF_vars(GraceCut)
  /\ WF_vars(snk.owed > 0 /\ AckDelivers)

\* Every sink call returns: the sink bounds its waits itself (Output::send).
SinkFairness == WF_vars(SinkStep)

Spec == Init /\ [][Next]_vars
FairSpec == Spec /\ Fairness

-----------------------------------------------------------------------------
(* Properties. *)

TypeOK ==
  /\ conf \in [kind : Kinds, posture : Postures, policy : Policies, sink : Sinks]
  /\ next \in 1..(NBatches + 1) /\ permit \in BOOLEAN /\ hungUp \in BOOLEAN
  /\ inbox \in Seq(Batch) /\ inHand \in Seq(Batch) /\ items \in Seq(Batch)
  /\ dpc \in {"recv", "push", "done"} /\ reserved \in Nat /\ closed \in BOOLEAN
  /\ wpc \in {"peek", "attempt", "sending", "backoff", "round", "resubmitting", "fill",
              "submitting", "waiting", "acking", "gone"}
  /\ fast \in BOOLEAN /\ owedArm \in BOOLEAN /\ resubmit \in BOOLEAN
  /\ fl \in [out : Nat, observed : Nat, collecting : BOOLEAN, closed : BOOLEAN]
  /\ snk \in [win : Nat, sub : Seq(Batch), full : BOOLEAN, visible : BOOLEAN, owed : Nat]
  /\ grace \in {"none", "signalled", "anchored", "expired"}
  /\ rpc \in {"run", "parked", "sweep", "finish", "done"}
  /\ abandoned \in SUBSET Batch /\ received \in SUBSET Batch /\ delivered \in Seq(Batch)
  /\ dropped \in [Reasons -> SUBSET Batch] /\ strayed \in SUBSET Batch
  /\ landed \in [Batch -> Nat] /\ seen \in [Batch -> Nat]
  /\ exposed \in SUBSET Batch /\ faults \in Nat

\* Every batch received is in exactly one place: in hand, queued, swept, counted
\* delivered, or counted under exactly one drop reason (drain_inbox's doc: "the sweep
\* never handles a batch twice").  Once run_output returned, a memory store holds none,
\* and everything upstream handed over was received, but for a permit still out when
\* the sweep gave up (SWEEP_DRAIN_TIMEOUT's doc).
EveryBatchAccounted ==
  LET all == inHand \o items \o delivered
      lost == UNION {dropped[r] : r \in Reasons} IN
  /\ received = ToSet(all) \cup abandoned \cup lost
  /\ IsInjective(all)
  /\ ToSet(all) \cap (abandoned \cup lost) = {} /\ abandoned \cap lost = {}
  /\ \A r, q \in Reasons : r # q => dropped[r] \cap dropped[q] = {}
  /\ rpc = "done" =>
       /\ inHand = <<>> /\ abandoned = {} /\ (Memory => items = <<>>)
       /\ inbox = <<>> /\ received \cup strayed = 1..(next - 1)
       /\ \A b, c \in strayed : b = c

\* At-most-once: the destination never applies a batch twice, and a disk store
\* keeps none that may have been applied to replay it.
NeverTwice ==
  AtMostOnce => \A b \in Batch :
    /\ landed[b] <= 1
    /\ rpc = "done" /\ b \in ToSet(items) => landed[b] = 0

\* Where the contract sees a batch.
StatusOf(b) ==
  IF b \in ToSet(delivered) THEN "delivered"
  ELSE IF \E r \in Reasons : b \in dropped[r] THEN "dropped"
  ELSE IF b \in received THEN "held" ELSE "upstream"

Contract == INSTANCE SinkContract WITH
  Batches <- Batch, onlyOnce <- AtMostOnce, keeps <- ~Memory,
  status <- [b \in Batch |-> StatusOf(b)], applied <- landed, stopped <- (rpc = "done")

\* The sink node implements its contract: a settled batch stays settled, a
\* delivered one was applied and leaves in order, an acknowledgment never commits
\* another batch than the one answered, and a stopped node leaves nothing open.
KeepsContract == Contract!CSpec

\* A disk store gives up nothing at shutdown under at-least-once, and under
\* at-most-once only batches that may have reached the destination; the rest is
\* kept for the next run (SinkStore::finish, Output::reached_destination).
DiskKeepsAtShutdown ==
  ~Memory => dropped["shutdown"] \subseteq IF AtMostOnce THEN exposed ELSE {}

\* InFlight's contract: what the sink has outstanding is the store's first
\* items, in order, but for a head that waits for its own resubmit; they are
\* reserved and observed.
WindowIsPrefix ==
  wpc # "gone" =>
    /\ fl.out <= fl.observed /\ fl.out <= reserved /\ reserved <= Len(items)
    /\ \/ snk.sub = SubSeq(items, 1, fl.out)
       \/ fl.out > 0 /\ resubmit /\ snk.sub = SubSeq(items, 2, fl.out)

\* observe_batch is called once per batch, before its first send or submit.
ObservedOnce == \A b \in Batch : seen[b] <= 1 /\ (b \in exposed => seen[b] = 1)

\* Once shutdown is signalled run_output returns, even if the sink never answers.
ShutdownEnds == grace = "signalled" ~> rpc = "done"

\* If every sink call returns, every queued batch leaves the queue or the node stops.
\* No batch is queued again once it left and there are finitely many, so a queue
\* that is empty again and again has settled each of them.
EveryBatchSettles == SinkFairness => []<>(items = <<>> \/ rpc = "done")
=============================================================================
