------------------------------ MODULE LuaNode ------------------------------
(***************************************************************************)
(* A Lua node of the graph: the thread that runs the script (run_lua and   *)
(* run_lua_loop, crates/logit-pipeline/src/runtime.rs), the watcher task   *)
(* that stands for it in the join set (watch_lua_thread), and the LuaIo    *)
(* behind a mutex that the watcher may take away from a thread stuck in    *)
(* the script.  The two share no other lock: the watcher learns where the  *)
(* thread is from a heartbeat that is written and read with relaxed        *)
(* atomics (crates/logit-script/src/heartbeat.rs).                         *)
(*                                                                         *)
(* Abstracted: a batch is its number, and a pass over it either leaves     *)
(* events to send or does not; the events a flush() emits stand for no     *)
(* batch.  Time is counted in the watcher's ticks.  The upstream edge is   *)
(* one Fanout that holds at most one permit.  A script that keeps          *)
(* constructing events for ever is outside the bound MaxExtra: the code    *)
(* declines to end it.                                                     *)
(***************************************************************************)
EXTENDS Integers, Sequences

CONSTANTS
    MaxBatches,     \* batches the upstream sends
    MaxExtra,       \* flushes whose interval comes due before the inbox closes, and
                    \* further beats of the heartbeat inside a call, together
    StallTicks,     \* stall_after, in ticks of the watcher
    GraceTicks      \* shutdown_grace, in ticks of the watcher

ASSUME LuaAssumption ==
    /\ MaxBatches \in Nat /\ MaxExtra \in Nat
    /\ StallTicks \in Nat \ {0} /\ GraceTicks \in Nat \ {0}

VARIABLES
    conf,       \* [interval, capped]: whether the component has an interval and max_memory
    up,         \* the upstream edge: [next, permit, hung]
    inbox,      \* the node's inbox: [q, state], state open, closed or gone
    io,         \* the LuaIo behind the mutex: "there" or "taken"
    lock,       \* who holds the mutex
    t,          \* the thread: [pc, batch, held, dests, why, outcome]
    hb,         \* the busy bits of the heartbeat's values in modification order,
                \* from the one the watcher last read
    extra,      \* the due flushes and further beats so far
    synced,     \* the place in hb of its value when the thread last unlocked
    mem,        \* [over, deferred, open]: the VM over its cap, MemoryVerdict
    w,          \* the watcher: [pc, quiet, sig, stalled, revoked], sig the age of the
                \* shutdown signal or NoSignal
    done,       \* the done_tx report: "none" or the thread's outcome
    fate        \* for each batch, how it was settled: "counted" or "lost"

vars == <<conf, up, inbox, io, lock, t, hb, extra, synced, mem, w, done, fate>>

Batches == 1..MaxBatches

NoSignal == -1

----------------------------------------------------------------------------
(* The heartbeat.                                                          *)

Idle == ~hb[Len(hb)]

\* enter() and tick(): a new value with the busy bit set.
Beat == Append(hb, TRUE)

\* leave() of an idle heartbeat stores the value it read: nothing changes.
Left == IF Idle THEN hb ELSE Append(hb, FALSE)

----------------------------------------------------------------------------
(* Accounting: a batch is settled by exactly one of these.                 *)

\* Sent, discarded by the script, or dropped (shutdown, closed_consumer) are
\* each counted; a panic in a send and a permit that outlives the sweep lose a
\* batch without a count, which docs/known-gaps/transforms.md accepts.
Settled(batches, how) ==
    fate' = [b \in Batches |-> IF b \in batches THEN Append(fate[b], how) ELSE fate[b]]

SetOf(b) == {b} \ {0}

----------------------------------------------------------------------------
(* The upstream edge.                                                      *)

\* Fanout reserves a slot of the inbox; an inbox that is closed counts the
\* batch as closed_consumer instead.
Reserve ==
    /\ ~up.hung /\ ~up.permit /\ up.next <= MaxBatches
    /\ IF inbox.state = "open"
       THEN up' = [up EXCEPT !.permit = TRUE] /\ UNCHANGED fate
       ELSE /\ Settled({up.next}, "counted")
            /\ up' = [up EXCEPT !.next = @ + 1]
    /\ UNCHANGED <<conf, inbox, io, lock, t, hb, extra, synced, mem, w, done>>

\* A permit reserved before the inbox closed still delivers; one that outlives
\* the receiver destroys its batch uncounted.
SendPermit ==
    /\ up.permit
    /\ up' = [up EXCEPT !.permit = FALSE, !.next = @ + 1]
    /\ IF inbox.state = "gone"
       THEN Settled({up.next}, "lost") /\ UNCHANGED inbox
       ELSE inbox' = [inbox EXCEPT !.q = Append(@, up.next)] /\ UNCHANGED fate
    /\ UNCHANGED <<conf, io, lock, t, hb, extra, synced, mem, w, done>>

\* The upstream node ends and drops its sender: after a signal, or because its
\* own inputs came to an end.
HangUp ==
    /\ ~up.hung /\ ~up.permit
    /\ up' = [up EXCEPT !.hung = TRUE]
    /\ UNCHANGED <<conf, inbox, io, lock, t, hb, extra, synced, mem, w, done, fate>>

----------------------------------------------------------------------------
(* The thread: the loop.                                                   *)

Goto(pc) == t' = [t EXCEPT !.pc = pc]

\* The loop returned or unwound; run_lua's tail goes on from "exit".
Exits(outcome) == t' = [t EXCEPT !.pc = "exit", !.outcome = outcome]

Unlock == lock' = "nobody" /\ synced' = Len(hb)

\* deferred_until() is in the past.
VerdictDue == mem.deferred /\ mem.open

\* flush_now enters the script.
StartFlush(why) ==
    /\ t' = [t EXCEPT !.pc = "flush", !.why = why]
    /\ hb' = Beat

\* The next flush comes due.
IntervalEnds ==
    /\ conf.interval /\ extra < MaxExtra
    /\ extra' = extra + 1
    /\ StartFlush("top")

FlushDue ==
    /\ t.pc = "top"
    /\ IntervalEnds
    /\ UNCHANGED <<conf, up, inbox, io, lock, synced, mem, w, done, fate>>

\* MemoryVerdict::run.  A reading within the rate limit is skipped and defers
\* the verdict; otherwise the collections run, and the node fails when the VM
\* is still over.
Verdict(bypass, Continue) ==
    \/ /\ ~mem.over
       /\ mem' = [mem EXCEPT !.deferred = FALSE]
       /\ Continue
    \/ /\ mem.over /\ ~bypass /\ ~mem.open
       /\ mem' = [mem EXCEPT !.deferred = TRUE]
       /\ Continue
    \/ /\ mem.over /\ (bypass \/ mem.open)
       /\ \E under \in BOOLEAN :
            /\ mem' = [over |-> ~under, deferred |-> FALSE, open |-> FALSE]
            /\ IF under THEN Continue ELSE Exits("failed")

\* The verdict the rate limit skipped is due at the loop's top.
DeferredVerdict ==
    /\ t.pc = "top" /\ VerdictDue
    /\ Verdict(FALSE, Goto("top"))
    /\ UNCHANGED <<conf, up, inbox, io, lock, hb, extra, synced, w, done, fate>>

\* The end of the rate limit's window comes.
WindowOpens ==
    /\ ~mem.open
    /\ mem' = [mem EXCEPT !.open = TRUE]
    /\ UNCHANGED <<conf, up, inbox, io, lock, t, hb, extra, synced, w, done, fate>>

\* The thread locks the LuaIo to receive; a revoked one ends the loop.
ToRecv ==
    /\ t.pc = "top" /\ ~VerdictDue
    /\ lock = "nobody"
    /\ IF io = "there" THEN Goto("recv") /\ lock' = "thread" /\ UNCHANGED synced
                       ELSE Exits("ok") /\ Unlock
    /\ UNCHANGED <<conf, up, inbox, io, hb, extra, mem, w, done, fate>>

\* A batch arrives: it is in hand until the pass's own counts.  The lock is
\* released, then enter() marks the first event's call.
Recv ==
    /\ t.pc = "recv" /\ inbox.q # <<>>
    /\ t' = [t EXCEPT !.pc = "process", !.batch = Head(inbox.q), !.held = Head(inbox.q)]
    /\ inbox' = [inbox EXCEPT !.q = Tail(@)]
    /\ Unlock
    /\ hb' = Beat
    /\ UNCHANGED <<conf, up, io, extra, mem, w, done, fate>>

\* A slip: the wait forgets the verdict that was put off.
WaitEndsAtAFlush == IntervalEnds

\* The wait ends at the next flush or at a deferred verdict, whichever comes
\* first; without either it is not bounded.
WaitEnds ==
    \/ IntervalEnds
    \/ VerdictDue /\ Goto("top") /\ UNCHANGED <<hb, extra>>

WaitElapses ==
    /\ t.pc = "recv" /\ inbox.q = <<>> /\ ~up.hung
    /\ WaitEnds
    /\ Unlock
    /\ UNCHANGED <<conf, up, inbox, io, mem, w, done, fate>>

\* The inbox is empty and every sender is gone: a last flush with an interval,
\* then check_at_close.
InboxCloses ==
    /\ t.pc = "recv" /\ inbox.q = <<>> /\ up.hung
    /\ Unlock
    /\ IF conf.interval
       THEN StartFlush("close")
       ELSE Goto("close_check") /\ UNCHANGED hb
    /\ UNCHANGED <<conf, up, inbox, io, extra, mem, w, done, fate>>

CheckAtClose ==
    /\ t.pc = "close_check"
    /\ IF mem.deferred THEN Verdict(TRUE, Exits("ok"))
                       ELSE Exits("ok") /\ UNCHANGED mem
    /\ UNCHANGED <<conf, up, inbox, io, lock, hb, extra, synced, w, done, fate>>

InCall == t.pc \in {"process", "flush"}

\* Progress inside the script: Event.new, an element of a returned table, or
\* enter() for the batch's next event.
HeartbeatTick ==
    /\ InCall /\ extra < MaxExtra
    /\ extra' = extra + 1
    /\ hb' = Beat
    /\ UNCHANGED <<conf, up, inbox, io, lock, t, synced, mem, w, done, fate>>

\* What a script call did to the VM's memory, when there is a cap.
Grew == mem' \in {[mem EXCEPT !.over = o] : o \in IF conf.capped THEN BOOLEAN ELSE {FALSE}}

\* The pass over the batch is finished: leave(), then the batch is no longer in
\* hand and its discards and errors are counted.
PassEnds ==
    /\ t.pc = "process"
    /\ hb' = Left
    /\ Grew
    /\ \E emits \in BOOLEAN :
         /\ t' = [t EXCEPT !.pc = "send", !.held = 0, !.why = "batch", !.batch = 0,
                           !.dests = IF emits THEN t.batch ELSE 0]
         /\ Settled(IF emits THEN {} ELSE {t.batch}, "counted")
    /\ UNCHANGED <<conf, up, inbox, io, lock, extra, synced, w, done>>

\* flush() returns: with events to send, or with none, or with an error.
FlushReturns ==
    /\ t.pc = "flush"
    /\ hb' = Left
    /\ Grew
    /\ \E pc \in {"send", "check"} : Goto(pc)
    /\ UNCHANGED <<conf, up, inbox, io, lock, extra, synced, w, done, fate>>

\* The thread locks the LuaIo to send; a revoked one counts what it holds as
\* closed_consumer (count_revoked) and ends the loop.
ToSend ==
    /\ t.pc = "send"
    /\ lock = "nobody"
    /\ IF io = "there"
       THEN Goto("sending") /\ lock' = "thread" /\ UNCHANGED <<synced, fate>>
       ELSE /\ Unlock
            /\ Settled(SetOf(t.dests), "counted")
            /\ t' = [t EXCEPT !.pc = "exit", !.outcome = "ok", !.dests = 0]
    /\ UNCHANGED <<conf, up, inbox, io, hb, extra, mem, w, done>>

\* send_lua_partitions returns: every destination has its part.
SendReturns ==
    /\ t.pc = "sending"
    /\ Unlock
    /\ Settled(SetOf(t.dests), "counted")
    /\ t' = [t EXCEPT !.pc = "check", !.dests = 0]
    /\ UNCHANGED <<conf, up, inbox, io, hb, extra, mem, w, done>>

\* The max_memory verdict after a batch's send and after a flush's.
Check ==
    /\ t.pc = "check"
    /\ Verdict(FALSE, Goto(IF t.why = "close" THEN "close_check" ELSE "top"))
    /\ UNCHANGED <<conf, up, inbox, io, lock, hb, extra, synced, w, done, fate>>

----------------------------------------------------------------------------
(* The thread: a panic, and run_lua's tail.                                *)

\* A panic in process(), with the batch in hand, or in flush().
PanicInCall ==
    /\ InCall
    /\ t' = [t EXCEPT !.pc = "exit", !.outcome = "panicked", !.batch = 0]
    /\ UNCHANGED <<conf, up, inbox, io, lock, hb, extra, synced, mem, w, done, fate>>

\* A panic in a send: the guard unlocks as it unwinds, and what was not handed
\* over is gone.
PanicInSend ==
    /\ t.pc = "sending"
    /\ Unlock
    /\ Settled(SetOf(t.dests), "lost")
    /\ t' = [t EXCEPT !.pc = "exit", !.outcome = "panicked", !.dests = 0]
    /\ UNCHANGED <<conf, up, inbox, io, hb, extra, mem, w, done>>

\* leave() after the loop, because a panic unwinds with the busy bit set.
LeaveAtExit ==
    /\ t.pc = "exit"
    /\ hb' = Left
    /\ Goto("take")
    /\ UNCHANGED <<conf, up, inbox, io, lock, extra, synced, mem, w, done, fate>>

\* What is left of the LuaIo is taken; a loop that failed counts the batch it
\* held and sweeps its inbox, one that returned drops it.
TakeLeftover ==
    /\ t.pc = "take"
    /\ lock = "nobody"
    /\ Unlock
    /\ io' = "taken"
    /\ LET failed == t.outcome # "ok"
           mine   == io = "there"
       IN /\ Settled(IF failed THEN SetOf(t.held) ELSE {}, "counted")
          /\ t' = [t EXCEPT !.held = 0,
                            !.pc = IF failed /\ mine THEN "sweep" ELSE "report"]
          /\ inbox' = [inbox EXCEPT !.state = IF mine THEN IF failed THEN "closed" ELSE "gone"
                                                      ELSE @]
    /\ UNCHANGED <<conf, up, hb, extra, mem, w, done>>

Report ==
    /\ t.pc = "report"
    /\ Goto("ended")
    /\ done' = t.outcome
    /\ UNCHANGED <<conf, up, inbox, io, lock, hb, extra, synced, mem, w, fate>>

----------------------------------------------------------------------------
(* revoke_lua_io: the sweep of a closed inbox, by whoever took the LuaIo.  *)

\* One batch of the inbox is counted.
SweepRecv ==
    /\ inbox.q # <<>>
    /\ Settled({Head(inbox.q)}, "counted")
    /\ inbox' = [inbox EXCEPT !.q = Tail(@)]

\* recv() returned None: the buffer is empty and every permit is released.  Or
\* REVOKE_DRAIN_TIMEOUT elapsed on a permit that is still out.
SweepDone ==
    /\ inbox.q = <<>>
    /\ inbox' = [inbox EXCEPT !.state = "gone"]
    /\ UNCHANGED fate

ThreadSweeps ==
    /\ t.pc = "sweep"
    /\ \/ SweepRecv /\ UNCHANGED t
       \/ SweepDone /\ Goto("report")
    /\ UNCHANGED <<conf, up, io, lock, hb, extra, synced, mem, w, done>>

----------------------------------------------------------------------------
(* The watcher.  Its select is biased: the report, the signal, the tick.   *)

\* The thread's report ends the watcher.
WatcherDone ==
    /\ w.pc = "wait" /\ done # "none"
    /\ w' = [w EXCEPT !.pc = "returned"]
    /\ UNCHANGED <<conf, up, inbox, io, lock, t, hb, extra, synced, mem, done, fate>>

\* The signal arms the wedge rule.  It is polled before the tick, so no tick
\* misses it.
Signal ==
    /\ w.pc = "wait" /\ w.sig = NoSignal
    /\ w' = [w EXCEPT !.sig = 0]
    /\ UNCHANGED <<conf, up, inbox, io, lock, t, hb, extra, synced, mem, done, fate>>

Signalled == w.sig # NoSignal

\* An age one tick later; ages are told apart up to the threshold they meet.
Older(age, threshold) == IF age >= threshold THEN age ELSE age + 1

LongerThreshold == IF StallTicks > GraceTicks THEN StallTicks ELSE GraceTicks

\* A slip: a node that is already stalled is left to the stall rule.
WedgedUnlessStalled(stalled, quiet, sig) ==
    /\ sig # NoSignal /\ ~stalled
    /\ (IF quiet < sig THEN quiet ELSE sig) >= GraceTicks

\* Busy and unchanged for shutdown_grace: since the last change when the node
\* is already stalled, else since the later of the signal and the last change.
Wedged(stalled, quiet, sig) ==
    /\ sig # NoSignal
    /\ (IF stalled \/ quiet < sig THEN quiet ELSE sig) >= GraceTicks

\* One tick, at which a relaxed read returns the value at place v: the one read
\* before (place 1) or any later one.
TickReading(v) ==
    LET sig     == IF Signalled THEN Older(w.sig, GraceTicks) ELSE NoSignal
        quiet   == Older(w.quiet, LongerThreshold)
        stalled == w.stalled \/ quiet >= StallTicks
    IN \/ /\ v > 1
          /\ w' = [w EXCEPT !.quiet = 0, !.sig = sig, !.stalled = FALSE]
          /\ hb' = SubSeq(hb, v, Len(hb))
          /\ synced' = IF synced > v THEN synced - v + 1 ELSE 1
       \/ /\ v = 1 /\ ~hb[1]
          /\ w' = [w EXCEPT !.sig = sig]
          /\ UNCHANGED <<hb, synced>>
       \/ /\ v = 1 /\ hb[1]
          /\ w' = [w EXCEPT !.quiet = quiet, !.sig = sig, !.stalled = stalled,
                            !.pc = IF Wedged(stalled, quiet, sig) THEN "trylock" ELSE "wait"]
          /\ UNCHANGED <<hb, synced>>

Tick ==
    /\ w.pc = "wait" /\ done = "none"
    /\ \E v \in 1..Len(hb) : TickReading(v)
    /\ UNCHANGED <<conf, up, inbox, io, lock, t, extra, mem, done, fate>>

\* try_lock: a thread that holds the lock is not in the script any more.
TryLock ==
    /\ w.pc = "trylock"
    /\ IF lock = "nobody" THEN lock' = "watcher" /\ w' = [w EXCEPT !.pc = "reread"]
                          ELSE w' = [w EXCEPT !.pc = "wait"] /\ UNCHANGED lock
    /\ UNCHANGED <<conf, up, inbox, io, t, hb, extra, synced, mem, done, fate>>

\* A slip: what was read before the lock is trusted.
SeesNoProgress == {FALSE}

\* The heartbeat is read again under the lock.  The lock orders the read after
\* everything the thread did before it last unlocked, and no further.  (Ticks
\* after a reread that saw progress may see the older value again, which adds
\* behaviours and takes none away.)
SeesProgress == {v # 1 : v \in synced..Len(hb)}

Reread ==
    /\ w.pc = "reread"
    /\ lock' = "nobody"
    /\ \E progress \in SeesProgress :
         IF progress
         THEN w' = [w EXCEPT !.pc = "wait"] /\ UNCHANGED <<io, inbox>>
         ELSE /\ io' = "taken"
              /\ w' = [w EXCEPT !.pc = IF io = "there" THEN "sweep" ELSE "returned",
                                !.revoked = TRUE]
              /\ inbox' = [inbox EXCEPT !.state = IF io = "there" THEN "closed" ELSE @]
    /\ UNCHANGED <<conf, up, t, hb, extra, synced, mem, done, fate>>

WatcherSweeps ==
    /\ w.pc = "sweep"
    /\ \/ SweepRecv /\ UNCHANGED w
       \/ SweepDone /\ w' = [w EXCEPT !.pc = "returned"]
    /\ UNCHANGED <<conf, up, io, lock, t, hb, extra, synced, mem, done>>

----------------------------------------------------------------------------

Init ==
    /\ conf \in [interval : BOOLEAN, capped : BOOLEAN]
    /\ up = [next |-> 1, permit |-> FALSE, hung |-> FALSE]
    /\ inbox = [q |-> <<>>, state |-> "open"]
    /\ io = "there" /\ lock = "nobody"
    /\ t = [pc |-> "top", batch |-> 0, held |-> 0, dests |-> 0,
            why |-> "batch", outcome |-> "running"]
    /\ hb = <<FALSE>> /\ extra = 0 /\ synced = 1
    /\ mem = [over |-> FALSE, deferred |-> FALSE, open |-> TRUE]
    /\ w = [pc |-> "wait", quiet |-> 0, sig |-> NoSignal, stalled |-> FALSE, revoked |-> FALSE]
    /\ done = "none"
    /\ fate = [b \in Batches |-> <<>>]

\* What the thread does by itself, outside the script.
ThreadRuns ==
    \/ DeferredVerdict \/ ToRecv \/ Recv \/ WaitElapses \/ InboxCloses
    \/ CheckAtClose \/ ToSend \/ SendReturns \/ Check
    \/ LeaveAtExit \/ TakeLeftover \/ Report \/ ThreadSweeps

\* What the script, or a panic, decides.
ScriptRuns == HeartbeatTick \/ PassEnds \/ FlushReturns \/ PanicInCall \/ PanicInSend

WatcherRuns == WatcherDone \/ TryLock \/ Reread \/ WatcherSweeps

Upstream == Reserve \/ SendPermit \/ HangUp

\* The process is done with the node: the watcher returned, the thread ended or
\* is left in the script, and the upstream has nothing more to send.
Terminated ==
    /\ w.pc = "returned" /\ up.hung
    /\ UNCHANGED vars

Next ==
    \/ FlushDue \/ ThreadRuns \/ ScriptRuns \/ WindowOpens
    \/ Signal \/ Tick \/ WatcherRuns
    \/ Upstream
    \/ Terminated

\* A tick that reads the heartbeat's newest value.  Relaxed stores become
\* visible in time, so ticks do not read stale values for ever.
FreshTick == Tick /\ Len(hb') = 1

\* The thread and the tasks are scheduled, time passes, a send ends (the sinks
\* below have their own grace) and the inputs above end after the signal.
\* Nothing makes the script return from a call.
Fairness ==
    /\ WF_vars(ThreadRuns) /\ WF_vars(WindowOpens)
    /\ WF_vars(WatcherRuns) /\ SF_vars(FreshTick)
    /\ WF_vars(SendPermit) /\ WF_vars(Signalled /\ HangUp)

Spec == Init /\ [][Next]_vars /\ Fairness

----------------------------------------------------------------------------
(* Properties.                                                             *)

\* Where an accepted batch is, as a number of places: settled, queued, in the
\* pass, waiting to be sent.
Places(b) ==
    Len(fate[b]) + (IF \E i \in 1..Len(inbox.q) : inbox.q[i] = b THEN 1 ELSE 0)
    + (IF b \in {t.batch, t.dests} \/ (t.outcome # "running" /\ t.held = b) THEN 1 ELSE 0)

\* Every batch the upstream handed over is in one place or settled in one way,
\* whatever the thread (its end, failure or panic) and the watcher (a revoke
\* racing it) did; and when the watcher returns, the inbox is gone with nothing
\* in it and no batch is unsettled, but for the one that is still in the hands
\* of a thread the watcher gave up on.
EveryBatchCounted ==
    /\ \A b \in Batches : b < up.next => Places(b) = 1
    /\ w.pc = "returned" =>
         /\ inbox = [q |-> <<>>, state |-> "gone"]
         /\ \A b \in Batches :
              b < up.next /\ fate[b] = <<>> => w.revoked /\ t.pc # "ended"

\* After the shutdown signal the node's entry in the join set resolves, whether the
\* script returns or is stuck in a call, and however the thread ends.  A script that
\* beats for ever by making events is not covered: it stops at MaxExtra.
NodeEnds == Signalled ~> w.pc = "returned"

\* The thread has put a memory verdict off and still runs.
VerdictPending == mem.deferred /\ t.outcome = "running"

\* A memory verdict that the rate limit put off is not put off for ever, with
\* batches arriving, with none arriving and with the inbox closed, unless the
\* script never returns from a call.
VerdictSettles == <>[]VerdictPending => <>[]InCall

=============================================================================
