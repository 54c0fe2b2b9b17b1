------------------------------- MODULE Notify -------------------------------
(***************************************************************************)
(* tokio::sync::Notify, as crates/logit-pipeline/src/queue.rs uses it.      *)
(* The library is not part of the repository; this module states what the   *)
(* queue relies on (the doc comments of BoundedQueue::close and push_many). *)
(*                                                                          *)
(* A Notify holds at most one permit, a FIFO list of registered waiters and  *)
(* a count of notify_waiters calls.  A waiter that notify_one picked is in   *)
(* wokenOne until its future is polled again; one that notify_waiters woke   *)
(* is in wokenAll.  The difference matters when the future is dropped first: *)
(* the first kind passes its notification on, the second does not.           *)
(***************************************************************************)
EXTENDS Naturals, Sequences, SequencesExt

NewNotify == [permit |-> FALSE, gen |-> 0, waiting |-> <<>>,
              wokenOne |-> {}, wokenAll |-> {}]

\* A Notify that the tasks Proc wait on.
NotifyType(Proc) == [permit : BOOLEAN, gen : Nat, waiting : Seq(Proc),
                     wokenOne : SUBSET Proc, wokenAll : SUBSET Proc]

\* notify_one(): the longest waiter is woken, or the permit is stored.
NotifyOne(n) ==
  IF n.waiting = <<>>
  THEN [n EXCEPT !.permit = TRUE]
  ELSE [n EXCEPT !.waiting = Tail(n.waiting),
                 !.wokenOne = n.wokenOne \cup {Head(n.waiting)}]

\* notify_waiters(): every registered waiter is woken, no permit is stored.
NotifyWaiters(n) ==
  [n EXCEPT !.gen = n.gen + 1,
            !.waiting = <<>>,
            !.wokenAll = n.wokenAll \cup ToSet(n.waiting)]

\* The first poll of a Notified made when gen was snap resolves at once.
ReadyAtFirstPoll(n, snap) == n.gen # snap \/ n.permit

\* What the first poll leaves: a notify_waiters call since the future was made
\* resolves it and keeps the permit, else the permit is consumed, else p waits.
FirstPoll(n, p, snap) ==
  IF n.gen # snap THEN n
  ELSE IF n.permit THEN [n EXCEPT !.permit = FALSE]
  ELSE [n EXCEPT !.waiting = Append(n.waiting, p)]

Woken(n, p) == p \in n.wokenOne \cup n.wokenAll

\* p's future resolves after a wake-up.
Resume(n, p) == [n EXCEPT !.wokenOne = n.wokenOne \ {p}, !.wokenAll = n.wokenAll \ {p}]

\* The wait list w without p, which is in it at most once.
Unlink(w, p) ==
  IF p \in ToSet(w) THEN RemoveAt(w, CHOOSE i \in DOMAIN w : w[i] = p) ELSE w

\* p's registered future is dropped: a notification it never consumed is
\* passed to the next waiter, or stored.
DropNotified(n, p) ==
  IF p \in n.wokenOne
  THEN NotifyOne(Resume(n, p))
  ELSE [Resume(n, p) EXCEPT !.waiting = Unlink(n.waiting, p)]
=============================================================================
