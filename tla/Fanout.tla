------------------------------ MODULE Fanout ------------------------------
(***************************************************************************)
(* Sends from many producers into shared inboxes: Fanout of                  *)
(* crates/logit-pipeline/src/fanout.rs.                                      *)
(*                                                                          *)
(* A plain send delivers consumer by consumer and waits at a full one.  A    *)
(* send with a deadline first reserves a slot on every consumer, holding     *)
(* those it has while it waits for the next, and sends only once it has all  *)
(* of them; a resumable one keeps its place in the line it waits in across   *)
(* attempts.  The inbox is tokio's bounded channel: a released slot goes to  *)
(* the waiters in order before it is free.  Some consumers are themselves    *)
(* producers, so slots held here may be what drains the inbox waited for     *)
(* there.  A batch is counted, not named.                                    *)
(***************************************************************************)
EXTENDS Integers, Sequences, SequencesExt, FiniteSetsExt

CONSTANTS
  Nodes,      \* the consumers
  Cap,        \* the capacity of each one's inbox
  Senders,    \* the callers; a node that is one forwards what it receives
  Edges,      \* Fanout.consumers of each sender, in order
  Method,     \* "send", "deadline" or "resumable"
  Count,      \* how many batches one call carries
  MayClose    \* the nodes that may close their inbox

\* Graph rules reject a cycle; max_reservation is checked before any wait.
ASSUME FanoutAssumption ==
  /\ IsFiniteSet(Senders)
  /\ Cap \in [Nodes -> Nat \ {0}]
  /\ Edges \in [Senders -> Seq(Nodes)]
  /\ Method \in [Senders -> {"send", "deadline", "resumable"}]
  /\ \A s \in Senders : /\ Edges[s] # <<>> /\ IsInjective(Edges[s])
                        /\ Count[s] \in 1..Min({Cap[n] : n \in Range(Edges[s])})
  /\ \A s \in Senders \ Nodes : Method[s] \in {"send", "resumable"} => Count[s] = 1
  /\ \A s \in Senders \cap Nodes : Method[s] = "send" /\ Count[s] = 1
  /\ MayClose \subseteq Nodes

VARIABLES
  chan,   \* per node: batches queued, free slots, the line of waiters, open
  pc,     \* per sender: "idle", "run" in a call, "parked" between attempts
  got     \* per sender and edge: "no", "held", "closed" or "sent" in this call

vars == <<chan, pc, got>>

Reserves(s) == Method[s] # "send"
Unreached(s) == {i \in DOMAIN Edges[s] : got[s][i] = "no"}
Held(s) == {i \in DOMAIN Edges[s] : got[s][i] = "held"}
NoEdge(s) == [i \in DOMAIN Edges[s] |-> "no"]

-----------------------------------------------------------------------------
(* tokio's channel: a fair semaphore of Cap slots. *)

Deficit(w) == w.need - w.got
Ahead(line, i) == SumFunction([j \in 1..(i - 1) |-> Deficit(line[j])])
Share(line, i, slots) ==
  IF slots <= Ahead(line, i) THEN 0 ELSE Min({slots - Ahead(line, i), Deficit(line[i])})

\* n slots come back: waiters take them in order, the rest is free.
Grant(ch, n) ==
  LET line == ch.line
      slots == ch.free + n
  IN  [ch EXCEPT !.line = [i \in DOMAIN line |-> [line[i] EXCEPT !.got = @ + Share(line, i, slots)]],
                 !.free = slots - SumFunction([i \in DOMAIN line |-> Share(line, i, slots)])]

Place(ch, s) == CHOOSE i \in DOMAIN ch.line : ch.line[i].s = s
InLine(ch, s) == \E i \in DOMAIN ch.line : ch.line[i].s = s
Ready(ch, s) == InLine(ch, s) /\ Deficit(ch.line[Place(ch, s)]) = 0

\* A dropped wait returns the slots it was handed.
Leave(ch, s) ==
  IF InLine(ch, s)
  THEN Grant([ch EXCEPT !.line = RemoveAt(@, Place(ch, s))], ch.line[Place(ch, s)].got)
  ELSE ch

\* A wait begun takes what is free and queues for the rest.
Queue(ch, s) ==
  [ch EXCEPT !.line = Append(@, [s |-> s, need |-> Count[s], got |-> ch.free]), !.free = 0]

Waits(s) == \E n \in Nodes : InLine(chan[n], s)

-----------------------------------------------------------------------------
\* One call begins; a forwarding node takes the batch from its own inbox.
Begin(s) ==
  /\ pc[s] = "idle" /\ s \notin Nodes
  /\ pc' = [pc EXCEPT ![s] = "run"]
  /\ UNCHANGED <<chan, got>>

Recv(n) ==
  /\ chan[n].len > 0
  /\ chan' = [chan EXCEPT ![n] = Grant([chan[n] EXCEPT !.len = @ - 1], 1)]
  /\ IF n \in Senders
     THEN /\ pc[n] = "idle"
          /\ pc' = [pc EXCEPT ![n] = "run"]
     ELSE UNCHANGED pc
  /\ UNCHANGED got

\* What a slot on an edge is used for: sent into at once, or held.
HoldsNothing(s) == "sent"

Secured(s) == IF Reserves(s) THEN "held" ELSE "sent"

\* offer and reserve_all: a slot taken, with the batch in it for a plain send.
Take(ch, s, how) == IF how = "sent" THEN [ch EXCEPT !.len = @ + Count[s]] ELSE ch

\* The first edge not reached: closed, room found, or a wait begun.
Reach(s) ==
  /\ pc[s] = "run" /\ ~Waits(s) /\ Unreached(s) # {}
  /\ LET i == Min(Unreached(s))
         n == Edges[s][i]
     IN  \/ /\ ~chan[n].open
            /\ got' = [got EXCEPT ![s][i] = "closed"]
            /\ UNCHANGED chan
         \/ /\ chan[n].open /\ chan[n].free >= Count[s]
            /\ chan' = [chan EXCEPT ![n] = Take([chan[n] EXCEPT !.free = @ - Count[s]], s, Secured(s))]
            /\ got' = [got EXCEPT ![s][i] = Secured(s)]
         \/ /\ chan[n].open /\ chan[n].free < Count[s]
            /\ chan' = [chan EXCEPT ![n] = Queue(@, s)]
            /\ UNCHANGED got
  /\ UNCHANGED pc

\* The wait ended with every slot it asked for.
Wake(s) ==
  /\ pc[s] = "run"
  /\ \E i \in Unreached(s) :
       LET n == Edges[s][i] IN
       /\ Ready(chan[n], s)
       /\ chan' = [chan EXCEPT ![n] =
                     Take([chan[n] EXCEPT !.line = RemoveAt(@, Place(chan[n], s))], s, Secured(s))]
       /\ got' = [got EXCEPT ![s][i] = Secured(s)]
  /\ UNCHANGED pc

\* Every slot is held: the batches go out edge by edge, with no await between.
Put(s) ==
  /\ pc[s] = "run" /\ Unreached(s) = {} /\ Held(s) # {}
  /\ LET i == Min(Held(s))
         n == Edges[s][i]
     IN  /\ chan' = IF chan[n].open THEN [chan EXCEPT ![n].len = @ + Count[s]] ELSE chan
         /\ got' = [got EXCEPT ![s][i] = "sent"]
  /\ UNCHANGED pc

Return(s) ==
  /\ pc[s] = "run" /\ Unreached(s) = {} /\ Held(s) = {}
  /\ pc' = [pc EXCEPT ![s] = "idle"]
  /\ got' = [got EXCEPT ![s] = NoEdge(s)]
  /\ UNCHANGED chan

\* A dropped reserve_all gives back every slot it holds.
Release(s, ch, n) ==
  IF \E i \in Held(s) : Edges[s][i] = n THEN Grant(ch, Count[s]) ELSE ch

\* A reservation always carries a deadline.
\* timeout_at polls the wait first, so a deadline passes only on a wait.
Expires(s) == Reserves(s) /\ Waits(s) /\ \A n \in Nodes : ~Ready(chan[n], s)

LosesPlace(s) == FALSE

\* Reservation.waiting outlives the attempt.
KeepsPlace(s) == Method[s] = "resumable"

\* The deadline passes before every slot is held; a resumable send stays in line.
Timeout(s) ==
  /\ pc[s] = "run" /\ Unreached(s) # {} /\ Expires(s)
  /\ chan' = [n \in Nodes |->
       LET freed == Release(s, chan[n], n)
       IN  IF KeepsPlace(s) THEN freed ELSE Leave(freed, s)]
  /\ pc' = [pc EXCEPT ![s] = IF Method[s] = "resumable" THEN "parked" ELSE "idle"]
  /\ got' = [got EXCEPT ![s] = [i \in DOMAIN @ |-> IF @[i] = "sent" THEN "sent" ELSE "no"]]

\* The next attempt with the same Reservation starts over but for its place.
Retry(s) ==
  /\ pc[s] = "parked"
  /\ pc' = [pc EXCEPT ![s] = "run"]
  /\ UNCHANGED <<chan, got>>

\* The Reservation is dropped between two attempts.
GiveUp(s) ==
  /\ pc[s] = "parked"
  /\ chan' = [n \in Nodes |-> Leave(chan[n], s)]
  /\ pc' = [pc EXCEPT ![s] = "idle"]
  /\ UNCHANGED got

\* The consumer drops its receiver: what is queued is gone, its waiters fail.
Close(n) ==
  /\ n \in MayClose /\ chan[n].open
  /\ n \in Senders => pc[n] = "idle"
  /\ chan' = [chan EXCEPT ![n] = [chan[n] EXCEPT !.open = FALSE, !.len = 0, !.line = <<>>]]
  /\ UNCHANGED <<pc, got>>

-----------------------------------------------------------------------------
Init ==
  /\ chan = [n \in Nodes |-> [len |-> 0, free |-> Cap[n], line |-> <<>>, open |-> TRUE]]
  /\ pc = [s \in Senders |-> "idle"]
  /\ got = [s \in Senders |-> NoEdge(s)]

Step(s) == Reach(s) \/ Wake(s) \/ Put(s) \/ Return(s)

Next ==
  \/ \E s \in Senders : Begin(s) \/ Step(s) \/ Timeout(s) \/ Retry(s) \/ GiveUp(s)
  \/ \E n \in Nodes : Recv(n) \/ Close(n)

\* Tasks are polled, deadlines pass, a parked send is attempted again, and
\* every consumer receives whenever it is not sending itself.
Fairness ==
  /\ \A s \in Senders : WF_vars(Step(s) \/ Timeout(s) \/ Retry(s))
  /\ \A n \in Nodes : WF_vars(Recv(n))

Spec == Init /\ [][Next]_vars /\ Fairness

-----------------------------------------------------------------------------
(* Properties. *)

\* How many of n's slots sender s holds.
Holds(s, n) == IF \E i \in Held(s) : Edges[s][i] = n THEN Count[s] ELSE 0

\* No slot of an inbox is ever lost or made: it is free, filled, held by a
\* reservation, or handed to a waiter (reserve_all, its cancellation).
SlotsConserved ==
  \A n \in Nodes : chan[n].open =>
    Cap[n] = chan[n].len + chan[n].free
               + SumFunction([s \in Senders |-> Holds(s, n)])
               + SumFunction([i \in DOMAIN chan[n].line |-> chan[n].line[i].got])

\* A reserving send that ended or is between attempts has reached every open
\* consumer or none, holds no slot (send_with_deadline's "all-edges-or-nothing"),
\* and what it gave back is there for others.
AllOrNothing ==
  /\ \A s \in Senders : Reserves(s) /\ pc[s] # "run" =>
       /\ Held(s) = {}
       /\ \A i, j \in DOMAIN Edges[s] : got[s][i] = "sent" => got[s][j] \in {"sent", "closed"}
  /\ SlotsConserved

\* No sender waits forever: a forwarding node's send into an inbox others hold
\* slots of gets through (the diamond of the module's doc), and a send that keeps
\* its place in one line is not starved by senders that came later.
NoSenderStarves ==
  \A s \in Senders :
    Method[s] = "send" \/ (Method[s] = "resumable" /\ Len(Edges[s]) = 1) => []<>(pc[s] = "idle")
=============================================================================
