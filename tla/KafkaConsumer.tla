--------------------------- MODULE KafkaConsumer ---------------------------
(***************************************************************************)
(* kafka_in: the group consumer of logit-kafka and the input that drives    *)
(* it, for one partition that the members of one group hand to each other. *)
(*                                                                         *)
(* Each member is three tasks over one Shared state: the input's task (the *)
(* loop of Consumer::next and deliver), the partition leader's fetch loop, *)
(* and the heartbeat.  The fetch loop reads ahead of the delivery, so a    *)
(* log that is truncated under it can hand the same offsets to other       *)
(* records while the old ones are still on their way to acceptance.        *)
(*                                                                         *)
(* The broker's log and the group coordinator are external and modelled    *)
(* from how the client uses them.  A record is its offset and the number of *)
(* truncations before it was written.  A commit request takes effect before *)
(* its connection fails or never.                                          *)
(***************************************************************************)
EXTENDS Integers, Sequences, FiniteSets

CONSTANTS
  Members,         \* the consumers of the group
  MaxOffset,       \* how long the log may grow
  Silent,          \* offsets whose record needs no delivery (control, aborted)
  MaxGeneration,   \* how many times the group may rebalance
  MaxLosses,       \* how many times the log may lose its tail or its first record
  MaxFaults        \* how many times a member may be dropped, stopped or restarted, or
                   \* a loop outlive its abort

ASSUME KafkaConstants ==
  /\ MaxOffset \in Nat /\ MaxGeneration \in Nat
  /\ MaxLosses \in Nat /\ MaxFaults \in Nat
  /\ Silent \subseteq 0 .. MaxOffset - 1

VARIABLES
  log,        \* the truncation count each record was written under, offset 0 first
  logStart,   \* the lowest offset retention has left
  truncated,  \* how many times the log has lost its tail
  faults,     \* how much has gone wrong
  group,      \* the coordinator's view: generation, members, owner, rebalance
  committed,  \* the group's committed offset, or None
  pc,         \* where each member's task is
  gen,        \* the generation each member joined
  signal,     \* the pending revoke the heartbeat raised
  revoking,   \* the revoke that Consumer::next has returned
  ending,     \* the member is leaving for good
  part,       \* the partition's fetch state, or NoPart
  epochs,     \* next_epoch's counter
  shared,     \* Shared::epoch
  asks,       \* answers on their way to the fetch loop
  out,        \* what deliver holds, or Nothing
  request,    \* the commit in flight, or Nothing
  accepted,   \* records some member got into every downstream inbox
  overtaken   \* records written under a reader that stood past the log end

broker == <<log, logStart, truncated, overtaken>>
local  == <<gen, signal, revoking, ending, part, epochs, shared, asks, out, request>>
vars   == <<broker, faults, group, committed, pc, local, accepted>>

None    == -1
Nothing == [none |-> TRUE]
NoPart  == [none |-> TRUE]
Peer    == "peer"     \* a member of the group that is not modelled
LogEnd  == Len(log)

\* One more thing goes wrong.
Fault == faults < MaxFaults /\ faults' = faults + 1

-----------------------------------------------------------------------------
(* The tracker: the candidate and the set of offsets done above it.        *)

\* What Tracker::mark's loop reaches: the first offset not done.
Frontier(candidate, done) ==
  CHOOSE x \in candidate .. MaxOffset :
    /\ x \notin done
    /\ \A o \in candidate .. x - 1 : o \in done

\* Tracker::mark of the offsets from .. to - 1.
Mark(p, from, to) ==
  IF to <= from \/ to <= p.candidate THEN p
  ELSE LET all  == p.done \union (from .. to - 1)
           next == Frontier(p.candidate, all)
       IN [p EXCEPT !.candidate = next, !.done = {o \in all : o > next}]

\* Tracker::pending.
Pending(p) == p.last # p.candidate

Lower(a, b) == IF a < b THEN a ELSE b

\* Part::reset, with Tracker::reset inside it.
Reset(p, to, epoch) ==
  LET lowered == {[replaced |-> r.replaced, at |-> Lower(r.at, to)] : r \in p.resets}
  IN [p EXCEPT !.candidate = Lower(p.candidate, to),
               !.done      = {o \in p.done : o < to},
               !.resets    = {r \in lowered : r.at # to}
                               \union {[replaced |-> p.epoch, at |-> to]},
               !.epoch     = epoch]

\* The resets since epoch, of which the first says up to where a range read then is good.
Since(p, epoch) == {r \in p.resets : r.replaced >= epoch}
Cut(p, epoch) ==
  (CHOOSE r \in Since(p, epoch) : \A s \in Since(p, epoch) : r.replaced <= s.replaced).at

\* A slip in AcceptIn: a range read before a reset is marked whole.
AcceptInUncut(p, epoch, from, to) ==
  IF epoch \in p.first .. p.epoch THEN Mark(p, from, to) ELSE p

\* A slip in AcceptIn: a range read before a reset is ignored.
AcceptInIgnored(p, epoch, from, to) ==
  IF epoch = p.epoch THEN Mark(p, from, to) ELSE p

\* Part::accept of the offsets from .. to - 1, read in epoch.
AcceptIn(p, epoch, from, to) ==
  IF epoch = p.epoch THEN Mark(p, from, to)
  ELSE IF epoch \in p.first .. p.epoch - 1 /\ Since(p, epoch) # {}
       THEN Mark(p, from, Lower(to, Cut(p, epoch)))
       ELSE p

\* Part::new.
NewPart(epoch, kind, at, last) ==
  [epoch |-> epoch, first |-> epoch, resets |-> {},
   kind |-> kind, at |-> at, buffer |-> Nothing,
   candidate |-> at, done |-> {}, last |-> last]

-----------------------------------------------------------------------------
(* The broker's log.                                                       *)

\* The records of from .. to - 1 that have to be delivered.
Records(from, to) == {<<o, log[o + 1]>> : o \in (from .. to - 1) \ Silent}

\* Every offset that a member in the group, or the group itself, has read up to.
ReadUpTo ==
  {committed}
    \union {part[m].at : m \in {n \in group.members : part[n] # NoPart}}
    \union {a.to : a \in UNION {asks[m] : m \in group.members}}
    \union {request[m].offset : m \in {n \in Members : request[n] # Nothing}}

\* A record written while a reader stands past the end of a truncated log: the
\* reader, moved to the log end, may never see it.
Produce ==
  /\ LogEnd < MaxOffset
  /\ log' = Append(log, truncated)
  /\ overtaken' = IF \E o \in ReadUpTo : o > LogEnd
                  THEN overtaken \union {<<LogEnd, truncated>>} ELSE overtaken
  /\ UNCHANGED <<faults, logStart, truncated, group, committed, pc, local, accepted>>

LogMayLose == truncated + logStart < MaxLosses

Truncate ==
  /\ LogMayLose
  /\ \E n \in logStart .. LogEnd - 1 : log' = SubSeq(log, 1, n)
  /\ truncated' = truncated + 1
  /\ UNCHANGED <<faults, logStart, overtaken, group, committed, pc, local, accepted>>

Retain ==
  /\ LogMayLose
  /\ logStart < LogEnd
  /\ logStart' = logStart + 1
  /\ UNCHANGED <<faults, log, truncated, overtaken, group, committed, pc, local, accepted>>

-----------------------------------------------------------------------------
(* The coordinator.                                                        *)

WithoutMember(m) ==
  [group EXCEPT !.members = @ \ {m}, !.joined = @ \ {m}, !.rebalancing = TRUE]

\* A session that ran out, or a member that missed the rebalance.
Expel(m) ==
  /\ Fault
  /\ m \in group.members
  /\ group' = WithoutMember(m)
  /\ UNCHANGED <<broker, committed, pc, local, accepted>>

\* Another member of the group, outside the model, joins or leaves.
PeerMoves ==
  /\ ~group.rebalancing /\ group.gen < MaxGeneration
  /\ group' = [group EXCEPT !.rebalancing = TRUE]
  /\ UNCHANGED <<faults, broker, committed, pc, local, accepted>>

\* JoinGroup answers once every member has asked, and SyncGroup gives the partition to
\* one of them, or to a peer.  A member that began to leave while it waited does not
\* hear of it.
Waiting(m) == m \in group.members /\ pc[m] = "wait"
Assign ==
  /\ group.rebalancing /\ group.joined = group.members
  /\ group.gen < MaxGeneration
  /\ \E o \in group.members \union {Peer} :
       group' = [gen |-> group.gen + 1, members |-> group.members, joined |-> {},
                 owner |-> o, rebalancing |-> FALSE]
  /\ pc'  = [m \in Members |-> IF ~Waiting(m) THEN pc[m]
                               ELSE IF m = group'.owner THEN "assigned" ELSE "spare"]
  /\ gen' = [m \in Members |-> IF Waiting(m) THEN group.gen + 1 ELSE gen[m]]
  /\ UNCHANGED <<faults, broker, committed, signal, revoking, ending, part, epochs, shared,
                 asks, out, request, accepted>>

\* A peer that owns the partition delivers from the committed offset on, and commits.
PeerCommits ==
  /\ group.owner = Peer
  /\ LET from == IF committed < logStart THEN logStart ELSE Lower(committed, LogEnd)
     IN \E n \in from .. LogEnd :
          /\ committed' = n
          /\ accepted' = accepted \union Records(from, n)
  /\ UNCHANGED <<faults, broker, group, pc, local>>

\* Whether the coordinator still knows m under the generation it joined.
Standing(m) == m \in group.members /\ gen[m] = group.gen

-----------------------------------------------------------------------------
(* The heartbeat task, which lives from the join to the next rejoin.        *)

Beating(m) == pc[m] \notin {"join", "wait", "left"}

\* client::raise: the first revoke stands, and a lost membership replaces it.
Raise(m, reason) ==
  IF signal[m] = "none" \/ reason = "lost" THEN reason ELSE signal[m]

Heartbeat(m) ==
  /\ Beating(m)
  /\ \/ ~Standing(m) /\ signal' = [signal EXCEPT ![m] = Raise(m, "lost")]
     \/ Standing(m) /\ group.rebalancing
        /\ signal' = [signal EXCEPT ![m] = Raise(m, "rebalance")]
  /\ UNCHANGED <<faults, broker, group, committed, pc, gen, revoking, ending, part, epochs,
                 shared, asks, out, request, accepted>>

\* Consumer::refresh sees a subscribed topic's partition count change.
TopicChanged(m) ==
  /\ Fault
  /\ pc[m] = "run"
  /\ signal' = [signal EXCEPT ![m] = Raise(m, "rebalance")]
  /\ UNCHANGED <<broker, group, committed, pc, gen, revoking, ending, part, epochs,
                 shared, asks, out, request, accepted>>

-----------------------------------------------------------------------------
(* The fetch loop, which lives from install to stop_fetching.               *)

Fetching(m) == part[m] # NoPart /\ pc[m] \in {"run", "deliver", "commit"}

\* What the broker answers a Fetch at `from`, and what ListOffsets answers.
FetchAnswers(from) ==
  IF from < logStart \/ from > LogEnd
  THEN {[code |-> "outOfRange", to |-> from, records |-> {}]}
  ELSE {[code |-> "ok", to |-> n, records |-> Records(from, n)] : n \in from + 1 .. LogEnd}
ListAnswers == {[code |-> "range", from |-> logStart, to |-> LogEnd]}

\* One request of the loop's turn: a Fetch at a known position, else ListOffsets.
Ask(m) ==
  /\ Fetching(m)
  /\ part[m].buffer = Nothing
  /\ ~\E a \in asks[m] : a.epoch = shared[m]
  /\ \E answer \in IF part[m].kind = "at" THEN FetchAnswers(part[m].at) ELSE ListAnswers :
       asks' = [asks EXCEPT ![m] = @ \union
                  {[epoch |-> shared[m], kind |-> part[m].kind, at |-> part[m].at,
                    to |-> answer.to, answer |-> answer]}]
  /\ UNCHANGED <<faults, broker, group, committed, pc, gen, signal, revoking, ending, part,
                 epochs, shared, out, request, accepted>>

\* fetch's reading of a good answer: the records go to the buffer, and offsets with
\* none to deliver are done.
Buffered(p, answer) ==
  IF answer.records = {}
  THEN [Mark(p, p.at, answer.to) EXCEPT !.at = answer.to]
  ELSE [p EXCEPT !.at = answer.to,
                 !.buffer = [epoch |-> p.epoch, from |-> p.at, to |-> answer.to,
                             records |-> answer.records]]

\* resolve's three ways out of an offset the log does not have.
Resolved(p, start, end, epoch) ==
  IF p.at < start THEN [Mark(p, p.at, start) EXCEPT !.kind = "at", !.at = start]
  ELSE IF p.at > end THEN [Reset(p, end, epoch) EXCEPT !.kind = "at", !.at = end]
  ELSE [p EXCEPT !.kind = "at"]

\* The part after its answer, each kind under the lock that re-reads the state.
Settled(p, a, epoch) ==
  CASE a.answer.code = "outOfRange" -> [p EXCEPT !.kind = "outOfRange"]
    [] a.answer.code = "ok"         -> Buffered(p, a.answer)
    [] a.kind = "start"             -> [p EXCEPT !.kind = "at", !.at = a.answer.from,
                                                 !.candidate = a.answer.from,
                                                 !.done = {}, !.last = None]
    [] OTHER -> Resolved(p, a.answer.from, a.answer.to, epoch)

\* An answer is applied to the assignment and the position it was asked for.
Fresh(m, a) ==
  /\ a.epoch = shared[m]
  /\ part[m] # NoPart
  /\ part[m].buffer = Nothing
  /\ part[m].kind = a.kind /\ part[m].at = a.at

\* The answer reaches the loop.
Answer(m) ==
  \E a \in asks[m] :
    /\ asks' = [asks EXCEPT ![m] = @ \ {a}]
    /\ part' = [part EXCEPT ![m] = IF Fresh(m, a) THEN Settled(@, a, epochs[m]) ELSE @]
    /\ epochs' = [epochs EXCEPT ![m] =
                    IF part[m] # NoPart /\ part'[m].epoch # part[m].epoch THEN @ + 1 ELSE @]
    /\ UNCHANGED <<faults, broker, group, committed, pc, gen, signal, revoking, ending, shared,
                   out, request, accepted>>

\* The request fails, or its loop is aborted.
AskFails(m) ==
  /\ \E a \in asks[m] : asks' = [asks EXCEPT ![m] = @ \ {a}]
  /\ UNCHANGED <<faults, broker, group, committed, pc, gen, signal, revoking, ending, part,
                 epochs, shared, out, request, accepted>>

\* Consumer::stop_fetching: the loops are aborted, unless one already has its answer
\* and runs on to the lock.
Stopped(p) == IF p = NoPart THEN p ELSE [p EXCEPT !.buffer = Nothing]
AbortLoops(m) ==
  \/ asks' = [asks EXCEPT ![m] = {}] /\ UNCHANGED faults
  \/ asks[m] # {} /\ Fault /\ UNCHANGED asks
StopFetching(m) ==
  /\ AbortLoops(m)
  /\ shared' = [shared EXCEPT ![m] = @ + 1]
  /\ part'   = [part EXCEPT ![m] = Stopped(@)]

-----------------------------------------------------------------------------
(* The input's task: Consumer::next and deliver.                           *)

\* take_buffer hands the records to deliver.
Take(m) ==
  /\ pc[m] = "run" /\ part[m] # NoPart /\ part[m].buffer # Nothing
  /\ out'  = [out EXCEPT ![m] = part[m].buffer]
  /\ part' = [part EXCEPT ![m] = Stopped(@)]
  /\ pc'   = [pc EXCEPT ![m] = "deliver"]
  /\ UNCHANGED <<faults, broker, group, committed, gen, signal, revoking, ending, epochs,
                 shared, asks, request, accepted>>

\* Where Fetched::cut may end a cut: behind a record, and the last one at the end of
\* the span.
CutEnds(o) ==
  LET after == {r[1] + 1 : r \in o.records}
      last  == {n \in after : \A k \in after : k <= n}
  IN (after \ last) \union {o.to}

\* Every batch of a cut is in every inbox: mark_accepted.
Accept(m) ==
  /\ pc[m] = "deliver"
  /\ \E end \in {n \in CutEnds(out[m]) : n > out[m].from} :
       /\ accepted' = accepted \union {r \in out[m].records : r[1] \in out[m].from .. end - 1}
       /\ part' = [part EXCEPT ![m] = AcceptIn(@, out[m].epoch, out[m].from, end)]
       /\ IF end = out[m].to
          THEN out' = [out EXCEPT ![m] = Nothing] /\ pc' = [pc EXCEPT ![m] = "run"]
          ELSE out' = [out EXCEPT ![m].from = end] /\ UNCHANGED pc
  /\ UNCHANGED <<faults, broker, group, committed, gen, signal, revoking, ending, epochs,
                 shared, asks, request>>

\* The drain deadline of a pending revoke passes: what is left is deferred.
DrainDue(m) == signal[m] # "none"
Defer(m) ==
  /\ pc[m] = "deliver" /\ DrainDue(m)
  /\ out' = [out EXCEPT ![m] = Nothing]
  /\ pc'  = [pc EXCEPT ![m] = "run"]
  /\ UNCHANGED <<faults, broker, group, committed, gen, signal, revoking, ending, part, epochs,
                 shared, asks, request, accepted>>

\* Consumer::next finds a revoke pending.
Revoke(m) ==
  /\ pc[m] = "run" /\ signal[m] # "none"
  /\ StopFetching(m)
  /\ revoking' = [revoking EXCEPT ![m] = signal[m]]
  /\ pc' = [pc EXCEPT ![m] = "revoked"]
  /\ UNCHANGED <<broker, group, committed, gen, signal, ending, epochs, out, request,
                 accepted>>

\* Shutdown, or a consumer that closed: whatever next or deliver was doing is dropped,
\* and leave begins.
Installed(m) == pc[m] \in {"run", "deliver", "commit", "revoked", "finalCommit", "rejoin"}
Shutdown(m) ==
  /\ Fault
  /\ ~ending[m] /\ pc[m] # "left"
  /\ shared'  = [shared EXCEPT ![m] = @ + 1]
  /\ part'    = [part EXCEPT ![m] = Stopped(@)]
  /\ asks'    = [asks EXCEPT ![m] = {}]
  /\ ending'  = [ending EXCEPT ![m] = TRUE]
  /\ out'     = [out EXCEPT ![m] = Nothing]
  /\ request' = [request EXCEPT ![m] = Nothing]
  /\ pc' = [pc EXCEPT ![m] = IF Installed(m) THEN "revoked" ELSE "rejoin"]
  /\ UNCHANGED <<broker, group, committed, gen, signal, revoking, epochs, accepted>>

-----------------------------------------------------------------------------
(* The commit.                                                             *)

HasCommit(m) == part[m] # NoPart /\ part[m].kind # "start" /\ Pending(part[m])

\* commit_all's `self.revoking.or(pending)`.
Lost(m) == "lost" = IF revoking[m] # "none" THEN revoking[m] ELSE signal[m]

\* The candidate is read under the lock, and the lock is gone before the request.
SendCommit(m) ==
  /\ HasCommit(m)
  /\ \/ pc[m] = "run" /\ pc' = [pc EXCEPT ![m] = "commit"]
     \/ pc[m] = "revoked" /\ ~Lost(m) /\ pc' = [pc EXCEPT ![m] = "finalCommit"]
  /\ request' = [request EXCEPT ![m] = [offset |-> part[m].candidate, answer |-> "sent"]]
  /\ UNCHANGED <<faults, broker, group, committed, gen, signal, revoking, ending, part, epochs,
                 shared, asks, out, accepted>>

Answered(m, code) == request' = [request EXCEPT ![m].answer = code]

\* The coordinator takes the offset from a member in standing, and refuses others.
ServeCommit(m) ==
  /\ request[m] # Nothing /\ request[m].answer = "sent"
  /\ \/ Standing(m) /\ committed' = request[m].offset /\ Answered(m, "ok")
     \/ Standing(m) /\ group.rebalancing /\ Answered(m, "rebalance") /\ UNCHANGED committed
     \/ ~Standing(m) /\ Answered(m, "fenced") /\ UNCHANGED committed
  /\ UNCHANGED <<faults, broker, group, pc, gen, signal, revoking, ending, part, epochs, shared,
                 asks, out, accepted>>

\* What commit hears: the coordinator's code, or that the call failed, served or not.
Heard(m) == {request[m].answer, "failed"} \ {"sent"}

\* What next or commit_all does after the answer: a failed final commit is retried
\* until its deadline.
AfterCommit(m, code) ==
  IF pc[m] = "commit" THEN {"run"}
  ELSE IF code \in {"failed", "rebalance"} THEN {"revoked", "rejoin"}
  ELSE {"rejoin"}

CommitAnswered(m) ==
  /\ request[m] # Nothing
  /\ \E code \in Heard(m) :
       /\ part' = [part EXCEPT ![m].last = IF code = "ok" THEN request[m].offset ELSE @]
       /\ signal' = [signal EXCEPT ![m] =
                       IF code = "fenced" THEN Raise(m, "lost")
                       ELSE IF code = "rebalance" THEN Raise(m, "rebalance") ELSE @]
       /\ \E next \in AfterCommit(m, code) : pc' = [pc EXCEPT ![m] = next]
  /\ request' = [request EXCEPT ![m] = Nothing]
  /\ UNCHANGED <<faults, broker, group, committed, gen, revoking, ending, epochs, shared, asks,
                 out, accepted>>

-----------------------------------------------------------------------------
(* Joining and leaving.                                                    *)

\* commit_all is over: the commit is through, given up, or not to be made.
Committed(m) == pc[m] = "rejoin" \/ (pc[m] = "revoked" /\ (Lost(m) \/ ~HasCommit(m)))

\* JoinGroup, or a JoinGroup again.
JoinGroup(m) ==
  /\ group' = [group EXCEPT !.members = @ \union {m}, !.joined = @ \union {m},
                            !.rebalancing = TRUE]
  /\ pc' = [pc EXCEPT ![m] = "wait"]

\* rejoin: the parts and the signal are cleared, and the member asks to join.
Rejoin(m) ==
  /\ Committed(m) /\ ~ending[m]
  /\ shared'   = [shared EXCEPT ![m] = @ + 1]
  /\ part'     = [part EXCEPT ![m] = NoPart]
  /\ signal'   = [signal EXCEPT ![m] = "none"]
  /\ revoking' = [revoking EXCEPT ![m] = "none"]
  /\ JoinGroup(m)
  /\ UNCHANGED <<faults, broker, committed, gen, ending, epochs, asks, out, request, accepted>>

\* The member's first join.
Join(m) ==
  /\ pc[m] = "join"
  /\ JoinGroup(m)
  /\ UNCHANGED <<faults, broker, committed, local, accepted>>

\* The coordinator dropped the member while it waited: UNKNOWN_MEMBER_ID, and the join
\* loop asks again.
JoinRefused(m) ==
  /\ pc[m] = "wait" /\ m \notin group.members
  /\ JoinGroup(m)
  /\ UNCHANGED <<faults, broker, committed, local, accepted>>

\* leave's LeaveGroup.
Leave(m) ==
  /\ Committed(m) /\ ending[m]
  /\ part'  = [part EXCEPT ![m] = NoPart]
  /\ pc'    = [pc EXCEPT ![m] = "left"]
  /\ group' = IF m \in group.members THEN WithoutMember(m) ELSE group
  /\ UNCHANGED <<faults, broker, committed, gen, signal, revoking, ending, epochs, shared,
                 asks, out, request, accepted>>

\* fetch_committed and install, with the partition or without.
Install(m) ==
  /\ pc[m] \in {"assigned", "spare"} /\ signal[m] = "none"
  /\ shared' = [shared EXCEPT ![m] = @ + 1]
  /\ IF pc[m] = "assigned"
     THEN /\ part' = [part EXCEPT ![m] =
                        IF committed = None THEN NewPart(epochs[m], "start", 0, None)
                        ELSE NewPart(epochs[m], "at", committed, committed)]
          /\ epochs' = [epochs EXCEPT ![m] = @ + 1]
     ELSE UNCHANGED <<part, epochs>>
  /\ pc' = [pc EXCEPT ![m] = "run"]
  /\ UNCHANGED <<faults, broker, group, committed, gen, signal, revoking, ending, asks, out,
                 request, accepted>>

\* A revoke before install: abandon, and join again.
Abandon(m) ==
  /\ pc[m] \in {"assigned", "spare"} /\ signal[m] # "none"
  /\ signal' = [signal EXCEPT ![m] = "none"]
  /\ JoinGroup(m)
  /\ UNCHANGED <<faults, broker, committed, gen, revoking, ending, part, epochs, shared,
                 asks, out, request, accepted>>

\* The process dies, or has left, and another starts in its place.
Restart(m) ==
  /\ Fault
  /\ pc[m] # "join"
  /\ pc'       = [pc EXCEPT ![m] = "join"]
  /\ group'    = IF m \in group.members THEN WithoutMember(m) ELSE group
  /\ gen'      = [gen EXCEPT ![m] = 0]
  /\ signal'   = [signal EXCEPT ![m] = "none"]
  /\ revoking' = [revoking EXCEPT ![m] = "none"]
  /\ ending'   = [ending EXCEPT ![m] = FALSE]
  /\ part'     = [part EXCEPT ![m] = NoPart]
  /\ epochs'   = [epochs EXCEPT ![m] = 1]
  /\ shared'   = [shared EXCEPT ![m] = 0]
  /\ asks'     = [asks EXCEPT ![m] = {}]
  /\ out'      = [out EXCEPT ![m] = Nothing]
  /\ request'  = [request EXCEPT ![m] = Nothing]
  /\ UNCHANGED <<broker, committed, accepted>>

-----------------------------------------------------------------------------

Init ==
  /\ log = [i \in 1 .. MaxOffset |-> 0] /\ logStart = 0 /\ truncated = 0 /\ faults = 0
  /\ group = [gen |-> 0, members |-> {}, joined |-> {}, owner |-> Peer,
              rebalancing |-> FALSE]
  /\ committed = None
  /\ pc       = [m \in Members |-> "join"]
  /\ gen      = [m \in Members |-> 0]
  /\ signal   = [m \in Members |-> "none"]
  /\ revoking = [m \in Members |-> "none"]
  /\ ending   = [m \in Members |-> FALSE]
  /\ part     = [m \in Members |-> NoPart]
  /\ epochs   = [m \in Members |-> 1]
  /\ shared   = [m \in Members |-> 0]
  /\ asks     = [m \in Members |-> {}]
  /\ out      = [m \in Members |-> Nothing]
  /\ request  = [m \in Members |-> Nothing]
  /\ accepted = {} /\ overtaken = {}

Next ==
  \/ Produce \/ Truncate \/ Retain \/ Assign \/ PeerMoves \/ PeerCommits
  \/ \E m \in Members :
       \/ Expel(m) \/ Heartbeat(m) \/ TopicChanged(m)
       \/ Ask(m) \/ Answer(m) \/ AskFails(m)
       \/ Take(m) \/ Accept(m) \/ Defer(m) \/ Revoke(m) \/ Shutdown(m)
       \/ SendCommit(m) \/ ServeCommit(m) \/ CommitAnswered(m)
       \/ Rejoin(m) \/ Leave(m) \/ Join(m) \/ JoinRefused(m) \/ Install(m) \/ Abandon(m)
       \/ Restart(m)

Spec == Init /\ [][Next]_vars

-----------------------------------------------------------------------------

\* The group never commits past a record it has not delivered, but for one written after a
\* truncation while a reader stood past the log end: every other record the log still holds
\* below the committed offset was accepted downstream, by whichever member held the
\* partition, across rebalances, lost memberships, crashes, stale answers and a log
\* truncated under records on their way.  The exception is `overtaken`: resolve moves a
\* reader past the end to the log end (part.reset(end)), past whatever was written since
\* the truncation.  No record written before the first truncation is ever in it.
CommittedIsAccepted ==
  \A o \in logStart .. Lower(committed, LogEnd) - 1 :
    LET record == <<o, log[o + 1]>>
    IN o \in Silent \/ record \in accepted \/ (record \in overtaken /\ log[o + 1] > 0)

\* docs/adr/kafka-input.md: "An out-of-range position doesn't skip retained records", and
\* under the contiguous rule "a committed offset never covers an undelivered record"; the
\* ADR's exceptions are records counted as dropped.  What a member whose position was reset
\* commits next covers no record the log holds that nobody accepted (resolve, Part::reset).
NoRetainedRecordSkipped ==
  \A m \in Members :
    Fetching(m) /\ part[m].resets # {} =>
      \A o \in logStart .. Lower(part[m].candidate, LogEnd) - 1 :
        o \in Silent \/ <<o, log[o + 1]>> \in accepted

\* The part once what a member holds is accepted: what deliver has left, then what
\* is buffered.
OnceDelivered(m) ==
  LET p == IF out[m] = Nothing THEN part[m]
           ELSE AcceptIn(part[m], out[m].epoch, out[m].from, out[m].to)
  IN IF part[m].buffer = Nothing THEN p
     ELSE AcceptIn(p, part[m].buffer.epoch, part[m].buffer.from, part[m].buffer.to)

\* No hole holds the commit for ever: while no revoke is pending, accepting what the
\* member has in hand takes the candidate to the position it fetches from next, so
\* nothing deferred, cut at a reset or skipped stays below it unmarked.
NothingHoldsTheCommit ==
  \A m \in Members :
    Fetching(m) /\ signal[m] = "none" /\ part[m].kind # "start"
      => OnceDelivered(m).candidate = part[m].at
=============================================================================
