----------------------------- MODULE KafkaProducer -----------------------------
(***************************************************************************)
(* kafka_out: the sink of logit-outputs/src/kafka (sink.rs), its facade    *)
(* over topics (multi.rs) and the idempotent producer of each topic        *)
(* (producer.rs), as write_loop drives them, over brokers that answer,     *)
(* refuse, lose an answer, or get a request after its connection failed.   *)
(*                                                                         *)
(* Records are numbered in the order they are encoded.  A partition's      *)
(* requests go out one after another and partitions proceed on their own,  *)
(* so the brokers behind them are left out: what a broken connection does  *)
(* to several partitions is one of the things that may happen to each.     *)
(* Metadata is left out as well: a partition without a leader, a topic     *)
(* that is missing or a stale leader is an answer of its class.            *)
(***************************************************************************)
EXTENDS Naturals, Sequences, FiniteSets, SequencesExt, FiniteSetsExt

CONSTANTS
  Layouts,       \* the <<topic, partition>> pairs a sink writes to
  None,          \* no identity, no sequence, no pending batch
  Modes,         \* "idempotent", "plain" (idempotent: false) or "unacked" (acks: none)
  Postures,      \* "at_least_once", "at_most_once"
  NBatches,      \* bound: batches
  BatchRecords,  \* bound: records of a batch
  MaxEpoch,      \* i16::MAX
  MaxSequence,   \* i32::MAX
  Kept,          \* batches a broker remembers for a producer and partition
  MaxFaults,     \* bound: answers that are not an append, and answers lost
  MaxCuts        \* bound: attempts cut by a shutdown's grace

ASSUME ProducerAssumption ==
  /\ \A l \in Layouts : IsFiniteSet(l) /\ l # {} /\ l \subseteq Nat \X Nat
  /\ Modes \subseteq {"idempotent", "plain", "unacked"}
  /\ Postures \subseteq {"at_least_once", "at_most_once"}
  /\ {NBatches, BatchRecords, MaxEpoch, MaxSequence, Kept, MaxFaults, MaxCuts} \subseteq Nat

VARIABLES
  conf,     \* [mode, posture, places]
  batch,    \* batches observed
  pending,  \* MultiPending: [raw, parts, cut]
  producer, \* Producer of every topic
  sent,     \* an attempt under way: [stops, answers]
  net,      \* requests on connections nobody reads any more
  log,      \* every partition's log
  held,     \* what every partition's leader remembers of each producer id
  fate,     \* how each record was counted
  gap,      \* why brokers refused requests in hand for a gap in their sequences
  used      \* [faults, cuts] so far

vars == <<conf, batch, pending, producer, sent, net, log, held, fate, gap, used>>

Places == UNION Layouts
Topic(place) == place[1]
Topics == {Topic(p) : p \in Places}
Records == 1..(NBatches * BatchRecords)
Idempotent == conf.mode = "idempotent"
Spend(what, n, bound) == used[what] + n <= bound /\ used' = [used EXCEPT ![what] = @ + n]

(***************************************************************************)
(* Identity and sequences.                                                 *)
(***************************************************************************)
Opened == [id |-> None, minted |-> 0, reinit |-> FALSE, bump |-> FALSE, next |-> [p \in Places |-> 0]]

\* The sequence of the last record, not of the one after it.
LastSequence(base, n) == base + n - 1

\* next_sequence: sequences wrap from i32::MAX to 0.
NextSequence(base, n) == (base + n) % (MaxSequence + 1)

\* restart_sequences; a generation is an identity.
Restarted(p, id) ==
  [p EXCEPT !.id = id, !.next = [q \in Places |-> 0], !.bump = FALSE, !.reinit = FALSE]

NeedsProducerId(p) == p.id = None \/ p.reinit \/ (p.bump /\ p.id.epoch = MaxEpoch)

InitProducerId(p) ==
  Restarted([p EXCEPT !.minted = @ + 1], [pid |-> p.minted + 1, epoch |-> 0])

EnsureIdentity(p) ==
  CASE ~Idempotent -> p
    [] NeedsProducerId(p) -> InitProducerId(p)
    [] ~NeedsProducerId(p) /\ p.bump -> Restarted(p, [p.id EXCEPT !.epoch = @ + 1])
    [] OTHER -> p

\* Whether a part was numbered under its producer's current generation.
Numbered(p, part) == part.seq # None /\ part.seq.id = p.id

NewPart(place, recs, resend) ==
  [place |-> place, recs |-> recs, seq |-> None, st |-> "clean", resend |-> resend]
Unsettled(part) == part.st \in {"clean", "ambiguous", "refused"}

\* stamp
Stamp(p, part) ==
  IF Numbered(p, part) THEN [producer |-> p, part |-> part]
  ELSE [producer |-> [p EXCEPT !.next[part.place] = NextSequence(@, Len(part.recs))],
        part |-> [part EXCEPT !.seq = [id |-> p.id, base |-> p.next[part.place]]]]

\* The stamps of the unsettled parts of the topics that got that far, in order.
StampAll(ps, parts, topics) ==
  FoldLeft(LAMBDA acc, part :
             LET t == Topic(part.place)
                 s == Stamp(acc.producer[t], part)
             IN IF t \in topics /\ Idempotent /\ Unsettled(part)
                THEN [producer |-> [acc.producer EXCEPT ![t] = s.producer],
                      parts |-> Append(acc.parts, s.part)]
                ELSE [acc EXCEPT !.parts = Append(@, part)],
           [producer |-> ps, parts |-> <<>>], parts)

(***************************************************************************)
(* A batch: observe_batch, the encode, and each topic's prepare.           *)
(***************************************************************************)
\* abandon, for every topic: a numbered part nobody settled leaves a gap.
Abandon(ps, parts) ==
  [t \in Topics |->
     [ps[t] EXCEPT !.bump = @ \/ (/\ Idempotent
                                  /\ \E part \in ToSet(parts) :
                                       Topic(part.place) = t /\ Unsettled(part) /\ Numbered(ps[t], part))]]

\* The batch before is released first, if it was left without a final send.
ObserveBatch ==
  /\ batch < NBatches /\ sent = None
  /\ pending # None => pending.cut
  /\ batch' = batch + 1
  /\ \E where \in [1..BatchRecords -> conf.places] :
       pending' = [raw |-> [i \in 1..BatchRecords |-> <<batch * BatchRecords + i, where[i]>>],
                   parts |-> <<>>, cut |-> FALSE]
  /\ producer' = IF pending = None THEN producer ELSE Abandon(producer, pending.parts)
  /\ UNCHANGED <<conf, sent, net, log, held, fate, gap, used>>

RawOf(topics) == SelectSeq(pending.raw, LAMBDA r : Topic(r[2]) \in topics)

\* prepare: a partition's records are one part, or are cut under max_request_bytes.
Prepared(topics, whole) ==
  LET recs(p) == LET mine == SelectSeq(RawOf(topics), LAMBDA r : r[2] = p)
                 IN [i \in DOMAIN mine |-> mine[i][1]]
      cut(p) == IF whole THEN <<NewPart(p, recs(p), FALSE)>>
                ELSE [i \in DOMAIN recs(p) |-> NewPart(p, <<recs(p)[i]>>, FALSE)]
  IN FlattenSeq(SetToSeq({cut(p) : p \in {q \in Places : recs(q) # <<>>}}))

(***************************************************************************)
(* An attempt: every topic prepares if it has not, gets its identity and   *)
(* numbers its parts.  A topic that stops there answers for all its parts, *)
(* and a part that cannot be encoded is answered for before any is sent.   *)
(***************************************************************************)
Faults == {"clean", "refused"}

\* The topics with something left to send.
Involved ==
  {Topic(r[2]) : r \in ToSet(pending.raw)}
  \cup {Topic(x.place) : x \in {y \in ToSet(pending.parts) : Unsettled(y)}}

\* Where a topic can stop: its metadata, before or after its identity, and a new identity.
Stops(t) ==
  (IF RawOf({t}) # <<>> THEN {"prepare"} ELSE {"metadata"})
  \cup (IF Idempotent /\ NeedsProducerId(producer[t]) THEN {"identity"} ELSE {})

\* batch::encode may refuse a part the first time it sees it: one prepared by this attempt,
\* or one that never got a number.
NotEncodedYet(parts, topics) ==
  {i \in DOMAIN parts : /\ Topic(parts[i].place) \in topics /\ Unsettled(parts[i])
                        /\ i > Len(pending.parts) \/ (Idempotent /\ parts[i].seq = None)}

Attempt ==
  /\ pending # None /\ sent = None /\ ~pending.cut
  /\ \E stopped \in SUBSET Involved, whole \in IF pending.raw = <<>> THEN {TRUE} ELSE BOOLEAN :
     \E at \in [stopped -> {"prepare", "metadata", "identity"}], fault \in [stopped -> Faults] :
       LET unprepared == {t \in stopped : at[t] = "prepare"}
           going == Involved \ stopped
           named == Involved \ {t \in stopped : at[t] \in {"prepare", "identity"}}
           ps == [t \in Topics |-> IF t \in named THEN EnsureIdentity(producer[t]) ELSE producer[t]]
           all == pending.parts \o Prepared(Involved \ unprepared, whole)
           stamped == StampAll(ps, all, going)
       IN /\ \A t \in stopped : at[t] \in Stops(t)
          /\ producer' = stamped.producer
          /\ pending' = [pending EXCEPT !.parts = stamped.parts,
                                        !.raw = RawOf(unprepared)]
          /\ \E refused \in SUBSET NotEncodedYet(all, going) :
               /\ Spend("faults", Cardinality(stopped) + Cardinality(refused), MaxFaults)
               /\ sent' = [stops |-> fault,
                           answers |-> [i \in DOMAIN all |->
                             CASE i \in refused -> "unencoded"
                               [] i \notin refused /\ Topic(all[i].place) \in going /\ Unsettled(all[i]) -> "wait"
                               [] OTHER -> "none"]]
  /\ UNCHANGED <<conf, batch, net, log, held, fate, gap>>

(***************************************************************************)
(* The broker, as a partition's leader checks a producer's sequences.      *)
(***************************************************************************)
Request(part) ==
  [place |-> part.place, recs |-> part.recs,
   id |-> IF Idempotent THEN part.seq.id ELSE None,
   base |-> IF Idempotent THEN part.seq.base ELSE 0]

Check(r) ==
  LET known == r.id # None /\ r.id.pid \in DOMAIN held[r.place]
      s == held[r.place][r.id.pid]
  IN CASE ~known -> "append"
       [] known /\ r.id.epoch < s.epoch -> "stale"
       [] known /\ r.id.epoch > s.epoch -> IF r.base = 0 THEN "append" ELSE "out_of_order"
       [] known /\ r.id.epoch = s.epoch ->
            IF <<r.base, Len(r.recs)>> \in ToSet(s.recent) THEN "duplicate"
            ELSE IF r.base = s.next THEN "append" ELSE "out_of_order"

Remembered(r) ==
  LET old == held[r.place]
      recent == IF r.id.pid \in DOMAIN old /\ old[r.id.pid].epoch = r.id.epoch
                THEN old[r.id.pid].recent ELSE <<>>
      more == Append(recent, <<r.base, Len(r.recs)>>)
      s == [epoch |-> r.id.epoch, next |-> (r.base + Len(r.recs)) % (MaxSequence + 1),
            recent |-> IF Len(more) > Kept THEN Tail(more) ELSE more]
  IN [n \in DOMAIN old \cup {r.id.pid} |-> IF n = r.id.pid THEN s ELSE old[n]]

Receive(r) ==
  IF Check(r) = "append"
  THEN /\ log' = [log EXCEPT ![r.place] = @ \o [i \in DOMAIN r.recs |-> [rec |-> r.recs[i], id |-> r.id]]]
       /\ held' = IF r.id = None THEN held ELSE [held EXCEPT ![r.place] = Remembered(r)]
  ELSE UNCHANGED <<log, held>>

\* A request whose sender is no longer waiting reaches its broker after all.
Land(r) ==
  /\ r \in net /\ net' = net \ {r}
  /\ Receive(r)
  /\ UNCHANGED <<conf, batch, pending, producer, sent, fate, gap, used>>

(***************************************************************************)
(* BrokerJob: a partition's parts go out in order, and once one of them    *)
(* has failed, the ones behind it are not sent in this attempt.  A part    *)
(* that was not encoded never got into the job, and stops nothing.         *)
(***************************************************************************)
SamePlace(i) == {j \in DOMAIN pending.parts : pending.parts[j].place = pending.parts[i].place}
Turn(i) == sent.answers[i] = "wait" /\ \A j \in SamePlace(i) : j < i => sent.answers[j] # "wait"

\* Later parts go out past a failure.
NeverBehind(i) == FALSE

FailedBefore(i) ==
  \E j \in SamePlace(i) : j < i /\ sent.answers[j] \notin {"none", "accepted", "unencoded"}

\* What a sequence gap that part i ran into is put down to.
GapCause(i) ==
  IF \E j \in SamePlace(i) : j < i /\ sent.answers[j] = "unencoded" THEN "unencoded" ELSE "epoch"

\* What a part not appended is answered: a failed dial, a broker's refusal, and only to an
\* idempotent producer a verdict on its sequences or epoch.
Refusals ==
  {"clean", "refused"}
  \cup (IF conf.mode = "unacked" THEN {} ELSE {"rejected", "too_large", "named"})
  \cup (IF Idempotent THEN {"out_of_order", "stale"} ELSE {})

Answer(i, a) == sent' = [sent EXCEPT !.answers[i] = a]

Behind(i) ==
  /\ sent # None /\ i \in DOMAIN sent.answers /\ Turn(i) /\ FailedBefore(i)
  /\ Answer(i, "clean")
  /\ UNCHANGED <<conf, batch, pending, producer, net, log, held, fate, gap, used>>

Produce(i) ==
  /\ sent # None /\ i \in DOMAIN sent.answers /\ Turn(i) /\ ~FailedBefore(i)
  /\ LET part == pending.parts[i]
         r == Request(part)
         c == Check(r)
     IN \/ \* acks: none: written, and taken for accepted.
           /\ conf.mode = "unacked"
           /\ Answer(i, "accepted") /\ net' = net \cup {r}
           /\ UNCHANGED <<log, held, gap, used>>
        \/ \* Answered.
           /\ conf.mode # "unacked"
           /\ Receive(r)
           /\ Answer(i, IF c \in {"append", "duplicate"} THEN "accepted" ELSE c)
           /\ gap' = gap \cup (IF c = "out_of_order" THEN {GapCause(i)} ELSE {})
           /\ UNCHANGED <<net, used>>
        \/ \* Not sent, or refused before an append.
           /\ Spend("faults", 1, MaxFaults)
           /\ \E a \in Refusals : Answer(i, a)
           /\ UNCHANGED <<net, log, held, gap>>
        \/ \* Written, and the answer lost; or written in part before the write failed.
           /\ Spend("faults", 1, MaxFaults)
           /\ Answer(i, "ambiguous") /\ net' = net \cup {r}
           /\ UNCHANGED <<log, held, gap>>
  /\ UNCHANGED <<conf, batch, pending, producer, fate>>

(***************************************************************************)
(* apply, verdict, and the sink's own end of the attempt.                  *)
(***************************************************************************)
Rejects == {"too_large", "named", "rejected", "unencoded"}

\* What an answer that names the first record leaves; one that names them all rejects the part.
Trimmed(part) == Tail(part.recs)

Halves(part) ==
  LET k == Len(part.recs) \div 2 IN
  <<NewPart(part.place, SubSeq(part.recs, 1, k), TRUE),
    NewPart(part.place, SubSeq(part.recs, k + 1, Len(part.recs)), TRUE)>>

Apply(part, a) ==
  LET as(st) == <<[part EXCEPT !.st = st]>> IN
  CASE a = "none" -> <<part>>
    [] a \in {"accepted", "clean", "refused", "ambiguous"} -> as(a)
    [] a = "out_of_order" -> as("ambiguous")
    [] a = "stale" -> as("clean")
    [] a = "too_large" -> IF Len(part.recs) > 1 /\ ~part.resend THEN Halves(part) ELSE as("rejected")
    [] a = "named" -> IF Len(part.recs) > 1 /\ ~part.resend
                      THEN <<NewPart(part.place, Trimmed(part), TRUE)>> ELSE as("rejected")
    [] a \in {"rejected", "unencoded"} -> as("rejected")

\* Only an answer that found a gap counts as one.
GapsFound(a) == a = "out_of_order"

\* A settlement that appended nothing leaves a gap, and so does an answer that found one.
Gaps(a) == a \in Rejects \cup {"out_of_order"}

\* The flags apply leaves on a topic's producer.
Flagged(p, answers) ==
  [p EXCEPT !.bump = @ \/ (Idempotent /\ \E a \in answers : Gaps(a)),
            !.reinit = @ \/ "stale" \in answers]

AnswersTo(t) == {sent.answers[i] : i \in {j \in DOMAIN sent.answers : Topic(pending.parts[j].place) = t}}

Recs(parts) == UNION {ToSet(x.recs) : x \in ToSet(parts)}

\* The records an answer settles, which are counted accepted or dropped.
SettledBy(part, a) ==
  IF a = "none" THEN {} ELSE ToSet(part.recs) \ Recs(SelectSeq(Apply(part, a), Unsettled))

\* verdict: the strongest class of what is unsettled; a stopped topic is one entry.
Verdict(parts, stops) ==
  LET open == {stops[t] : t \in DOMAIN stops}
              \cup {x.st : x \in {y \in ToSet(parts) : Unsettled(y) /\ Topic(y.place) \notin DOMAIN stops}}
  IN CASE "refused" \in open -> "refused"
       [] "refused" \notin open /\ "ambiguous" \in open -> "ambiguous"
       [] open = {"clean"} -> "clean"
       [] open = {} -> IF \E x \in ToSet(parts) : x.st = "accepted" THEN "ok"
                       ELSE IF \E x \in ToSet(parts) : x.st = "rejected" THEN "rejected" ELSE "ok"

\* is_retryable
Retryable(v) == v \in {"clean", "refused"} \/ (v = "ambiguous" /\ conf.posture = "at_least_once")

\* A retry resends them.
KeepsAmbiguous(v) == FALSE

\* Under at_most_once a refused attempt, which is retried, drops its ambiguous parts first.
DropsAmbiguous(v) == conf.posture = "at_most_once" /\ v = "refused"

Finish ==
  /\ sent # None /\ \A i \in DOMAIN sent.answers : sent.answers[i] # "wait"
  /\ LET parts == FlattenSeq([i \in DOMAIN pending.parts |-> Apply(pending.parts[i], sent.answers[i])])
         flagged == [t \in Topics |-> Flagged(producer[t], AnswersTo(t))]
         v == Verdict(parts, sent.stops)
         amb == {x \in ToSet(parts) : DropsAmbiguous(v) /\ x.st = "ambiguous"}
         kept == [i \in DOMAIN parts |-> IF parts[i] \in amb THEN [parts[i] EXCEPT !.st = "dropped"]
                                                              ELSE parts[i]]
         gaps == [t \in Topics |-> [flagged[t] EXCEPT !.bump = @ \/
                    \E x \in amb : Idempotent /\ Topic(x.place) = t /\ Numbered(flagged[t], x)]]
         left == Recs(SelectSeq(parts, Unsettled)) \cup {r[1] : r \in ToSet(pending.raw)}
         lost == IF Retryable(v) THEN UNION {ToSet(x.recs) : x \in amb}
                 ELSE IF v = "ambiguous" THEN left ELSE {}
         settled(S) == UNION {SettledBy(pending.parts[i], sent.answers[i]) :
                                i \in {j \in DOMAIN sent.answers : sent.answers[j] \in S}}
     IN /\ pending' = IF Retryable(v) THEN [pending EXCEPT !.parts = kept] ELSE None
        /\ producer' = IF Retryable(v) THEN gaps ELSE Abandon(gaps, kept)
        /\ fate' = [r \in Records |-> CASE r \in settled({"accepted"}) -> "accepted"
                                        [] r \in settled(Rejects) -> "rejected"
                                        [] r \in lost -> "lost"
                                        [] OTHER -> fate[r]]
  /\ sent' = None
  /\ UNCHANGED <<conf, batch, net, log, held, gap, used>>

\* write_loop lets go of the batch without a final send, as when the grace of a shutdown
\* runs out; a request already written may still land, and the sink expects another batch.
Cut ==
  /\ pending # None /\ ~pending.cut /\ Spend("cuts", 1, MaxCuts)
  /\ pending' = [pending EXCEPT !.cut = TRUE] /\ sent' = None
  /\ \E written \in SUBSET {i \in DOMAIN pending.parts : sent # None /\ Turn(i) /\ ~FailedBefore(i)} :
       net' = net \cup {Request(pending.parts[i]) : i \in written}
  /\ UNCHANGED <<conf, batch, producer, log, held, fate, gap>>

Init ==
  /\ conf \in [mode : Modes, posture : Postures, places : Layouts]
  /\ batch = 0 /\ pending = None /\ sent = None /\ net = {}
  /\ producer = [t \in Topics |-> Opened]
  /\ log = [p \in Places |-> <<>>] /\ held = [p \in Places |-> <<>>]
  /\ fate = [r \in Records |-> "none"] /\ gap = {}
  /\ used = [faults |-> 0, cuts |-> 0]

Next ==
  \/ ObserveBatch \/ Attempt \/ Finish \/ Cut
  \/ \E i \in Records : Behind(i) \/ Produce(i)
  \/ \E r \in net : Land(r)

Spec == Init /\ [][Next]_vars

(***************************************************************************)
(* Properties.                                                             *)
(***************************************************************************)
InLog == {e.rec : e \in UNION {ToSet(log[p]) : p \in Places}}

\* Every record of a batch that was let go of is counted, none as lost under
\* at_least_once, and a record counted as accepted is in its partition's log: the broker's
\* dedup never swallows a batch it has not got (apply, stamp, verdict, unsettled_records).
\* That every record is counted is not asked once an attempt was cut: the batch cut is let go
\* of uncounted.
NothingLost ==
  /\ \A r \in Records :
       /\ fate[r] = "accepted" /\ conf.mode # "unacked" => r \in InLog
       /\ fate[r] = "lost" => conf.posture = "at_most_once"
  /\ pending = None /\ used.cuts = 0 => \A r \in 1..(batch * BatchRecords) : fate[r] # "none"

\* A record is appended twice only across a new epoch or producer id, and under
\* at_most_once never, whatever lands late (stamp, drop_ambiguous, abandon).
CopiesExplained ==
  \A p \in Places : \A i, j \in DOMAIN log[p] :
    i < j /\ log[p][i].rec = log[p][j].rec =>
      conf.posture = "at_least_once" /\ (Idempotent => log[p][i].id # log[p][j].id)

\* Under one producer id a partition's log shows no record before an older one that
\* it will show: whatever failed, split, was dropped or landed late, first copies keep
\* their order (BrokerJob::run, restart_sequences).
FirstCopiesInOrder ==
  Idempotent => \A p \in Places : \A i, j \in DOMAIN log[p] :
    i < j /\ log[p][i].id.pid = log[p][j].id.pid /\ log[p][j].rec < log[p][i].rec =>
      \E k \in 1..(j - 1) : log[p][k].rec = log[p][j].rec

\* No attempt finds a gap that an earlier one left in its epoch's sequences: every part that
\* settles without an append, or is let go of, renews the epoch first (gap, abandon), and
\* within an attempt nothing is sent behind a part that failed.  The exception is a part that
\* batch::encode refused in the same attempt, which BrokerJob does not know of
\* (NothingBehindAGap).
NoGapInAnEpoch == "epoch" \notin gap

\* docs/adr/kafka-output.md, amendment 2: "once a partition's batch fails, that partition's
\* later batches aren't sent ... Nothing lands behind a gap, so the broker never answers them
\* OUT_OF_ORDER_SEQUENCE_NUMBER".
NothingBehindAGap == gap = {}
================================================================================
