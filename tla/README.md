# A TLA+ verification project for logit

logit is a telemetry pipeline: inputs turn bytes into batches of events, transforms and Lua nodes
rewrite them, sinks deliver them. Nodes are tokio tasks (a Lua node is a thread) joined by bounded
channels. This directory holds TLA+ modules of its core logic, TLC configurations that check them on
small instances, and TLAPS proofs. `PROJECT.json` lists the components, the runs, the source lines
every definition stands for, the hazards and the theorems.

Run, in this directory:

    tlc -config BoundedQueue.cfg MCBoundedQueue     # and the other cfg files
    tlapm BoundedQueueProofs.tla                    # and the other *Proofs.tla, SequenceFacts.tla

## Inventory

| component | state | operations | hard behaviour | what makes it correct |
|---|---|---|---|---|
| `InMemoryBuffer` (`logit-proto/src/buffer.rs`) | items with weights, `reserved`, `weight` | `push`, `peek_at`, `commit` | eviction behind a peeked item, saturating sums | the reserved prefix is never evicted; the sum is never too high |
| `BoundedQueue` (`logit-pipeline/src/queue.rs`) | the buffer under a lock, two `Notify`s, `closed` | `push`, `push_many`, `peek`, `peek_at`, `wait_at`, `commit`, `pop`, `pop_many`, `take_all`, `close` | lost wake-ups, futures dropped while parked, close racing everything | no lost wake-up, every item counted once, order kept, bounded |
| sink node (`runtime.rs`: `run_output`, `drain_inbox`, `write_loop`; `output.rs`) | inbox, hand, store, `InFlight`, grace deadline | receive, push, send with retry, window rounds, shutdown, sweep | an outcome that is unknown, a grace that cuts at any await, batches between two owners | every batch accounted once; never twice under at-most-once; disk keeps what it may |
| `SinkStore`, disk queue (`disk_queue.rs`) | segments, read cursor, read-ahead, persist worker | the queue's operations on disk, `open`, rotate, repair | crash at any step, torn tails, cursor order | nothing committed is lost, nothing delivered is lost from the cursor's view, no record unreadable |
| native hop (`logit_out`, `logit_in`, sender table) | frames in flight, sequence marks | submit, ack, reject, handshake, reconnect | lost connections, resends on another connection | each batch forwarded once while its sender's mark is held, acks never settle another frame |
| fan-out (`fanout.rs`) | reservations over consumers | `send`, `send_with_deadline`, `send_many_with_deadline`, `send_resumable` | partial sends, cyclic waits in a diamond | all consumers or none, no deadlock |
| buffer-full watch (`buffer_full.rs`) | episode, pressure, waiters | wait, ease, raise | counters raised and lowered by several tasks | pressure rises with a shed and falls with room |
| transforms (`runtime.rs`, `logit-transforms`) | series, windows, deadlines | process, flush | missed deadlines, resets, eviction | a window is emitted once, on its cadence |
| Lua nodes (`runtime.rs`, `logit-script`) | heartbeat, shared channels, memory verdict | run, watch, revoke | a script that never returns, a revoke racing the thread's end | what a node held is counted once; the node ends; a put-off verdict runs |
| tailing (`logit-inputs/src/tail`) | tracked files, read offsets, checkpoint | scan, read, rebind, reap, checkpoint, resume | crash between read and checkpoint, recycled inodes, renames under a scan | no offset covers bytes nobody has; nothing is read twice without a cause |
| Kafka consumer (`logit-kafka/src/consumer`, `kafka_in`) | done ranges, resets, generation | fetch, deliver, commit, rejoin | rebalances, a log truncated under it, late answers | no offset past an unaccepted record is committed, and every accepted one gets committed |
| Kafka producer (`logit-outputs/src/kafka`) | producer epoch, sequences, pending batches | prepare, produce, settle, renumber | lost and late answers, gaps, retries of part of a batch | an accepted record is in the log, copies have a cause, order per producer id |
| graph, config, formats, AWS, CLI | configuration | validation, parsing, wiring | none that a model checker reaches | see "Not modelled" |

How they meet: an input's `Fanout` reserves and sends into a node's inbox (an mpsc channel). A sink
node moves its inbox into its store (`drain_inbox`) so that a slow destination does not stop its
upstream until the store is full; `write_loop` peeks the store's head, delivers it through `Output`
and commits it. Both halves are polled by one task. A datagram listener uses the same queue between
its socket and its decoder. Shutdown is a watch channel: sinks get a grace from the first poll after
the signal, then cut what they await.

The hazards this code is exposed to are listed in `PROJECT.json` at the line where each bites, with
the properties that would catch it.

## Modules

- **`Notify`** states the part of `tokio::sync::Notify` the queue relies on (external): one stored
  permit, FIFO waiters, `notify_waiters` calls counted so that a future made before a call sees it,
  and a dropped future passing on a notification of `notify_one`, but not of `notify_waiters`.
- **`BoundedQueue`** is `queue.rs` over `buffer.rs`. `items`, `reserved`, `weight`, `closed` are the
  struct's fields. A step is one critical section of the lock, one `Notify` call or one first poll of
  a wait, so calls from several threads interleave everywhere the code lets them. `ppc`/`cpc` say
  where a call is; `psnap`/`csnap` are the `Notified`'s creation, which the code makes before the
  check it guards. `push_many` holds the lock from item to item (`lock`), announces before it waits,
  and counts what it never reached if its future is dropped while parked (`CancelPush`). The consumer
  is either a write loop (`style = "sink"`) or a decode loop (`"listener"`). `taken`, `dropped`,
  `returned`, `held` are history: where every item went.
- **`SinkDelivery`** is one sink node. The store is a sequence bounded by a batch count with the
  policies of `SinkStore` (memory and disk differ in what they evict, reject and keep). `wpc` is
  where `write_loop` awaits; `fl` is `InFlight`; `fast`, `owedArm` and `resubmit` are its locals.
  The sink is nondeterministic within the `Output` contract: `"single"` only sends, `"windowed"` has
  a window that opens and shuts with its connection and may fail a head alone (`HeadOnly`),
  `"collecting"` gathers a window and applies it with one request. Each call may succeed or fail with
  any `Fault`; an ambiguous one may have been applied. `landed` records what the destination applied,
  `exposed` what may have left the process.
- **`SinkContract`** is what a sink node promises, without queue, window or retry: a batch is taken
  once, settled at most once, delivered in order after the destination applied it, never applied again
  under at-most-once, and a stopped node leaves open only what a disk store may send again.
  `SinkDelivery` implements it (`KeepsContract`): `StatusOf` maps a batch to held, delivered or dropped
  by where the node has it, `landed` to what was applied, `rpc = "done"` to stopped.
- **`DiskQueue`** is `disk_queue.rs`: segments with a write tail, the read cursor, read-ahead, the
  persist worker's job queue and the files it leaves. Writes are split where a cancelled future or a
  crash can cut them; a torn tail is repaired at the next push, a rotten record is skipped and
  counted, `open` rebuilds the memory state from the files. `Crash` keeps what was written and
  throws the memory away.
- **`NativeHop`** joins `logit_out` and `logit_in`. Each socket is two byte-ordered queues and may
  break at any step; the sink keeps its window and its set of numbers to resend, the listener serves
  several connections over one bounded sender table (identity to high-water mark). Acks are coalesced,
  frames refused by name or found too large; other senders evict identities; either end restarts.
- **`Fanout`** is `fanout.rs` over tokio channels (external): slots, a FIFO line of waiters, and the
  ways to send (`send`, `send_with_deadline`, `send_resumable`) as methods of a sender. A consumer
  may close. One batch stands for a run of `Count` slots.
- **`KafkaConsumer`** is a member of a consumer group: `Tracker` and its resets, fetch positions and
  list-offsets answers, `deliver`, revocation, commits in flight, rejoin and the final commit, beside
  a coordinator and peers (external) and a log that is trimmed and truncated.
- **`FileTail`** is the tail driver over a file system (external) of named, renamed, copied and
  truncated files whose inodes are recycled: listing and the per-scan rules (track, rebind, reap,
  resume by content), reads, the checkpoint file and its pruning, stop and crash. A file is a sequence
  of cells numbered as they are written, and an even cell ends a line; what identifies a position is the
  file's first `HeadCells` cells (the head) and the last `HeadCells` before the offset (the marker).
- **`KafkaProducer`** is `kafka_out`'s attempt: a batch's records grouped by topic and partition,
  stamped with producer id, epoch and sequence, sent as requests that brokers (external) apply, refuse,
  deduplicate or answer late; the answers settle, split, flag or retry; a gap takes a new epoch and
  renumbers. It covers the idempotent and the plain mode and both delivery postures.
- **`LuaNode`** is a Lua node: the thread's loop with its flushes, memory verdict, panics and tail
  (`run_lua`), the watcher (`watch_lua_thread`), the mutex around the channels, and the heartbeat.
  The heartbeat's loads are relaxed, so a read returns the value seen before or any later one, and only
  the mutex orders it: `synced` is how far the thread's last unlock makes its writes visible.
- **`MC...`** modules are what TLC runs.
- **`BoundedQueueProofs`**, **`SinkDeliveryProofs`**, **`LuaNodeProofs`**, **`NativeHopProofs`**,
  **`KafkaConsumerProofs`**, **`FileTailProofs`** and **`FanoutProofs`** extend their components with the
  theorems, over **`SequenceFacts`**, lemmas on appending at the back, committing from the front and
  evicting from the middle of a sequence, and on sums over finite sets.

An action stands for a whole poll between two awaits, so commits, counters and window changes that
the code makes without awaiting are one step. Metrics, spans, diagnostics and byte sizes of batches
are left out; a batch is a number, an item of the queue also has a weight, because the weight sum has
properties of its own.

Operators named for a slip (`PlainSub`, `CutKeepsOut`, `SeesNoProgress`, ...) are alternative
versions of the definition that follows them. No run uses them; replacing the definition by one shows
that the property is sensitive to it.

## Runs

| run | states | checks |
|---|---|---|
| `bounded_queue` (`BoundedQueue.cfg`) | 493,630 | a write loop and a decode loop, `push` and `push_many` (cancelled ones too), one close, weights 1, 2 and 4 against a bound of 2 items and weight 3, a ceiling of 5: in-flight prefix, bound, accounting, order, weight sum, block keeps everything, no lost wake-up; every push returns and a closed queue ends its consumer |
| `weight_saturation` (`WeightSaturation.cfg`) | | violated: the comment that the weight sum is exact whenever the true sum fits. See Findings |
| `windowed_sink` (`WindowedSink.cfg`) | 649,831 | a windowed sink (send-only while its window stays at 1) and a collecting one, both stores, both postures, a policy that waits and one that evicts, a fault, a shutdown anywhere: accounting, at-most-once, what disk keeps, the window's shape, one observation per batch, and that the node implements `SinkContract`; shutdown ends even if the sink hangs, and a sink that answers settles every batch |
| `disk_spool` (`DiskSpool.cfg`) | 826,666 | two segments, torn and cancelled appends, rot, crashes and clean stops at every step: `NothingLost`, counters exact (`StoreIsExact`), no waiter left on a segment that cannot grow, a clean stop replays nothing, the cursor on disk never goes back |
| `native_hop` (`NativeHop.cfg`) | 855,608 | five frames of two identities, one refused and one too large, two connections, a bounded table and a stranger: no committed frame is lost, first copies in order, a second copy only in the documented gaps, a clean goodbye leaves nothing to resend |
| `diamond` (`Diamond.cfg`) | 20,665 | the diamond of `fanout.rs`'s comment with four senders: all consumers or none and slots conserved; no plain send and no place in a line starves |
| `kafka_group` (`KafkaGroup.cfg`) | 3,837,424 | a member beside a peer, one truncation or trim, one fault: every record below the commit was accepted, but for the `overtaken` ones (see Findings), and nothing that is accepted holds the commit back |
| `kafka_skip` (`KafkaSkip.cfg`) | | violated: that an out-of-range position skips no retained record. See Findings |
| `file_tail` (`FileTail.cfg`) | 2,787,689 | a log on three inodes, written, renamed, copied, truncated, crashes and stops: no offset skips a cell nobody has; a cell is delivered twice only after a crash, a failed checkpoint, a copy or a racing rename |
| `kafka_out` (`KafkaOut.cfg`) | 2,441,587 | two batches over partitions, parts that cannot be encoded, answers refused, lost, late and of every class: nothing accepted is missing, copies explained, first copies in order, no gap that an earlier attempt left in its epoch |
| `kafka_gap` (`KafkaGap.cfg`) | | violated: that nothing is sent behind a gap. See Findings |
| `lua_node` (`LuaNode.cfg`) | 358,373 | two batches, a flush or a further beat, a script that hangs, panics or grows, a signal anywhere: every batch settled once (`EveryBatchCounted`), the node ends (`NodeEnds`), a put-off verdict runs (`VerdictSettles`) |

**Bounds.** The weights of the queue runs cover an item that fits beside another, one that fills the
queue, and one that can never fit; the ceiling makes the sum of two of them saturate. A bound of two
items with batches of two makes `push_many` wait in the middle of a batch, and three pushes let items
be in flight, evicted and committed at once, with the queue one item over its bound while two are in
flight. In the sink run three batches over a store of two and an inbox of one keep a batch in each of
inbox, hand, store and sink at once; a window of two has a head
and a batch behind it, which is what the window's faults tell apart. Safety and liveness of
these two parts are checked on one instance each; with four pushes and, for the sink, two faults, all
three policies and the send-only sink, the invariants were checked once (3.7 and 3.3 million states). A production receive queue has one `read_loop`, so `bounded_queue` has one producer; the proofs
hold for any number. The disk run's records (one fits the spool, one is larger than it, one is too large
for any frame) fill a segment in one push or in two, so that pushes rotate, wait, evict and are refused,
and a reader is left in a segment that was rotated away; the hop's table holds fewer identities than there
are senders, so that marks are evicted; the tail's three inodes are fewer than the files that come and
go, so that numbers are recycled; the Kafka log of three offsets starts with one no record is delivered for.
In `lua_node` `StallTicks` is longer than `GraceTicks`, so that a node is wedged both before and after
it counts as stalled, and two batches are one in hand and one in the inbox or behind a permit.
Larger instances that take more than five minutes were checked once: two group members (8.2 million
states, two offsets) and the idempotent producer with three faults (5.3 million). Deadlock is not
checked where a bounded supply is used up or a stopped part stays stopped; `native_hop`,
`diamond` and `lua_node` check it.

**Fairness.** A tokio task that is woken is polled and runs to its next await: weak fairness of the
steps of each call, of the drain, the loop and the stop sequence. Timers fire: weak fairness of the
wait's deadline and the grace. A consumer keeps calling `peek` or `pop` (`write_loop` and
`decode_loop` are loops). For the queue's liveness the write loop commits what it holds infinitely
often if it may (strong fairness of `Commit`, because a wait for the next item can come in between);
this assumes a destination that settles its head. For `ShutdownEnds` nothing is assumed of the sink
but that owed answers of an applied collecting window are read at once, which `Output::collecting`
requires, and on which the code relies when it turns the grace arm off. For `EveryBatchSettles`, which says that the
queue is empty or the node done again and again (no batch is queued twice and there are finitely
many, so each of them settles), every sink call returns (`SinkFairness`, written into the property); sinks bound their own waits
(`Output::send`'s contract). Faults are bounded, as a destination that fails forever settles nothing.
In `Fanout` tasks that can run do, and consumers take (weak fairness per sender and consumer), as
tokio's FIFO semaphore hands slots over in line order. In `LuaNode` the thread and the watcher run,
time passes (the verdict's window opens), a send ends because the sinks below have their own grace,
and the inputs above end after the signal; a tick reads the newest heartbeat infinitely often if it
can (strong fairness, since relaxed stores become visible in finite time). Nothing makes a script
return from a call. A script that constructs events for ever is outside the bound: the code declines
to end it (`docs/adr/lua-runaway-script-bounds.md`).

## Findings

Each is a disagreement between the code and what a comment or an ADR says of it.

- **The weight sum after a saturation** (`weight_saturation`). `InMemoryBuffer::weight`'s comment says
  the sum is "exact whenever the true sum fits in a `u64`". After a saturated push, removing an item
  subtracts its whole weight from the clipped sum, so the sum stays below the true one while items
  from before remain. The weaker claims, at most the true sum and zero when empty, hold
  (`WeightIsSound`), and they are what the queue's blocking relies on. The values it takes are far
  beyond real weights.
- **Retained records passed by a reset** (`kafka_skip`). `docs/adr/kafka-input.md` says that "An
  out-of-range position doesn't skip retained records" (line 166), excepts from the commit rule only
  records counted as dropped (281-288), and says that "a committed offset never covers an undelivered
  record" (311-312). It also gives the rule that a position above the log end moves to the log end
  (365), and that is what `resolve` does (`fetch.rs:357`): records written between a truncation and
  the reset are below the new position, are never fetched or counted, and are committed past.
  `Part::accept`'s comment that offsets below the cut "named the same records then as now"
  (`fetch.rs:160`) fails in the same case, and the test at `consumer/tests.rs:541-574` commits 4 past
  the undelivered x, y and z. `CommittedIsAccepted` says what does hold: such records (`overtaken`),
  all written after a truncation, are the only exception.
- **A range from before a reset** (`kafka_group`). The doc of `Fetched::epoch` (`fetch.rs:61-62`) says
  it "is ignored" by `mark_accepted`; `Part::accept` (159-171) marks it up to the cut, and has to: with
  `AcceptInIgnored`, which does what the doc says, `NothingHoldsTheCommit` is violated.
- **Sent behind a gap** (`kafka_gap`). `docs/adr/kafka-output.md:441-444` says that once a partition's
  batch fails its later batches are not sent in that attempt, so "Nothing lands behind a gap". A part
  that `batch::encode` refuses (`producer.rs:486-498`) has taken its sequence numbers and is answered
  outside `BrokerJob`, whose `failed` set (1023-1056) does not hear of it: the parts behind it are sent
  and answered `OUT_OF_ORDER_SEQUENCE_NUMBER`. Under at-most-once they are then dropped as ambiguous
  although they were never appended. Every other gap is covered by `NoGapInAnEpoch`.
- **A pruned entry whose file is there** (no run of its own). The comment at the pruning of checkpoint
  entries (`tail/driver.rs:1607`) says "A dropped entry's file is gone". A rename between the first
  scan's `read_dir` and its `stat` can hide a file that is still there, and its entry is dropped; the
  file is then read from the start. `DeliveredOnce` excludes this case by name (`prunedLive`).

## Proofs

Each proof module states its results for every value of the constants that its component's named
assumption allows (`QueueAssumption`, `SinkAssumption`, `LuaAssumption`, `HopAssumption`,
`KafkaConstants`, `TailAssumption`, `FanoutAssumption`): the kinds of configuration the code accepts, sizes that are not
zero where the code refuses zero, and bounds of the model that are natural numbers. No number of
tasks, batches, files or faults is fixed. The method is the same everywhere: an invariant that
contains the property and everything its steps rely on, a lemma per action that it is kept, and a
last temporal step. What follows says what each invariant adds to its properties, and why it must.

**`BoundedQueueProofs`.** `TypeCorrect`, `InFlightIsSafe`, `OneOverAtMost`, `LeavesInOrder`,
`AccountsForEveryItem`, `BlockKeepsAll`, `WeightStaysSound`, `NoWakeupIsLost`.

- `IInv` adds: a listener's consumer holds nothing and a sink's at most `MaxInFlight`; the consumer
  waits for the position after what it holds (otherwise a returning wait would reserve a prefix with a
  gap); a call past its start carries items (otherwise `Head` of an empty batch is pushed); an owed
  notification is counted; and the room bound, that the queue is within its item bound or holds at
  most one item beyond those in flight. So a queue over its bound has everything but one item in
  flight, which is the second half of `AtMostOneOver`.
- `PlaceInv` is about where items are. Order and accounting need one invariant, since an admitted item
  is fresh only because every item a call still carries is numbered after every settled item of its
  producer, and a producer is in one call at a time.
- `BlockInv` says that what overflowed under block did so because of an item that can never fit. It is
  kept because no step takes an item out of the set of all items ever pushed.
- `WeightInv` is `WeightIsSound` over the true sum (`TrueWeight`). A push that evicts and a commit move
  the true sum by exactly the weights they take out and put in (`AdmittedWeighs`, `CommittedWeighs`),
  and a saturating step parts from that only when the result is beyond the ceiling
  (`SaturatingSteps`). The result is within the weights of everything ever pushed, since `PlaceInv`
  makes the queued items distinct members of that set, and nothing leaves the set (`BoundGrows`), so
  while that total fits no step before it saturated either. It is finite because producers number
  their items.
- `WakeInv` is what makes a lost wake-up impossible. A task between its check and its registration
  is in no wait list, so the invariant says what protects it there: a stored permit, a
  `notify_waiters` call since its `Notified` was made, or somebody still about to notify. For
  producers it is about a lone one, as `NoLostWakeup` is: with several, a permit may wake another.

**`SinkDeliveryProofs`.** `AccountsForEveryBatch`, `AtMostOnceHolds`, `DiskKeeps`, `SinkHoldsPrefix`,
`ObservesOnce`, and `ImplementsContract`: every step of the node is a step of `SinkContract` or a
stutter under the mapping of `KeepsContract`. The one invariant `IInv` consists of `HandOver` (where
upstream, drain, loop and stop sequence are relative to one another), `InOrder` and `OnePlace` (the
ledger), `WindowInv` (what the sink has is the store's first items, but for a head that waits for its
own resubmit: `Gap`), `CollectInv` (a collecting window is open, closed or owed), `ObserveInv`,
`ExposeInv` and `LandInv` (what was observed, may have left, and was applied). At-most-once rests on
the last three together: a batch that may have left is settled before anything could send it again,
or its answer is owed. The refinement needs the same invariant: a step either changes nothing the
contract can see, or takes, delivers or drops batches, is applied, or stops, and `InOrder`, `LandInv`
and `HandOver` give what the contract asks of it (order, at-most-once, nothing left open).

**`LuaNodeProofs`.** `CountsEveryBatch`. `IInv` says where a batch can be and what the thread holds at
each place (`HandInv`: a panic leaves `held`, which the tail counts), that whoever took the channels
alone closes and sweeps them (`OwnerInv`), that a thread which drops its inbox unswept found it closed
and empty (`CloseInv`), and what the heartbeat shows (`HeartInv`): a thread past its take has left the
heartbeat idle and published that with the mutex, so the watcher's reread under the lock sees progress
and does not revoke it. Without that last part two owners would sweep.

**`NativeHopProofs`.** `LosesNothing`, `KeepsOrder`, `ExplainsDuplicates`, `GoodbyeIsClean`. `SafeInv`
says that whatever travels (an ack, a mark of the table, a mark of a `HelloAck`, an acknowledged
entry of the window) is only ever about settled frames; that the window is a run of the store from its
head; and that no frame is on a socket before one that is neither settled nor ahead of it, which is
what stops a mark from covering a frame that was skipped. `CopiesInv` adds that a frame with a copy is
remembered by its mark or by the task about to raise it, or is excused. `GoodbyeInv` adds that a task
writes nothing after a `GOING_AWAY`, that a run is of one identity and rises, so that its last frame
answers for all of it, and that every frame of the window a task forwarded is acknowledged, answered
for on the wire, or in the answer the task has still to write.

**`KafkaConsumerProofs`.** `CommitsAccepted`, `NoHoleStays`, `OvertakenLate`. `IInv` says which pieces of a member exist
at each place of its task, what the tracker and the resets keep among themselves (`PartInv`: resets
rise, done offsets are above the candidate and below the position), that a range on its way was read
in an epoch of the part and what still stands of it is behind the position (`ReadInv`), that
everything below the position is done, buffered or held (`CoverInv`), and, of members the coordinator
still knows, that what is done or asked to be committed is accepted or gone (`MemberGood`). A member
the group has expelled may be wrong about the log; its commits are refused, so the invariant says
nothing of it. What may be committed past (`Good`) includes the `overtaken` records, and `LateInv`
bounds that exception: until the log loses its tail no position, answer or commit is past its end, so
no record written before the first truncation is ever overtaken, and a log that is never truncated has
no exception.

**`FileTailProofs`.** `NothingIsSkipped`, `NothingTwice`.

- `SkipInv`: content decides identity, so the invariant is about content. Two files that agree on a
  cell agree on everything before it (`OneHistory`): a cell is written once, and then only copied with
  what it follows. What a reader has seen may be cells of two files, when a truncated file grew past
  the reader's offset, but then its first and its last cell are of different files (`Sound`), and the
  head check rejects it as a position. Every position, of a tracked file, an entry, a held truncation
  or on disk, is sound and covers delivered cells (`PositionInv`). While a copy is filled the copy
  begins as the log does, and its reader is within it (`DirInv`).
- `OnceInv`, as long as nothing has disturbed the driver: no cell is in two places; what a reader has
  seen is how its file begins, and of that file exactly the cells before its last line boundary may
  have been delivered; an entry is of its inode's file, or the inode was recycled and shares nothing
  with it; heads are of no other file, so no claim matches; a linked file that nobody knows of has
  nothing delivered; and a tracked file that a scan missed is unlinked, or is the rotation, which the
  next listing names (`OnceListed`), so the reap after that listing closes only files that are gone.

**`FanoutProofs`.** `ReservesAllOrNothing`, for any graph of senders and inboxes, capacities and mix of
methods. `IInv` adds to slot conservation that a waiter in a line asked for as many slots as its call
carries batches (so that a grant takes no more than it needs, and a cancelled wait gives back what it
was handed), and that a reserving send holds nothing outside a call and sends nothing before it has
reached every edge (`Reserving`). Each operation of a channel moves a known number of slots, and each
step of a sender changes what it holds by as many; the sums over senders and over a line's places change
in one term per step (`TotalChange`, `TotalWithout`). The only assumption beyond the code's own checks
is that there are finitely many senders.

**Sums in `SequenceFacts`.** The totals of `Fanout` and of the queue's weight are recursive definitions,
and the library's induction theorems take an operator as parameter, which the provers cannot
instantiate. The lemmas argue by least counterexample instead: a set of subsets of a finite set, or of
numbers, that is not empty has a least member (`LeastSubset`, `LeastNat`, from the library's
`WFMin`), so a claim about sums that fails somewhere fails at a least set, and one element off it
holds. From the unfolding of the library's `SumFunctionOnSet` this gives that the recursion has a
solution and only one (`SumsExist`, `SumsUnique`), that any element may be taken off first
(`TotalOut`), and what a sum does when a term changes, a place goes, two runs are joined or a sequence
without repetition is summed by its elements.

Only model-checked, and why: the liveness properties (`EveryPushReturns`, `CloseEndsTheConsumer`,
`ShutdownEnds`, `EveryBatchSettles`, `NodeEnds`, `VerdictSettles`, `NoSenderStarves`), because fairness
and `ENABLED` are out of the prover's reach; the properties of `DiskQueue`, which are stated over the
bytes of files (sorted starts, flattened walks, folds over segments: each needs an induction of its own
before the protocol can be argued); and those of `KafkaProducer`, whose stamps are a fold over the parts
of a batch and whose deduplication is sound only while a sequence does not wrap within what a broker
remembers.

## Not modelled

Parsing, formatting and the wire formats (`logit-proto`, `logit-core`, the stateless transforms) are
pure functions over unbounded text. Sockets, TLS, HTTP clients, AWS signing and the command line are
I/O. Graph validation is a pure function of the configuration; the models assume what its rule 15
enforces, that a sink's bounds are not zero. `logit-bench` and `logit-perf` are development tools.
Inside the modelled parts: metrics, spans and log lines; the store's byte bound in `SinkDelivery`
(one bound in batches decides the same branches); the memory bound of a collecting window (closing at
any time is allowed instead); `Output::flush`; the 250 ms for which the sweep waits for outstanding
permits (it may give up on one as soon as the inbox is empty, and the batch sent through it later is
the one `EveryBatchAccounted` allows to be lost).

What the newer modules leave out:

- `DiskQueue`: power loss, with what was flushed and not yet synced (a crash is the process's, and
  keeps every completed write); a directory sync that fails alone; a segment file whose
  creation a dropped push left running. A reader parked after a failed read may
  read again at any time.
- `NativeHop`: TLS and the handshake's versions; its liveness was only checked with fewer frames.
- `Fanout`: telemetry and the blocking variants, which take the same steps.
- `KafkaConsumer`: brokers' metadata, with the leader an answer is checked against; the log is one
  partition. The two ListOffsets requests of a reset, and the committed offset and signal read at
  install, are one step each. `CommittedIsAccepted` excludes records written under a reader past the
  end of a truncated log (see Findings).
- `FileTail`: compressed files, Docker's deselection, lines held in a decoder, `read_from: end`, and
  lost-byte counters. What follows the listing of a scan is one step; a refused emit is a crash; the
  grace before a reap may end at any time. Ambiguous matches (two files with one fingerprint) and
  claims without a file do not occur at these bounds. Errors of a single `stat` or read and dropped
  oversize lines are not modelled. `DeliveredOnce` leaves out the entry pruned under a file that is
  still there (`prunedLive`, see Findings), and `NothingSkipped` what a truncated log was refilled with
  under a reader (`overwritten`, decision 8 of `docs/adr/tail-content-identity.md`).
- `KafkaProducer`: brokers and connections are merged per partition, and metadata and the confirmation
  of a missing topic are reduced to an answer of their class. `acks: leader` is treated as `all`;
  oversize records (other than as a part that cannot be encoded), a new process (a new producer id) and the wrap at `i32::MAX` are not reached. A
  response that names records names the first.
- `LuaNode`: the script API, the loading of the script, targets and partitions (a send is one step).
  The sweep may end with a permit out at any time, where the code waits 250 ms; a panic in a send and a
  permit that outlives the sweep lose a batch uncounted; both are documented
  gaps, and the model records them as lost.

## Plan

Done: `BoundedQueue`, `SinkDelivery` as a refinement of `SinkContract`, `NativeHop`, `KafkaConsumer`,
`FileTail`, `LuaNode` and `Fanout`, with proofs of every invariant their runs check; `DiskQueue` and
`KafkaProducer`, model-checked.

Next, in this order:

1. Proofs: `CursorNeverGoesBack` and `NothingLost` of `DiskQueue`, over lemmas on walks and folds in the
   manner of the sums.
2. Pure algorithms, as operators with lemmas: the flush cadence (`advance_flush_deadline`), routing's
   partition of a batch, `cumulative_to_delta`.
3. `FullWatch`: the episode and pressure state machine of `buffer_full.rs`.
4. Abstract specifications for the hop (a channel that forwards each number at most once per mark) and
   for the disk queue (a durable FIFO), with refinements.
