----------------------------- MODULE NativeHop -----------------------------
(***************************************************************************)
(* The native hop between two logit processes: the sink logit_out            *)
(* (crates/logit-outputs/src/logit.rs) and the listener logit_in             *)
(* (crates/logit-inputs/src/logit.rs, logit/senders.rs).                     *)
(*                                                                          *)
(* logit_out keeps a window of frames on one connection; logit_in serves     *)
(* every connection by a task of its own, forwards each frame to its         *)
(* consumers, raises the frame's mark in a table all its tasks share and     *)
(* answers a run of frames by one Ack.  A socket logit_out drops still holds *)
(* the frames it was sent, which its task reads on while the same frames     *)
(* are resent on the next connection.                                        *)
(*                                                                          *)
(* The sink runs at_least_once over a disk store: a sender restart replays   *)
(* committed frames under the pairs they were stored with.                   *)
(***************************************************************************)
EXTENDS Naturals, Sequences, SequencesExt, FiniteSetsExt

CONSTANTS
  Queue,           \* the sink's store: the pair [id, seq] of each frame, in order
  Refused,         \* the frames logit_in refuses by name
  TooLarge,        \* the frames over a size cap submit_frame checks
  Strangers,       \* identities of other sinks
  MaxConnections,  \* the listener's max_connections
  Window,          \* the negotiated window
  CoalesceMax,     \* ACK_COALESCE_MAX
  MaxHelloSenders, \* MAX_HELLO_SENDERS
  MaxFaults        \* bound on failures, timeouts, idle closes and restarts

Frames == 1..Len(Queue)

ASSUME HopAssumption ==
  /\ Queue \in Seq([id : {Queue[f].id : f \in Frames}, seq : Nat])
  /\ \A i, j \in Frames :
       i < j /\ Queue[i].id = Queue[j].id => Queue[i].seq < Queue[j].seq
  /\ Refused \cup TooLarge \subseteq Frames
  /\ Strangers \cap {Queue[f].id : f \in Frames} = {}
  /\ {MaxConnections, Window, CoalesceMax, MaxHelloSenders} \subseteq Nat \ {0}
  /\ MaxFaults \in Nat

VARIABLES
  head,     \* the oldest frame the sink has not committed
  conn,     \* LogitOutput.stream
  resend,   \* LogitOutput.resend_senders
  hello,    \* the connection whose HelloAck connect_and_handshake awaits
  socks,    \* the connections, both directions and the task serving each
  table,    \* SenderTable, least recently seen identity first
  copies,   \* how often each frame reached the consumers, up to 2
  settled,  \* the frames forwarded, refused, or dropped by the sink
  excused,  \* the frames a documented gap lets through twice
  faults

senderVars == <<head, conn, resend, hello>>
ghosts == <<copies, settled, excused>>
vars == <<senderVars, socks, table, ghosts, faults>>

Ids == {Queue[f].id : f \in Frames}
None == [none |-> TRUE]
Conns == 1..(MaxConnections + 1)     \* one may find the listener full

\* The two messages that end a connection, and a frame cut off by a failed write.
GoingAway == [type |-> "going_away"]
Reject == [type |-> "reject"]
Torn == 0

Ack(f) == [type |-> "ack", pair |-> Queue[f]]
RejectedAck(f) == [type |-> "rejected", pair |-> Queue[f]]
HelloAck(marks) == [type |-> "hello_ack", marks |-> marks]

Fresh == [st |-> "free", open |-> FALSE, up |-> <<>>, down |-> <<>>, pend |-> None,
          cur |-> Torn, asked |-> {}, took |-> {}]

Fault == faults < MaxFaults /\ faults' = faults + 1

-----------------------------------------------------------------------------
(* SenderTable: a sequence of [id, mark] in order of last_seen. *)

Capacity == Max({1, MaxConnections + MaxConnections \div 4})
Holds(t, id) == \E i \in DOMAIN t : t[i].id = id
Entry(t, id) == CHOOSE e \in Range(t) : e.id = id
Without(t, id) == IF Holds(t, id) THEN RemoveAt(t, CHOOSE i \in DOMAIN t : t[i].id = id) ELSE t
Touch(t, id, mark) == Append(Without(t, id), [id |-> id, mark |-> mark])

IsResend(t, p) == Holds(t, p.id) /\ p.seq <= Entry(t, p.id).mark
Seen(t, p) == IF Holds(t, p.id) THEN Touch(t, p.id, Entry(t, p.id).mark) ELSE t

MarkNotRaised(t, p) ==
  Touch(IF ~Holds(t, p.id) /\ Len(t) >= Capacity THEN Tail(t) ELSE t, p.id, p.seq)

\* A mark never moves down; a full table evicts the identity seen least recently.
Raise(t, p) ==
  IF Holds(t, p.id) THEN Touch(t, p.id, Max({Entry(t, p.id).mark, p.seq}))
  ELSE Touch(IF Len(t) >= Capacity THEN Tail(t) ELSE t, p.id, p.seq)

Marks(t, ids) == {e \in Range(t) : e.id \in ids}

\* The frames whose mark an eviction on the way from table t to u forgets.
Forgotten(t, u) ==
  {f \in Frames : IsResend(t, Queue[f]) /\ ~Holds(u, Queue[f].id)}

-----------------------------------------------------------------------------
(* The connection's two ends.  What a task writes reaches the sink only while *)
(* the socket is open at the sink's end.                                      *)

Write(k, msgs) == IF k.open THEN [k EXCEPT !.down = @ \o msgs] ELSE k

\* flush_ack
Flush(k) ==
  IF k.pend = None THEN k
  ELSE [Write(k, <<Ack(k.pend.f)>>) EXCEPT !.pend = None]

Over(k) == [k EXCEPT !.st = "over", !.up = <<>>, !.cur = Torn]

GoAwayUnflushed(k) == Over(Write(k, <<GoingAway>>))

\* flush_then_reject
GoAway(k) == Over(Write(Flush(k), <<GoingAway>>))

\* LogitOutput drops its connection: the frames already sent stay readable.
Drop(c) == [socks EXCEPT ![c].open = FALSE, ![c].down = <<>>]

-----------------------------------------------------------------------------
(* logit_out *)

InFlight == IF conn = None THEN <<>> ELSE conn.inFlight
NextFrame == head + Len(InFlight)
Covers(f) == \E e \in conn.marks : e.id = Queue[f].id /\ Queue[f].seq <= e.mark

Entries(s) == [i \in DOMAIN s |-> s[i].f]

\* Conn::resend_senders: the first identities in list order.
ResendSenders(s) ==
  {Queue[s[i].f].id : i \in {j \in DOMAIN s :
     Cardinality({Queue[s[k].f].id : k \in 1..j}) <= MaxHelloSenders}}

\* submit_frame dials when there is no connection; Hello lists the resend senders.
Connect ==
  /\ conn = None /\ hello = 0 /\ head \in Frames
  /\ head \in TooLarge => resend # {}
  /\ \E c \in Conns :
       /\ socks[c].st = "free" \/ (socks[c].st = "over" /\ ~socks[c].open)
       /\ \A d \in 1..(c - 1) : socks[d].st # "free" /\ (socks[d].st # "over" \/ socks[d].open)
       /\ hello' = c
       /\ socks' = [socks EXCEPT ![c] =
                      [Fresh EXCEPT !.st = "hello", !.open = TRUE, !.asked = resend]]
  /\ UNCHANGED <<head, conn, resend, table, ghosts, faults>>

\* handshake: a validated HelloAck makes the connection; anything else is Clean
\* and keeps the resend senders for the next Hello.
ReadHelloAck ==
  /\ hello # 0 /\ socks[hello].down # <<>>
  /\ LET msg == Head(socks[hello].down)
     IN  IF msg.type = "hello_ack"
         THEN /\ conn' = [c |-> hello, inFlight |-> <<>>, broken |-> FALSE, marks |-> msg.marks]
              /\ resend' = {}
              /\ socks' = [socks EXCEPT ![hello].down = Tail(@)]
         ELSE /\ socks' = Drop(hello)
              /\ UNCHANGED <<conn, resend>>
  /\ hello' = 0
  /\ UNCHANGED <<head, table, ghosts, faults>>

HelloFails ==
  /\ hello # 0
  /\ \/ socks[hello].st = "over" /\ socks[hello].down = <<>> /\ UNCHANGED faults
     \/ Fault
  /\ socks' = Drop(hello)
  /\ hello' = 0
  /\ UNCHANGED <<head, conn, resend, table, ghosts>>

\* The frame submit_frame is called for, with room in the window.
Submits(f) ==
  /\ f = NextFrame /\ f \in Frames
  /\ hello = 0 /\ conn # None /\ ~conn.broken
  /\ Len(conn.inFlight) < Window

Pushed(f, acked) ==
  conn' = [conn EXCEPT !.inFlight = Append(@, [f |-> f, acked |-> acked])]

\* Committed from the marks of the handshake, without a write.
Resume(f) ==
  /\ Submits(f) /\ Covers(f)
  /\ Pushed(f, TRUE)
  /\ UNCHANGED <<head, resend, hello, socks, table, ghosts, faults>>

\* The write: whole, or cut off by a failure or a stall.  With nothing in flight
\* the connection is dropped, otherwise it is kept for the answers it owes.
WriteFrame(f) ==
  /\ Submits(f) /\ ~Covers(f) /\ f \notin TooLarge
  /\ \/ /\ Pushed(f, FALSE)
        /\ socks' = [socks EXCEPT ![conn.c].up = IF socks[conn.c].st = "over" THEN @
                                                 ELSE Append(@, f)]
        /\ UNCHANGED faults
     \/ /\ Fault
        /\ socks[conn.c].st # "over"
        /\ LET cut == [socks EXCEPT ![conn.c].up = Append(@, Torn)]
           IN  IF conn.inFlight = <<>>
               THEN /\ conn' = None
                    /\ socks' = [cut EXCEPT ![conn.c].open = FALSE, ![conn.c].down = <<>>]
               ELSE /\ conn' = [conn EXCEPT !.broken = TRUE]
                    /\ socks' = cut
  /\ UNCHANGED <<head, resend, hello, table, ghosts>>

\* poll_pending_close: with nothing in flight a closed connection is replaced.
Probe ==
  /\ Submits(head) /\ conn.inFlight = <<>>
  /\ socks[conn.c].st = "over" \/ socks[conn.c].down # <<>>
  /\ conn' = None
  /\ socks' = Drop(conn.c)
  /\ UNCHANGED <<head, resend, hello, table, ghosts, faults>>

\* Rejected before any write: the batch is dropped once it is the head.
RejectLocally ==
  /\ head \in TooLarge /\ hello = 0 /\ InFlight = <<>>
  /\ IF conn = None THEN resend = {} ELSE ~Covers(head)
  /\ head' = head + 1
  /\ settled' = settled \cup {head}
  /\ UNCHANGED <<conn, resend, hello, socks, table, copies, excused, faults>>

AckedBySequence(s, p) == {i \in DOMAIN s : \A j \in 1..i : Queue[s[j].f].seq <= p.seq}

\* The entries mark_acked marks: a prefix of the acknowledged identity.
AckedPrefix(s, p) ==
  {i \in DOMAIN s : \A j \in 1..i : Queue[s[j].f].id = p.id /\ Queue[s[j].f].seq <= p.seq}

MarkAcked(s, p) ==
  [i \in DOMAIN s |-> IF i \in AckedPrefix(s, p) THEN [s[i] EXCEPT !.acked = TRUE] ELSE s[i]]

\* An Ack must name an entry it marks.
Names(s, p) == \E i \in AckedPrefix(s, p) : Queue[s[i].f] = p

\* read_ack pops the front: await_ack returns Ok, or Rejected for the head alone.
Pop(s) ==
  LET rest == Tail(s)
  IN  conn' = IF conn.broken /\ rest = <<>> THEN None ELSE [conn EXCEPT !.inFlight = rest]

Closed(k) == IF conn' = None THEN [k EXCEPT !.open = FALSE, !.down = <<>>] ELSE k

\* Every other failure drops the connection; the round starts again at the head.
DropAndResend ==
  /\ conn' = None
  /\ resend' = ResendSenders(conn.inFlight)
  /\ socks' = Drop(conn.c)

AckedAlready ==
  /\ InFlight # <<>> /\ Head(InFlight).acked
  /\ Pop(conn.inFlight)
  /\ head' = head + 1
  /\ socks' = [socks EXCEPT ![conn.c] = Closed(@)]
  /\ UNCHANGED <<resend, hello, table, ghosts, faults>>

ReadAck ==
  /\ InFlight # <<>> /\ ~Head(InFlight).acked
  /\ socks[conn.c].down # <<>>
  /\ LET msg == Head(socks[conn.c].down)
         s == conn.inFlight
         good == \/ msg.type = "ack" /\ Names(s, msg.pair)
                 \/ msg.type = "rejected" /\ Queue[Head(s).f] = msg.pair
     IN  IF good
         THEN /\ Pop(IF msg.type = "ack" THEN MarkAcked(s, msg.pair) ELSE s)
              /\ head' = head + 1
              /\ socks' = [socks EXCEPT ![conn.c] = Closed([socks[conn.c] EXCEPT !.down = Tail(@)])]
              /\ UNCHANGED resend
         ELSE DropAndResend /\ UNCHANGED head
  /\ UNCHANGED <<hello, table, ghosts, faults>>

\* The end of the stream, or the ack timeout.
AckFails ==
  /\ InFlight # <<>> /\ ~Head(InFlight).acked
  /\ \/ socks[conn.c].st = "over" /\ socks[conn.c].down = <<>> /\ UNCHANGED faults
     \/ Fault
  /\ DropAndResend
  /\ UNCHANGED <<head, hello, table, ghosts>>

\* A cancelled call or a killed process: no list is left, and the spool replays
\* from its last durable cursor.
RestartSender ==
  /\ Fault
  /\ head' \in 1..head
  /\ conn' = None /\ hello' = 0 /\ resend' = {}
  /\ socks' = [c \in Conns |-> [socks[c] EXCEPT !.open = FALSE, !.down = <<>>]]
  /\ UNCHANGED <<table, ghosts>>

-----------------------------------------------------------------------------
(* logit_in: the task serving connection c *)

Served == {c \in Conns : socks[c].st \in {"loop", "forward", "taken"}}

\* reject_or_serve without a permit; otherwise handshake answers the marks.
AnswerHello(c) ==
  /\ socks[c].st = "hello"
  /\ socks' = [socks EXCEPT ![c] =
       IF Cardinality(Served) >= MaxConnections THEN Over(Write(@, <<Reject>>))
       ELSE [Write(@, <<HelloAck(Marks(table, @.asked))>>) EXCEPT !.st = "loop"]]
  /\ UNCHANGED <<senderVars, table, ghosts, faults>>

\* read_ready_or_ack: the owed Ack goes out before any wait for the peer.
WriteOwedAck(c) ==
  /\ socks[c].st = "loop" /\ socks[c].pend # None
  /\ socks' = [socks EXCEPT ![c] = Flush(@)]
  /\ UNCHANGED <<senderVars, table, ghosts, faults>>

\* A handled frame joins the run the next Ack answers.
Owe(k, f) ==
  LET n == IF k.pend = None THEN 1 ELSE k.pend.n + 1
      owed == [k EXCEPT !.pend = [f |-> f, n |-> n], !.st = "loop", !.cur = Torn]
  IN  IF n >= CoalesceMax THEN Flush(owed) ELSE owed

OtherIdentity(k, f) == k.pend # None /\ Queue[k.pend.f].id # Queue[f].id

\* One whole frame read: refused by name, acknowledged as a resend, or forwarded.
TakeFrame(c) ==
  /\ socks[c].st = "loop" /\ socks[c].up # <<>> /\ Head(socks[c].up) # Torn
  /\ LET f == Head(socks[c].up)
         k == [socks[c] EXCEPT !.up = Tail(@)]
         run == IF OtherIdentity(k, f) THEN Flush(k) ELSE k
     IN  IF f \in Refused
         THEN /\ table' = Raise(table, Queue[f])
              /\ socks' = [socks EXCEPT ![c] = Write(Flush(k), <<RejectedAck(f)>>)]
              /\ settled' = settled \cup {f}
              /\ excused' = excused \cup Forgotten(table, table')
         ELSE /\ table' = Seen(table, Queue[f])
              /\ socks' = [socks EXCEPT ![c] =
                   IF IsResend(table, Queue[f]) THEN Owe(run, f)
                   ELSE [run EXCEPT !.st = "forward", !.cur = f]]
              /\ excused' = excused \cup
                   {g \in {f} : ~IsResend(table, Queue[f])
                                /\ \E d \in Conns \ {c} : socks[d].cur = f}
              /\ UNCHANGED settled
  /\ UNCHANGED <<senderVars, copies, faults>>

\* send_relayed: every open consumer has the batch, or none took it.
Forward(c) ==
  /\ socks[c].st = "forward"
  /\ LET f == socks[c].cur
     IN  \/ /\ socks' = [socks EXCEPT ![c].st = "taken", ![c].took = @ \cup {f}]
            /\ copies' = [copies EXCEPT ![f] = Min({2, @ + 1})]
            /\ settled' = settled \cup {f}
            /\ UNCHANGED faults
         \/ /\ Fault
            /\ socks' = [socks EXCEPT ![c] = GoAway(@)]
            /\ UNCHANGED <<copies, settled>>
  /\ UNCHANGED <<senderVars, table, excused>>

RaiseEarly(c) ==
  /\ socks[c].st = "forward"
  /\ table' = Raise(table, Queue[socks[c].cur])
  /\ socks' = [socks EXCEPT ![c] = Owe(@, @.cur)]
  /\ excused' = excused \cup Forgotten(table, table')
  /\ UNCHANGED <<senderVars, copies, settled, faults>>

\* Only a frame some consumer took raises its mark.
RaiseTaken(c) ==
  /\ socks[c].st = "taken"
  /\ table' = Raise(table, Queue[socks[c].cur])
  /\ socks' = [socks EXCEPT ![c] = Owe(@, @.cur)]
  /\ excused' = excused \cup Forgotten(table, table')
  /\ UNCHANGED <<senderVars, copies, settled, faults>>

\* Shutdown or an idle close, between two frames.
EndByListener(c) ==
  /\ socks[c].st = "loop"
  /\ Fault
  /\ socks' = [socks EXCEPT ![c] = GoAway(@)]
  /\ UNCHANGED <<senderVars, table, ghosts>>

\* The peer closed, a read or an Ack write failed, or a frame was cut off.
EndByPeer(c) ==
  /\ socks[c].st \in {"hello", "loop"}
  /\ ~socks[c].open \/ (socks[c].up # <<>> /\ Head(socks[c].up) = Torn)
  /\ socks' = [socks EXCEPT ![c] = Over(Flush(@))]
  /\ UNCHANGED <<senderVars, table, ghosts, faults>>

\* The network resets c: what either side had not read may be lost.
Reset(c) ==
  /\ socks[c].st = "loop" /\ socks[c].open
  /\ Fault
  /\ \E n \in 0..Len(socks[c].down) :
       socks' = [socks EXCEPT ![c] = Over([@ EXCEPT !.down = SubSeq(socks[c].down, 1, n)])]
  /\ UNCHANGED <<senderVars, table, ghosts>>

\* logit_in is killed and starts again with an empty table.
RestartListener ==
  /\ Fault
  /\ table' = <<>>
  /\ socks' = [c \in Conns |-> IF socks[c].st = "free" THEN socks[c] ELSE Over(socks[c])]
  /\ excused' = excused \cup settled
  /\ UNCHANGED <<senderVars, copies, settled>>

\* Another sink's frame reaches the consumers.
OtherSink(id) ==
  /\ ~Holds(table, id)
  /\ Fault
  /\ table' = Raise(table, [id |-> id, seq |-> 1])
  /\ excused' = excused \cup Forgotten(table, table')
  /\ UNCHANGED <<senderVars, socks, copies, settled>>

-----------------------------------------------------------------------------
Init ==
  /\ head = 1 /\ conn = None /\ resend = {} /\ hello = 0
  /\ socks = [c \in Conns |-> Fresh]
  /\ table = <<>>
  /\ copies = [f \in Frames |-> 0]
  /\ settled = {} /\ excused = {}
  /\ faults = 0

\* Nothing is left to send; any other state without a step is a deadlock.
Drained == head = Len(Queue) + 1 /\ UNCHANGED vars

Submit(f) == Resume(f) \/ WriteFrame(f)
Sender == Connect \/ ReadHelloAck \/ HelloFails \/ (\E f \in Frames : Submit(f)) \/ Probe
            \/ RejectLocally \/ AckedAlready \/ ReadAck \/ AckFails
Serve(c) == AnswerHello(c) \/ WriteOwedAck(c) \/ TakeFrame(c) \/ Forward(c) \/ RaiseTaken(c)
              \/ EndByPeer(c)

Next ==
  \/ Sender
  \/ RestartSender
  \/ \E c \in Conns : Serve(c) \/ EndByListener(c) \/ Reset(c)
  \/ RestartListener
  \/ \E id \in Strangers : OtherSink(id)
  \/ Drained

Spec == Init /\ [][Next]_vars

-----------------------------------------------------------------------------
\* No frame the sink committed is lost: it reached a consumer, was refused by
\* name, or was too large to send (read_ack, mark_acked, covers).
NothingLost == \A f \in Frames : f < head => f \in settled

\* A frame's only copy never comes after a later frame: whatever connections
\* and resends interleave, first copies keep the store's order (frame_loop).
FirstCopiesInOrder ==
  \A f, g \in Frames : f < g /\ g \in settled => f \in settled

\* Consumers see a frame twice only in the documented gaps: the listener
\* restarted, evicted the identity, or two tasks held the frame at once
\* (is_resend, raise).
DuplicatesExplained == \A f \in Frames : copies[f] = 2 => f \in excused

\* GOING_AWAY read in place of an ack tells the truth: this connection forwarded
\* none of the frames still unanswered (going_away, reject_in_place_of_ack).
GoingAwayIsClean ==
  conn # None /\ socks[conn.c].down # <<>> /\ Head(socks[conn.c].down) = GoingAway
    => \A i \in DOMAIN conn.inFlight :
         conn.inFlight[i].acked \/ conn.inFlight[i].f \notin socks[conn.c].took
=============================================================================
