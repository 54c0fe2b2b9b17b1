----------------------------- MODULE SinkContract -----------------------------
(***************************************************************************)
(* What a sink node promises for the batches handed to it, whatever queue,   *)
(* window or retry it uses: the contract behind run_output in               *)
(* crates/logit-pipeline/src/runtime.rs, which SinkDelivery implements.      *)
(*                                                                          *)
(* A batch is taken once and settled at most once, delivered in order after  *)
(* the destination applied it, or given up.  Under at-most-once the          *)
(* destination is never made to apply it again.  A node that stopped has     *)
(* settled everything it took, or keeps it for the next run.                *)
(***************************************************************************)
EXTENDS Naturals

CONSTANT Batches   \* the batches' numbers, in the order upstream sends them

VARIABLES
  onlyOnce,  \* the posture is at-most-once
  keeps,     \* the store survives the process
  status,    \* where each batch is
  applied,   \* how often the destination applied each batch
  stopped    \* the node has returned

cvars == <<onlyOnce, keeps, status, applied, stopped>>

\* A batch is shed on arrival or later, and delivered only from the store.
Moves == {<<"upstream", "held">>, <<"upstream", "dropped">>,
          <<"held", "delivered">>, <<"held", "dropped">>}

MovesAllowed == \A b \in Batches : status'[b] # status[b] => <<status[b], status'[b]>> \in Moves

NewlyDelivered == {b \in Batches : status[b] # "delivered" /\ status'[b] = "delivered"}

\* One batch at a time is delivered, after it was applied, and never behind a
\* batch that upstream sent later.
DeliversInOrder ==
  \A b \in NewlyDelivered :
    /\ NewlyDelivered = {b}
    /\ applied'[b] > 0
    /\ \A c \in Batches : status[c] = "delivered" => c < b

\* The destination applies batches the node holds, again only if the posture allows it.
AppliesHeld ==
  \A b \in Batches :
    \/ applied'[b] = applied[b]
    \/ /\ applied'[b] = applied[b] + 1
       /\ status[b] = "held"
       /\ onlyOnce => applied[b] = 0

\* What a node leaves behind: nothing, or what the next run may send.
LeavesNothingOpen ==
  \A b \in Batches : status'[b] = "held" => keeps /\ (onlyOnce => applied'[b] = 0)

CInit ==
  /\ onlyOnce \in BOOLEAN /\ keeps \in BOOLEAN
  /\ status = [b \in Batches |-> "upstream"]
  /\ applied = [b \in Batches |-> 0]
  /\ stopped = FALSE

CNext ==
  /\ ~stopped
  /\ MovesAllowed /\ DeliversInOrder /\ AppliesHeld
  /\ \/ stopped' = FALSE
     \/ stopped' = TRUE /\ LeavesNothingOpen
  /\ UNCHANGED <<onlyOnce, keeps>>

CSpec == CInit /\ [][CNext]_cvars
=============================================================================
