----------------------------- MODULE MCLuaNode -----------------------------
(***************************************************************************)
(* Two batches, and one flush that comes due or one further beat of the    *)
(* heartbeat.  stall_after is longer than shutdown_grace, as by default, so *)
(* that a node is found wedged both before and after it counts as stalled. *)
(***************************************************************************)
EXTENDS LuaNode
=============================================================================
