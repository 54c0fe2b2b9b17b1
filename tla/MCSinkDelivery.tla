--------------------------- MODULE MCSinkDelivery ---------------------------
(***************************************************************************)
(* Small instances of SinkDelivery for TLC.                                 *)
(***************************************************************************)
EXTENDS SinkDelivery
=============================================================================
