--------------------------- MODULE MCBoundedQueue ---------------------------
(***************************************************************************)
(* Small instances of BoundedQueue for TLC.                                 *)
(***************************************************************************)
EXTENDS BoundedQueue

CONSTANTS p1, p2, c, none
=============================================================================
