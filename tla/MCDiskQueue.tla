---------------------------- MODULE MCDiskQueue ----------------------------
(***************************************************************************)
(* A small instance of DiskQueue for TLC: three records that a write can be *)
(* cut in the middle of, one of them larger than the spool, and one too     *)
(* large for any frame.                                                     *)
(***************************************************************************)
EXTENDS DiskQueue

MCSize == <<2, 3, 2, 9>>
=============================================================================
