----------------------------- MODULE MCDiskTest -----------------------------
(***************************************************************************)
(* DiskTest for TLC.                                                       *)
(***************************************************************************)
EXTENDS DiskTest

CONSTANTS x, y, z

(* The last block, the first, and the last again. *)
MCTestDisks == <<x, y, z>>
MCTestBlocks == <<2, 0, 2>>
=============================================================================
