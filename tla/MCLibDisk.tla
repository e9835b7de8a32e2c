----------------------------- MODULE MCLibDisk -----------------------------
(***************************************************************************)
(* LibDisk for TLC.                                                        *)
(***************************************************************************)
EXTENDS LibDisk

MCSizes == {-1, 0, 5}
MCIndices == -1..2
=============================================================================
