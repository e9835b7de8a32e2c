---------------------------- MODULE MCTinyFSTest ----------------------------
(***************************************************************************)
(* TinyFSTest for TLC.                                                     *)
(***************************************************************************)
EXTENDS TinyFSTest

MCLength == [b \in Buffers |-> 3]

(* Killed anywhere, also while the image is made and formatted. *)
MCAnywhere == PCs
=============================================================================
