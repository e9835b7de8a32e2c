---------------------------- MODULE MCTinyFSStore ----------------------------
(***************************************************************************)
(* TinyFSStore for TLC, with the values of MCTinyFS.                       *)
(***************************************************************************)
EXTENDS TinyFSStore, MCTinyFSOwners
=============================================================================
