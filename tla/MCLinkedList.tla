---------------------------- MODULE MCLinkedList ----------------------------
(***************************************************************************)
(* LinkedList for TLC.                                                     *)
(***************************************************************************)
EXTENDS LinkedList

(* Two entries have the key 7: indexLL is to find the first. *)
MCKey == [d \in Data |-> IF d = "c" THEN 8 ELSE 7]

MCPositions == -1..4
=============================================================================
