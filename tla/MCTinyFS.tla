------------------------------ MODULE MCTinyFS ------------------------------
(***************************************************************************)
(* TinyFS for TLC.  Buffers are named for the number of blocks they take;  *)
(* "one" fills its block to the last byte.                                 *)
(***************************************************************************)
EXTENDS TinyFSClaims

MCLength == [b \in Buffers |-> CASE b = "empty" -> 0
                                 [] b = "one"   -> DataSize
                                 [] b = "two"   -> DataSize + 1
                                 [] b = "three" -> 2 * DataSize + 1]

(* The process may be killed anywhere but while it formats.                *)
MCCrashPoints == PCs \ {"formatBlock"}

NoCrash == {}

(* A disk killed while it is formatted, or made anew under open files, may *)
(* end in a cycle of blocks, where tfs_deleteFile turns for ever, or count *)
(* blocks it has not: bounds for the runs that look at it.                 *)
MaxTurns     == NBlocks
MaxFreeCount == NBlocks

(* A mount that fails may leave a short image: the runs stop there.        *)
ImageWhole == size \in {-1, NBlocks} \/ pc = "create"

Bounded ==
  /\ ImageWhole
  /\ loc.count <= MaxTurns
  /\ disk[0].body.kind = "super" => disk[0].body.freeCount <= MaxFreeCount
=============================================================================
