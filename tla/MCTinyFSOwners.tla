--------------------------- MODULE MCTinyFSOwners ---------------------------
(***************************************************************************)
(* TinyFSOwners for TLC, with owners and ranks read off the image.         *)
(***************************************************************************)
EXTENDS TinyFSOwners, MCTinyFS, TLC

Files == (Inodes \cup OpenInodes) \ IF pc = "deleteSuper" THEN {fte.inodeIdx} ELSE {}

(* TLC computes a function once that is the result of @@, and not again    *)
(* for every value asked of it.                                            *)
Once(f) == f @@ << >>

(* The most blocks a buffer of the run needs. *)
MostBlocks ==
  CHOOSE n \in {BlocksFor(Length[b]) : b \in Buffers} :
    \A b \in Buffers : BlocksFor(Length[b]) <= n

(* OwnersBut({}), with witnesses: the owner of a block is the one whose    *)
(* chain it is in, its rank the length of the chain from it on.  And the   *)
(* disk has the room that makes it so.                                     *)
OwnersFound ==
  /\ EntriesApart /\ MakingOK
  /\ RoomForFiles(MostBlocks)
  /\ HasFS =>
       LET chain == Once([j \in Indices |-> Chain(j)])
           free  == FreeChain
           held  == CASE pc \in {"createInode", "writeInode"} -> Chain(loc.cur)
                      [] pc \in Holding \ {"createInode", "writeInode"} ->
                           Chain(loc.first) \ free
                      [] OTHER -> {}
           owner == Once([j \in Indices |->
             IF j \in free THEN Free
             ELSE IF j \in held THEN Held
             ELSE IF \E i \in Files : j \in chain[i]
                    THEN CHOOSE i \in Files : j \in chain[i]
             ELSE Nobody])
           rank  == Once([j \in Indices |->
             Cardinality(IF j \in held THEN chain[j] \ free ELSE chain[j])])
       IN  /\ Owned(owner, rank, Cardinality(held))
           /\ Placed(owner, rank, Cardinality(held), {})
=============================================================================
