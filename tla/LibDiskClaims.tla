--------------------------- MODULE LibDiskClaims ---------------------------
(***************************************************************************)
(* What comments of libDisk.c say of it, and the code does not do.         *)
(***************************************************************************)
EXTENDS MCLibDisk

(* libDisk.c:56, "check that blockIdx is valid": a block that is read lies *)
(* in the disk.                                                            *)
IndexChecked ==
  ret.op = "readBlock" /\ ret.code = 0 =>
    (ret.args[2] + 1) * BlockSize <= Len(file[fds[ret.args[1]]])
=============================================================================
