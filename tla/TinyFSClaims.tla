---------------------------- MODULE TinyFSClaims ----------------------------
(***************************************************************************)
(* What comments and tests of the repository say of TinyFS and the code    *)
(* does not do.  Each is checked by a run of its own, which shows how it   *)
(* fails.                                                                  *)
(***************************************************************************)
EXTENDS TinyFS

(* tfs_closeFile, libTinyFS.c:216, "remove the fd and free data": the      *)
(* entry that goes is that of the descriptor passed.  index(LL, FD), "get  *)
(* the index of the fd in the table" (:255), does not look in the list,    *)
(* and the oldest open file goes instead.                                  *)
CloseRemovesItsFD ==
  [][\A FD \in Descriptors :
       CloseFile(FD) /\ (\E k \in DOMAIN LL : LL[k].fd = FD) =>
         ~\E k \in DOMAIN LL' : LL'[k].fd = FD]_vars

(* tfs_format, libTinyFS.c:738, "point end to superblock (0)": the last    *)
(* free block of a formatted disk has the superblock as its successor.     *)
(* The statement is never reached.                                         *)
FreeListEndsAtSuperblock ==
  HasFS /\ pc = "idle" => Trail(FirstFree(disk[0]))[NBlocks] = 0

(* freeBlocks, libTinyFS.c:33, "check number of free blocks (must be >=    *)
(* numBlocks)": the count it checks is of blocks that are there to take.   *)
(* A write of an empty buffer takes a block and does not count it.         *)
FreeCountBacked ==
  HasFS => FreeCount(disk[0]) <= Cardinality(FreeChain)

(* tfs_openFile, libTinyFS.c:170, "file open", refuses a file that is      *)
(* open already: no two entries have the same inode.  After a tfs_rename   *)
(* the file is opened again by its new name.                               *)
OpenFilesDistinct ==
  \A j, k \in DOMAIN LL :
    j # k /\ LL[j].inodeIdx \in OnDisk => LL[j].inodeIdx # LL[k].inodeIdx

(* tfs_mount, libTinyFS.c:123, "check FS exists": where the check finds a  *)
(* file system, the disk has been formatted.  The superblock is written    *)
(* first, and a process killed during tfs_format leaves it before blocks   *)
(* that no one formatted.                                                  *)
ExistingFSIsFormatted ==
  [][pc = "validate" /\ HasSuperblock /\ pc' \in {"idle", "lookup"} =>
       \A i \in OnDisk : disk[i].type # 0]_vars

(* tinyFSTest.c:26, if ((fd = tfs_openFile("testfile")) == -1), and every  *)
(* test after it: a descriptor that is not negative is that of an open     *)
(* file.  With no block left for the inode tfs_openFile returns one too,   *)
(* for a file that does not exist.                                         *)
OpenGivesFile ==
  [][pc # "idle" /\ pc' = "idle" /\ LL' # <<>> /\ Len(LL') > Len(LL) =>
       LL'[Len(LL')].inodeIdx \in OnDisk]_vars

(* tfs_mount, libTinyFS.c:110 and :117, "check disk" and "create the disk  *)
(* and open it": the disk is created when there is none, so a file system  *)
(* that is there outlives a mount.  diskExists answers -1 for any failure  *)
(* of open(2), and the disk is created over the one that is there.         *)
MountKeepsFS == [][HasFS /\ pc = "mount" => HasFS']_vars

=============================================================================
