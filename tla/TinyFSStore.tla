----------------------------- MODULE TinyFSStore -----------------------------
(***************************************************************************)
(* TinyFS implements FileStore.  The files of the store are the inodes     *)
(* that have a name; a file's content is the buffer its chain holds whole, *)
(* and Blank or Torn when it holds none.  The call that runs is read off   *)
(* pc and loc.  A file that tfs_deleteFile could not finish with loses its *)
(* name and is not in the store, though its handle lives on.               *)
(***************************************************************************)
EXTENDS TinyFS

CONSTANTS
  MayFail,      \* whether the store may run out of room
  Blank, Torn,  \* contents that are no buffer
  None          \* no file, no call

ASSUME StoreAssumption ==
  /\ MayFail \in BOOLEAN
  /\ Blank \notin Buffers /\ Torn \notin Buffers /\ Blank # Torn
  /\ None \notin Indices
  /\ None \notin [op : {"mount", "open", "write", "delete", "read"},
                  arg : {None} \cup Names \cup Buffers]

StoredFiles == {i \in Inodes : NameOf(disk[i]) # EmptyName}

ContentOf(i) ==
  IF \E b \in Buffers : Holds(i, b)
    THEN CHOOSE b \in Buffers : Holds(i, b)
  ELSE IF FileSize(disk[i]) = 0 /\ disk[i].nextIdx = 0 THEN Blank ELSE Torn

StoreFiles ==
  [i \in StoredFiles |-> [name |-> NameOf(disk[i]), content |-> ContentOf(i)]]

StoreHandles ==
  [k \in DOMAIN LL |->
     [fd |-> LL[k].fd, offset |-> LL[k].offset, name |-> LL[k].fileName,
      file |-> IF LL[k].inodeIdx \in Indices THEN LL[k].inodeIdx ELSE None]]

StoreOp ==
  CASE loc.then = "client" -> "mount"
    [] loc.then \in {"tfs_openFile", "createFile"} -> "open"
    [] loc.then = "tfs_writeFile" -> "write"
    [] loc.then = "none" /\ pc = "readWalk" -> "read"
    [] loc.then = "none" /\ pc # "readWalk" -> "delete"

StoreArg ==
  CASE StoreOp = "open"  -> loc.name
    [] StoreOp = "write" -> loc.buf
    [] OTHER             -> None

StoreCall == IF pc = "idle" THEN None ELSE [op |-> StoreOp, arg |-> StoreArg]

Store == INSTANCE FileStore WITH
           Files <- 1..(NBlocks - 1), files <- StoreFiles,
           handles <- StoreHandles, nextFd <- currentFD,
           call <- StoreCall

(* Every behaviour of the library is one of the store: what a call does to *)
(* blocks, step by step and cut short anywhere, is to the client the       *)
(* opening, writing, reading, renaming or deletion of one named file.      *)
ImplementsStore == Store!Spec

(* The calls with a name in the store's vocabulary do what it says, and do *)
(* not merely answer: a close takes the handle, a seek moves it, a rename  *)
(* renames the file, a delete that returns 0 has removed both.             *)
CallsHaveEffect ==
  [][/\ \A FD \in Descriptors :
          /\ CloseFile(FD) => Store!Close
          /\ \A o \in Offsets : Seek(FD, o) => Store!Seek
          /\ \A n \in NewNames :
               Rename(FD, n) /\ ~Store!Adrift => Store!Rename
          /\ \A b \in Buffers :
               WriteFile(FD, b) /\ ~Store!Adrift => Store!WriteBegins
     /\ DeleteSuper => Store!DeleteReturns]_vars

-----------------------------------------------------------------------------
(* The invariant behind it: what a running call has found out about the    *)
(* files, and relies on later.                                             *)

(* No image without a superblock has an inode; a disk that a call works on *)
(* is open.                                                                *)
FilesMounted ==
  /\ ~HasFS => Inodes = {}
  /\ diskFd # MountFailed
  /\ pc = "lookup" => diskFd = Mounted

(* tfs_openFile makes a file only if there was none of that name, and none *)
(* has come since.                                                         *)
NameStillNew ==
  /\ loc.then \in {"tfs_openFile", "createFile"} => loc.name \in Names
  /\ loc.then = "createFile" => Hits(loc.name) = {} /\ ~IsOpen(loc.name)

(* The inode tfs_writeFile holds in memory is the one on the disk.         *)
InodeInMemory ==
  pc = "writeInode" \/ (pc \in Allocating /\ loc.then = "tfs_writeFile") =>
    loc.inb = disk[fte.inodeIdx]

(* An open file that is no inode was half deleted, and has no name but one *)
(* it was given since.                                                     *)
LostNames ==
  \A i \in OpenInodes :
    disk[i].type # inode => NameOf(disk[i]) \in NewNames \cup {EmptyName}

StoreInv ==
  /\ FilesMounted /\ NameStillNew /\ InodeInMemory /\ LostNames
  /\ pc \in {"deleteBlock", "deleteLast", "deleteSuper", "readWalk"} =>
       loc.then = "none"
  /\ pc = "deleteSuper" => loc.first = fte.inodeIdx
=============================================================================
