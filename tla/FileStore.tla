------------------------------ MODULE FileStore ------------------------------
(***************************************************************************)
(* What the calls of libTinyFS.c promise a client that knows nothing of    *)
(* blocks: a store of files, each with a name and a content, and a list    *)
(* of handles, the oldest of which every call on a descriptor serves (see  *)
(* the head of TinyFS).                                                    *)
(*                                                                         *)
(* Opening, closing, seeking, renaming and reading happen at one moment,   *)
(* the return of the call.  Deleting happens at one moment of the call.    *)
(* A write does not: while it runs its file holds nothing or something     *)
(* torn, and a process killed then leaves it so.  No call touches another  *)
(* file, whatever happens to it.                                           *)
(***************************************************************************)
EXTENDS Integers, Sequences

CONSTANTS
  Files,     \* identities of files
  Names,     \* names a client opens
  NewNames,  \* names a client renames a file to
  Buffers,   \* what a client writes
  Length,    \* how long it is
  Offsets,   \* where a client seeks to
  MayFail,   \* whether the store may run out of room
  Blank,     \* the content of a file that holds nothing
  Torn,      \* the content of a file a write did not finish
  None,      \* no file, no call
  Nul        \* the byte a call returns that reads none

VARIABLES
  files,    \* the name and the content of every file there is
  handles,  \* the open files, oldest first
  nextFd,   \* the descriptor the next open gives
  call,     \* the call that runs, with its argument; None between calls
  ret       \* what the last call returned

vars == <<files, handles, nextFd, call, ret>>

Contents == Buffers \cup {Blank, Torn}

NoRet == [code |-> 0, byte |-> Nul]

Init ==
  /\ files = << >>
  /\ handles = << >>
  /\ nextFd = 1
  /\ call = None
  /\ ret = NoRet

-----------------------------------------------------------------------------
Begin(op, arg) == call' = [op |-> op, arg |-> arg] /\ ret' = NoRet

Running(op) == call # None /\ call.op = op

Answer(code, byte) == call' = None /\ ret' = [code |-> code, byte |-> byte]

Succeed == Answer(0, Nul)

ErrorCodes == {-3, -4, -7, -13, -15}

Fail == \E c \in ErrorCodes : Answer(c, Nul)

(* The handle that is served, and its file.  A handle may be adrift: its   *)
(* file could not be made, or was half deleted.                            *)
Served == handles[1]

Adrift == Served.file \notin DOMAIN files

SetOffset(o) == handles' = [handles EXCEPT ![1].offset = o]

SetContent(c) == files' = [files EXCEPT ![Served.file].content = c]

Without(f) == [g \in DOMAIN files \ {f} |-> files[g]]

-----------------------------------------------------------------------------
(* tfs_mkfs and tfs_mount by the client, tfs_unmount *)

MountBegins == call = None /\ Begin("mount", None) /\ UNCHANGED <<files, handles, nextFd>>

MountReturns == Running("mount") /\ Succeed /\ UNCHANGED <<files, handles, nextFd>>

(* A call that does nothing: tfs_unmount, tfs_getTimeStamp, and every call *)
(* that refuses its arguments.                                             *)
NoEffect ==
  /\ call = None
  /\ Succeed \/ Fail
  /\ UNCHANGED <<files, handles, nextFd>>

-----------------------------------------------------------------------------
(* tfs_openFile *)

OpenBegins(n) ==
  /\ call = None
  /\ Begin("open", n)
  /\ UNCHANGED <<files, handles, nextFd>>

(* The call returns the next descriptor. *)
Opens == Running("open") /\ Answer(nextFd, Nul) /\ nextFd' = nextFd + 1

NewHandle(f) ==
  handles' = Append(handles, [fd |-> nextFd, file |-> f, offset |-> 0,
                              name |-> call.arg])

OpenNames == {handles[k].name : k \in DOMAIN handles}

(* The name is in the list of open files. *)
OpenRefused ==
  /\ Running("open")
  /\ Fail
  /\ call.arg \in OpenNames
  /\ UNCHANGED <<files, handles, nextFd>>

Named(n) == {f \in DOMAIN files : files[f].name = n}

OpenFinds ==
  /\ Opens
  /\ call.arg \notin OpenNames
  /\ \E f \in Named(call.arg) : NewHandle(f)
  /\ UNCHANGED files

(* A new file is no file a handle is left over from. *)
OpenMakes ==
  /\ Opens
  /\ call.arg \notin OpenNames
  /\ Named(call.arg) = {}
  /\ \E f \in Files \ DOMAIN files :
       /\ \A k \in DOMAIN handles : handles[k].file # f
       /\ files' = [g \in DOMAIN files \cup {f} |->
                      IF g = f THEN [name |-> call.arg, content |-> Blank]
                               ELSE files[g]]
       /\ NewHandle(f)

(* The client gets a descriptor all the same. *)
OpenFindsNoRoom ==
  /\ MayFail
  /\ Opens
  /\ call.arg \notin OpenNames
  /\ Named(call.arg) = {}
  /\ NewHandle(None)
  /\ UNCHANGED files

-----------------------------------------------------------------------------
(* tfs_closeFile, tfs_seek, tfs_rename *)

Close ==
  /\ call = None /\ handles # << >>
  /\ handles' = Tail(handles)
  /\ Succeed
  /\ UNCHANGED <<files, nextFd>>

Seek ==
  /\ call = None /\ handles # << >>
  /\ \E o \in Offsets : SetOffset(o)
  /\ Succeed
  /\ UNCHANGED <<files, nextFd>>

Rename ==
  /\ call = None /\ handles # << >> /\ ~Adrift
  /\ \E n \in NewNames : files' = [files EXCEPT ![Served.file].name = n]
  /\ Succeed
  /\ UNCHANGED <<handles, nextFd>>

-----------------------------------------------------------------------------
(* tfs_writeFile *)

WriteBegins ==
  /\ call = None /\ handles # << >>
  /\ \E b \in Buffers : Begin("write", b)
  /\ \/ UNCHANGED files
     \/ ~Adrift /\ SetContent(Blank)
  /\ UNCHANGED <<handles, nextFd>>

WriteGoesOn ==
  /\ Running("write") /\ ~Adrift
  /\ UNCHANGED <<handles, nextFd, call, ret>>
  /\ SetContent(Blank) \/ SetContent(Torn)

(* When the call returns 0 the file holds the buffer. *)
WriteReturns ==
  /\ Running("write") /\ ~Adrift
  /\ Succeed
  /\ SetContent(call.arg)
  /\ SetOffset(0)
  /\ UNCHANGED nextFd

(* Without room the file is torn, and what it held is gone. *)
WriteFails ==
  /\ MayFail
  /\ Running("write") /\ ~Adrift
  /\ Fail
  /\ SetContent(Torn)
  /\ UNCHANGED <<handles, nextFd>>

-----------------------------------------------------------------------------
(* tfs_deleteFile *)

DeleteBegins ==
  /\ call = None /\ handles # << >>
  /\ Begin("delete", None)
  /\ UNCHANGED <<files, handles, nextFd>>

DeleteHappens ==
  /\ Running("delete") /\ ~Adrift
  /\ UNCHANGED <<handles, nextFd, call, ret>>
  /\ files' = Without(Served.file)

DeleteReturns ==
  /\ Running("delete") /\ Adrift
  /\ handles' = Tail(handles)
  /\ Succeed
  /\ UNCHANGED <<files, nextFd>>

(* A torn file is gone and its handle stays. *)
DeleteFails ==
  /\ MayFail
  /\ Running("delete") /\ Adrift
  /\ Fail
  /\ UNCHANGED <<files, handles, nextFd>>

-----------------------------------------------------------------------------
(* tfs_readByte *)

ReadBegins ==
  /\ call = None /\ handles # << >>
  /\ Begin("read", None)
  /\ UNCHANGED <<files, handles, nextFd>>

Content == files[Served.file].content

Reading == call = None \/ Running("read")

(* The byte at the offset, which moves on. *)
ReadByte ==
  /\ Running("read") /\ ~Adrift
  /\ Content \in Buffers
  /\ Served.offset < Length[Content]
  /\ Answer(0, <<Content, Served.offset>>)
  /\ SetOffset(Served.offset + 1)
  /\ UNCHANGED <<files, nextFd>>

ReadAtEnd ==
  /\ Reading /\ handles # << >> /\ ~Adrift
  /\ \/ Content = Blank
     \/ Content \in Buffers /\ Served.offset >= Length[Content]
  /\ Fail
  /\ UNCHANGED <<files, handles, nextFd>>

(* What a torn file reads as is anyone's guess. *)
ReadTorn ==
  /\ MayFail
  /\ Reading /\ handles # << >> /\ ~Adrift
  /\ Content = Torn
  /\ call' = None
  /\ \/ UNCHANGED handles
     \/ SetOffset(Served.offset + 1)
  /\ UNCHANGED <<files, nextFd>>

-----------------------------------------------------------------------------
(* A file that tfs_deleteFile half deleted comes back when its handle is   *)
(* given a name, or written once it has one; what it holds is anyone's     *)
(* guess.                                                                  *)
Revives ==
  /\ MayFail
  /\ handles # << >> /\ Adrift /\ Served.file \in Files
  /\ \/ call = None /\ Succeed
     \/ Running("write") /\ UNCHANGED <<call, ret>>
  /\ \E n \in NewNames, c \in Contents :
       files' = [g \in DOMAIN files \cup {Served.file} |->
                   IF g = Served.file THEN [name |-> n, content |-> c] ELSE files[g]]
  /\ UNCHANGED <<handles, nextFd>>

(* Any other call on a handle adrift answers anything and changes no file. *)
Astray ==
  /\ MayFail
  /\ handles # << >> /\ Adrift
  /\ Reading \/ Running("write") \/ Running("delete")
  /\ call' = None
  /\ \/ UNCHANGED handles
     \/ handles' = Tail(handles)
     \/ SetOffset(0)
     \/ SetOffset(Served.offset + 1)
  /\ UNCHANGED <<files, nextFd>>

(* The process is killed: the files stay as they are. *)
Crash ==
  /\ handles' = << >>
  /\ nextFd' = 1
  /\ call' = None
  /\ ret' = NoRet
  /\ UNCHANGED files

Next ==
  \/ MountBegins \/ MountReturns \/ NoEffect
  \/ \E n \in Names : OpenBegins(n)
  \/ OpenRefused \/ OpenFinds \/ OpenMakes \/ OpenFindsNoRoom
  \/ Close \/ Seek \/ Rename
  \/ WriteBegins \/ WriteGoesOn \/ WriteReturns \/ WriteFails
  \/ DeleteBegins \/ DeleteHappens \/ DeleteReturns \/ DeleteFails
  \/ ReadBegins \/ ReadByte \/ ReadAtEnd \/ ReadTorn
  \/ Revives \/ Astray \/ Crash

Spec == Init /\ [][Next]_vars

=============================================================================
