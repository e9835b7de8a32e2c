------------------------- MODULE TinyFSStore_proofs -------------------------
(***************************************************************************)
(* TinyFS implements FileStore: the initial state is one of the store, and *)
(* every step is one of the store's or none.                               *)
(***************************************************************************)
EXTENDS TinyFSStore, TinyFSSteps_proofs

-----------------------------------------------------------------------------
(* The open files *)

Handle(e) == [fd |-> e.fd, offset |-> e.offset, name |-> e.fileName,
              file |-> IF e.inodeIdx \in Indices THEN e.inodeIdx ELSE None]

LEMMA HandlesAre ==
  ASSUME TypeOK
  PROVE  /\ StoreHandles = [k \in 1..Len(LL) |-> Handle(LL[k])]
         /\ StoreHandles \in Seq({Handle(e) : e \in FTE})
         /\ Len(StoreHandles) = Len(LL)
         /\ Len(LL) \in Nat /\ DOMAIN LL = 1..Len(LL)
  <1>1. LL \in Seq(FTE) /\ Len(LL) \in Nat /\ DOMAIN LL = 1..Len(LL)
    BY DEF TypeOK
  <1>2. \A k \in 1..Len(LL) : LL[k] \in FTE
    BY <1>1
  <1>3. StoreHandles = [k \in 1..Len(LL) |-> Handle(LL[k])]
    BY <1>1 DEF StoreHandles, Handle
  <1>4. StoreHandles \in [1..Len(LL) -> {Handle(e) : e \in FTE}]
    BY <1>2, <1>3
  <1>5. StoreHandles \in Seq({Handle(e) : e \in FTE}) /\ Len(StoreHandles) = Len(LL)
    BY <1>1, <1>4, IsASeq, LenProperties
  <1> QED
    BY <1>1, <1>3, <1>5

LEMMA HandlesSame ==
  ASSUME LL' = LL
  PROVE  StoreHandles' = StoreHandles
  BY DEF StoreHandles

LEMMA HandlesNone ==
  ASSUME TypeOK
  PROVE  /\ StoreHandles = << >> <=> LL = << >>
         /\ LL # << >> => 1 \in DOMAIN StoreHandles /\ StoreHandles[1] = Handle(fte)
  <1>1. LL \in Seq(FTE) /\ (LL = << >> <=> Len(LL) = 0)
    BY EmptySeq DEF TypeOK
  <1>2. StoreHandles = << >> <=> Len(StoreHandles) = 0
    BY HandlesAre, EmptySeq
  <1>3. ASSUME LL # << >>
        PROVE  1 \in DOMAIN StoreHandles /\ StoreHandles[1] = Handle(fte)
    <2>1. 1 \in 1..Len(LL) /\ fte = LL[1]
      BY <1>1, <1>3, HandlesAre DEF fte
    <2> QED
      BY <2>1, HandlesAre
  <1> QED
    BY <1>1, <1>2, <1>3, HandlesAre

LEMMA HandlesAreThen ==
  (TypeOK => /\ StoreHandles = [k \in 1..Len(LL) |-> Handle(LL[k])]
             /\ StoreHandles \in Seq({Handle(e) : e \in FTE})
             /\ Len(StoreHandles) = Len(LL)
             /\ Len(LL) \in Nat /\ DOMAIN LL = 1..Len(LL))'
  <1>1. TypeOK => /\ StoreHandles = [k \in 1..Len(LL) |-> Handle(LL[k])]
                  /\ StoreHandles \in Seq({Handle(e) : e \in FTE})
                  /\ Len(StoreHandles) = Len(LL)
                  /\ Len(LL) \in Nat /\ DOMAIN LL = 1..Len(LL)
    BY HandlesAre
  <1> QED
    BY <1>1, PTL

(* The offset of the first entry moves. *)
LEMMA HandlesMoved ==
  ASSUME TypeOK, TypeOK', LL # << >>, NEW x, SetOffset(x)
  PROVE  StoreHandles' = [StoreHandles EXCEPT ![1].offset = x]
  <1>1. /\ Len(LL') = Len(LL) /\ LL[1] \in FTE /\ 1 \in 1..Len(LL)
        /\ \A k \in 1..Len(LL) :
             LL'[k] = IF k = 1 THEN [LL[1] EXCEPT !.offset = x] ELSE LL[k]
    BY HandlesAre DEF SetOffset, TypeOK
  <1>2. Handle([LL[1] EXCEPT !.offset = x]) = [Handle(LL[1]) EXCEPT !.offset = x]
    <2> DEFINE e == [LL[1] EXCEPT !.offset = x]
    <2>1. /\ e.fd = LL[1].fd /\ e.offset = x /\ e.fileName = LL[1].fileName
          /\ e.inodeIdx = LL[1].inodeIdx
      BY <1>1 DEF FTE
    <2> HIDE DEF e
    <2>2. Handle(e) = [Handle(LL[1]) EXCEPT !.offset = x]
      BY <2>1 DEF Handle
    <2> QED
      BY <2>2 DEF e
  <1> QED
    BY <1>1, <1>2, HandlesAre, HandlesAreThen

(* The first entry goes. *)
LEMMA HandlesTail ==
  ASSUME TypeOK, TypeOK', LL # << >>, LL' = Tail(LL)
  PROVE  StoreHandles' = Tail(StoreHandles)
  <1>1. LL \in Seq(FTE)
    BY DEF TypeOK
  <1>2. /\ Len(Tail(LL)) = Len(LL) - 1
        /\ \A k \in 1..(Len(LL) - 1) : Tail(LL)[k] = LL[k + 1]
    BY <1>1
  <1>3. /\ Tail(StoreHandles) \in Seq({Handle(e) : e \in FTE})
        /\ Len(Tail(StoreHandles)) = Len(LL) - 1
        /\ \A k \in 1..(Len(LL) - 1) : Tail(StoreHandles)[k] = StoreHandles[k + 1]
    <2>1. StoreHandles # << >>
      BY HandlesNone
    <2> QED
      BY <2>1, HandlesAre
  <1>4. \A k \in 1..(Len(LL) - 1) : StoreHandles'[k] = Tail(StoreHandles)[k]
    <2> SUFFICES ASSUME NEW k \in 1..(Len(LL) - 1)
                 PROVE  StoreHandles'[k] = Tail(StoreHandles)[k]
      OBVIOUS
    <2>1. k + 1 \in 1..Len(LL)
      BY HandlesAre
    <2>2. StoreHandles'[k] = Handle(LL[k + 1])
      BY <1>2, HandlesAreThen
    <2> QED
      BY <1>3, <2>1, <2>2, HandlesAre
  <1> QED
    BY <1>2, <1>3, <1>4, HandlesAreThen, SeqEqual

(* An entry is added. *)
LEMMA HandlesGrow ==
  ASSUME TypeOK, TypeOK', NEW e \in FTE, LL' = Append(LL, e)
  PROVE  StoreHandles' = Append(StoreHandles, Handle(e))
  <1>1. LL \in Seq(FTE)
    BY DEF TypeOK
  <1>2. /\ Len(LL') = Len(LL) + 1
        /\ \A k \in 1..(Len(LL) + 1) : LL'[k] = IF k = Len(LL) + 1 THEN e ELSE LL[k]
    BY <1>1
  <1>3. /\ Append(StoreHandles, Handle(e)) \in Seq({Handle(d) : d \in FTE})
        /\ Len(Append(StoreHandles, Handle(e))) = Len(LL) + 1
        /\ \A k \in 1..(Len(LL) + 1) :
             Append(StoreHandles, Handle(e))[k]
               = IF k = Len(LL) + 1 THEN Handle(e) ELSE StoreHandles[k]
    BY HandlesAre
  <1>4. \A k \in 1..(Len(LL) + 1) : StoreHandles'[k] = Append(StoreHandles, Handle(e))[k]
    <2> SUFFICES ASSUME NEW k \in 1..(Len(LL) + 1)
                 PROVE  StoreHandles'[k] = Append(StoreHandles, Handle(e))[k]
      OBVIOUS
    <2>1. StoreHandles'[k] = Handle(LL'[k])
      BY <1>2, HandlesAreThen
    <2> QED
      BY <1>2, <1>3, <2>1, HandlesAre
  <1> QED
    BY <1>2, <1>3, <1>4, HandlesAreThen, SeqEqual

LEMMA HandlesEmpty ==
  ASSUME LL = << >>
  PROVE  StoreHandles = << >>
  <1>1. StoreHandles = [k \in 1..0 |-> Handle(LL[k])]
    BY DEF StoreHandles, Handle
  <1>2. StoreHandles \in [1..0 -> {}]
    BY <1>1
  <1> QED
    BY <1>2, EmptySeq

LEMMA HandlesEmptyThen == (LL = << >> => StoreHandles = << >>)'
  <1>1. LL = << >> => StoreHandles = << >>
    BY HandlesEmpty
  <1> QED
    BY <1>1, PTL

-----------------------------------------------------------------------------
(* The call that runs *)

CallShape ==
  /\ pc = "idle" => StoreCall = None
  /\ pc # "idle" =>
       /\ loc.then = "client" => StoreCall = [op |-> "mount", arg |-> None]
       /\ loc.then \in {"tfs_openFile", "createFile"} =>
            StoreCall = [op |-> "open", arg |-> loc.name]
       /\ loc.then = "tfs_writeFile" => StoreCall = [op |-> "write", arg |-> loc.buf]
       /\ loc.then = "none" /\ pc \in {"deleteBlock", "deleteLast", "deleteSuper"} =>
            StoreCall = [op |-> "delete", arg |-> None]
       /\ loc.then = "none" /\ pc = "readWalk" => StoreCall = [op |-> "read", arg |-> None]

LEMMA CallIs == CallShape
  <1>1. /\ loc.then = "client" => StoreOp = "mount"
        /\ loc.then \in {"tfs_openFile", "createFile"} => StoreOp = "open"
        /\ loc.then = "tfs_writeFile" => StoreOp = "write"
        /\ loc.then = "none" => StoreOp = IF pc = "readWalk" THEN "read" ELSE "delete"
    BY DEF StoreOp
  <1>2. /\ StoreOp = "open" => StoreArg = loc.name
        /\ StoreOp = "write" => StoreArg = loc.buf
        /\ StoreOp \in {"mount", "read", "delete"} => StoreArg = None
    BY DEF StoreArg
  <1> QED
    BY <1>1, <1>2 DEF CallShape, StoreCall

LEMMA CallIsThen == CallShape'
  BY CallIs, PTL

(* A call that runs is not None. *)
LEMMA CallRuns ==
  /\ None # [op |-> "mount", arg |-> None]
  /\ None # [op |-> "delete", arg |-> None]
  /\ None # [op |-> "read", arg |-> None]
  /\ \A n \in Names : None # [op |-> "open", arg |-> n]
  /\ \A b \in Buffers : None # [op |-> "write", arg |-> b]
  BY StoreAssumption

-----------------------------------------------------------------------------
(* What a file holds *)

LEMMA HoldsOne ==
  ASSUME Careful, NEW i, NEW b \in Buffers, NEW c \in Buffers, Holds(i, b), Holds(i, c)
  PROVE  b = c
  <1>1. Length[b] \in Nat /\ Length[b] > 0 /\ Length[c] \in Nat /\ Length[c] > 0
    BY ClientAssumption DEF Careful
  <1>2. 1 \in 1..BlocksFor(Length[b]) /\ 1 \in 1..BlocksFor(Length[c])
    BY <1>1, BlocksForPositive
  <1>3. DataBody(b, 1 - 1) = DataBody(c, 1 - 1)
    BY <1>2 DEF Holds
  <1> QED
    BY <1>3 DEF DataBody

ContentShape ==
  \A i :
    /\ \A b \in Buffers : Holds(i, b) => ContentOf(i) = b
    /\ (\A b \in Buffers : ~Holds(i, b)) =>
         ContentOf(i) = IF FileSize(disk[i]) = 0 /\ disk[i].nextIdx = 0 THEN Blank ELSE Torn

LEMMA ContentIs ==
  ASSUME Careful
  PROVE  ContentShape
  <1> SUFFICES ASSUME NEW i
               PROVE  /\ \A b \in Buffers : Holds(i, b) => ContentOf(i) = b
                      /\ (\A b \in Buffers : ~Holds(i, b)) =>
                           ContentOf(i) = IF FileSize(disk[i]) = 0 /\ disk[i].nextIdx = 0
                                            THEN Blank ELSE Torn
    BY DEF ContentShape
  <1>1. ASSUME NEW b \in Buffers, Holds(i, b)
        PROVE  ContentOf(i) = b
    <2> DEFINE c == CHOOSE x \in Buffers : Holds(i, x)
    <2>1. c \in Buffers /\ Holds(i, c)
      BY <1>1
    <2>2. ContentOf(i) = c
      BY <1>1 DEF ContentOf
    <2> HIDE DEF c
    <2> QED
      BY <1>1, <2>1, <2>2, HoldsOne
  <1>2. ASSUME \A b \in Buffers : ~Holds(i, b)
        PROVE  ContentOf(i) = IF FileSize(disk[i]) = 0 /\ disk[i].nextIdx = 0
                                THEN Blank ELSE Torn
    BY <1>2 DEF ContentOf
  <1> QED
    BY <1>1, <1>2

LEMMA ContentIsThen ==
  ASSUME Careful
  PROVE  ContentShape'
  <1>1. ContentShape
    BY ContentIs
  <1> QED
    BY <1>1, PTL

(* A file of no size holds no buffer. *)
LEMMA HoldsSized ==
  ASSUME Careful, NEW i, NEW b \in Buffers, Holds(i, b)
  PROVE  FileSize(disk[i]) # 0
  BY ClientAssumption DEF Careful, Holds

(* Content is the same when Holds is. *)
LEMMA ContentSame ==
  ASSUME Careful, NEW i,
         FileSize(disk'[i]) = FileSize(disk[i]), disk'[i].nextIdx = disk[i].nextIdx,
         \A b \in Buffers : Holds(i, b)' <=> Holds(i, b)
  PROVE  ContentOf(i)' = ContentOf(i)
  <1>1. CASE \E b \in Buffers : Holds(i, b)
    BY <1>1, ContentIs, ContentIsThen DEF ContentShape
  <1>2. CASE \A b \in Buffers : ~Holds(i, b)
    BY <1>2, ContentIs, ContentIsThen DEF ContentShape
  <1> QED
    BY <1>1, <1>2

LEMMA HoldsFitsThen ==
  (\A i, b : size \in -1..NBlocks /\ b \in Buffers /\ Holds(i, b) =>
     BlocksFor(Length[b]) \in Nat /\ BlocksFor(Length[b]) < NBlocks)'
  <1>1. \A i, b : size \in -1..NBlocks /\ b \in Buffers /\ Holds(i, b) =>
          BlocksFor(Length[b]) \in Nat /\ BlocksFor(Length[b]) < NBlocks
    BY HoldsFits
  <1> QED
    BY <1>1, PTL

(* The same trail, over blocks that hold the buffer as far as they did. *)
LEMMA HoldsKept ==
  ASSUME TypeOK, TypeOK', NEW i, NEW b \in Buffers,
         OnDisk' = OnDisk, Trail(i)' = Trail(i), FileSize(disk'[i]) = FileSize(disk[i]),
         \A k \in 1..NBlocks : Trail(i)[k] \in OnDisk =>
           (disk'[Trail(i)[k]].body = DataBody(b, k - 1)
              <=> disk[Trail(i)[k]].body = DataBody(b, k - 1))
  PROVE  Holds(i, b)' <=> Holds(i, b)
  <1> DEFINE n == BlocksFor(Length[b])
  <1>1. NBlocks \in Nat
    BY SizesAssumption
  <1>2. Holds(i, b) \/ Holds(i, b)' => n \in Nat /\ n < NBlocks
    BY HoldsFits, HoldsFitsThen DEF TypeOK
  <1>3. n \in Nat /\ n < NBlocks =>
          \A k \in 1..n : Trail(i)[k] \in OnDisk =>
            (disk'[Trail(i)[k]].body = DataBody(b, k - 1)
               <=> disk[Trail(i)[k]].body = DataBody(b, k - 1))
    BY <1>1
  <1>4. n \in Nat /\ n < NBlocks => (Holds(i, b)' <=> Holds(i, b))
    BY <1>3 DEF Holds
  <1> QED
    BY <1>2, <1>4

LEMMA TrailIs ==
  \A i : IsTrail(Trail(i), i, NBlocks)
  <1> SUFFICES ASSUME NEW i PROVE IsTrail(Trail(i), i, NBlocks)
    OBVIOUS
  <1>1. Trail(i) = CHOOSE f : IsTrail(f, i, NBlocks)
    BY DEF Trail, IsTrail, Succ
  <1>2. NBlocks \in Nat
    BY SizesAssumption
  <1> QED
    BY <1>1, <1>2, TrailsExist

LEMMA TrailIsThen ==
  (\A i : IsTrail(Trail(i), i, NBlocks))'
  BY TrailIs, PTL

(* A trail none of whose links changes is the same trail. *)
LEMMA TrailKept ==
  ASSUME NEW i, OnDisk' = OnDisk,
         \A k \in 0..NBlocks :
           Trail(i)[k] \in OnDisk => disk'[Trail(i)[k]].nextIdx = disk[Trail(i)[k]].nextIdx
  PROVE  Trail(i)' = Trail(i)
  <1>0. NBlocks \in Nat
    BY SizesAssumption
  <1> DEFINE T == {k \in Nat : k <= NBlocks => Trail(i)'[k] = Trail(i)[k]}
  <1>1. /\ Trail(i) = [k \in 0..NBlocks |-> IF k = 0 THEN i ELSE Succ(Trail(i)[k - 1])]
        /\ Trail(i)' = [k \in 0..NBlocks |-> IF k = 0 THEN i ELSE Succ(Trail(i)[k - 1])']
    BY TrailIs, TrailIsThen DEF IsTrail
  <1>2. 0 \in T
    BY <1>0, <1>1
  <1>3. ASSUME NEW k \in Nat, k \in T
        PROVE  k + 1 \in T
    <2> SUFFICES ASSUME k + 1 <= NBlocks PROVE Trail(i)'[k + 1] = Trail(i)[k + 1]
      OBVIOUS
    <2>1. k \in 0..NBlocks /\ k + 1 \in 0..NBlocks /\ k + 1 # 0 /\ (k + 1) - 1 = k
      BY <1>0
    <2>2. Trail(i)'[k] = Trail(i)[k]
      BY <1>3, <2>1
    <2>3. Trail(i)[k + 1] = Succ(Trail(i)[k]) /\ Trail(i)'[k + 1] = Succ(Trail(i)[k])'
      BY <1>1, <2>1
    <2>4. Succ(Trail(i)[k])' = Succ(Trail(i)[k])
      BY <2>1, <2>2 DEF Succ
    <2> QED
      BY <2>3, <2>4
  <1>4. \A k \in 0..NBlocks : Trail(i)'[k] = Trail(i)[k]
    <2> HIDE DEF T
    <2>1. Nat \subseteq T
      BY <1>2, <1>3, Induction
    <2> QED
      BY <1>0, <2>1 DEF T
  <1> QED
    BY <1>1, <1>4

-----------------------------------------------------------------------------
(* What a step does to the files *)

LEMMA FilesAre ==
  /\ DOMAIN StoreFiles = StoredFiles /\ DOMAIN StoreFiles' = StoredFiles'
  /\ \A i \in StoredFiles :
       StoreFiles[i] = [name |-> NameOf(disk[i]), content |-> ContentOf(i)]
  BY DEF StoreFiles

(* File i is what it was: no file, or one of the same name and content. *)
Alike(i) ==
  /\ i \in StoredFiles' <=> i \in StoredFiles
  /\ i \in StoredFiles => /\ NameOf(disk'[i]) = NameOf(disk[i])
                          /\ ContentOf(i)' = ContentOf(i)

LEMMA FilesSame ==
  ASSUME \A i : Alike(i)
  PROVE  StoreFiles' = StoreFiles
  <1>1. StoredFiles' = StoredFiles
    BY DEF Alike
  <1>2. \A i \in StoredFiles : NameOf(disk'[i]) = NameOf(disk[i]) /\ ContentOf(i)' = ContentOf(i)
    BY DEF Alike
  <1> QED
    BY <1>1, <1>2 DEF StoreFiles

LEMMA StorageSame ==
  ASSUME UNCHANGED storage
  PROVE  StoreFiles' = StoreFiles
  <1>1. disk' = disk /\ size' = size
    BY DEF storage
  <1> QED
    BY <1>1 DEF StoreFiles, StoredFiles, ContentOf, Inodes, Holds, Trail, OnDisk

(* One file changes, comes or goes; the others are alike. *)
LEMMA FilesButOne ==
  ASSUME NEW f, \A i : i # f => Alike(i)
  PROVE  /\ f \in StoredFiles /\ f \in StoredFiles' /\ NameOf(disk'[f]) = NameOf(disk[f]) =>
              StoreFiles' = [StoreFiles EXCEPT ![f].content = ContentOf(f)']
         /\ f \in StoredFiles /\ f \in StoredFiles' /\ ContentOf(f)' = ContentOf(f) =>
              StoreFiles' = [StoreFiles EXCEPT ![f].name = NameOf(disk'[f])]
         /\ f \in StoredFiles /\ f \notin StoredFiles' =>
              StoreFiles' = [g \in DOMAIN StoreFiles \ {f} |-> StoreFiles[g]]
         /\ f \notin StoredFiles /\ f \in StoredFiles' =>
              StoreFiles' = [g \in DOMAIN StoreFiles \cup {f} |->
                               IF g = f THEN [name |-> NameOf(disk'[f]), content |-> ContentOf(f)']
                                        ELSE StoreFiles[g]]
         /\ f \notin StoredFiles /\ f \notin StoredFiles' => StoreFiles' = StoreFiles
  <1>1. /\ \A i : i # f => (i \in StoredFiles' <=> i \in StoredFiles)
        /\ \A i \in StoredFiles :
             i # f => /\ NameOf(disk'[i]) = NameOf(disk[i])
                      /\ ContentOf(i)' = ContentOf(i)
    BY DEF Alike
  <1>2. StoreFiles = [i \in StoredFiles |-> [name |-> NameOf(disk[i]), content |-> ContentOf(i)]]
    BY DEF StoreFiles
  <1>3. StoreFiles' = [i \in StoredFiles' |-> [name |-> NameOf(disk'[i]), content |-> ContentOf(i)']]
    BY DEF StoreFiles
  <1>4. ASSUME f \in StoredFiles, f \in StoredFiles'
        PROVE  /\ StoredFiles' = StoredFiles
               /\ StoreFiles[f] = [name |-> NameOf(disk[f]), content |-> ContentOf(f)]
               /\ StoreFiles'[f] = [name |-> NameOf(disk'[f]), content |-> ContentOf(f)']
    BY <1>1, <1>2, <1>3, <1>4
  <1>5. ASSUME f \in StoredFiles, f \in StoredFiles', NameOf(disk'[f]) = NameOf(disk[f])
        PROVE  StoreFiles' = [StoreFiles EXCEPT ![f].content = ContentOf(f)']
    BY <1>1, <1>2, <1>3, <1>4, <1>5
  <1>6. ASSUME f \in StoredFiles, f \in StoredFiles', ContentOf(f)' = ContentOf(f)
        PROVE  StoreFiles' = [StoreFiles EXCEPT ![f].name = NameOf(disk'[f])]
    BY <1>1, <1>2, <1>3, <1>4, <1>6
  <1>7. ASSUME f \in StoredFiles, f \notin StoredFiles'
        PROVE  StoreFiles' = [g \in DOMAIN StoreFiles \ {f} |-> StoreFiles[g]]
    <2>1. StoredFiles' = StoredFiles \ {f}
      BY <1>1, <1>7
    <2> QED
      BY <1>1, <1>2, <1>3, <2>1
  <1>8. ASSUME f \notin StoredFiles, f \in StoredFiles'
        PROVE  StoreFiles' = [g \in DOMAIN StoreFiles \cup {f} |->
                                IF g = f THEN [name |-> NameOf(disk'[f]), content |-> ContentOf(f)']
                                         ELSE StoreFiles[g]]
    <2>1. StoredFiles' = StoredFiles \cup {f}
      BY <1>1, <1>8
    <2> QED
      BY <1>1, <1>2, <1>3, <1>8, <2>1
  <1>9. ASSUME f \notin StoredFiles, f \notin StoredFiles'
        PROVE  StoreFiles' = StoreFiles
    <2>1. StoredFiles' = StoredFiles
      BY <1>1, <1>9
    <2> QED
      BY <1>1, <1>2, <1>3, <1>9, <2>1
  <1> QED
    BY <1>5, <1>6, <1>7, <1>8, <1>9

(* The files with one put in, one filled, one given another name. *)
FilesWith(f, n, c) ==
  [g \in DOMAIN StoreFiles \cup {f} |->
     IF g = f THEN [name |-> n, content |-> c] ELSE StoreFiles[g]]

FilesFilled(f, c) == [StoreFiles EXCEPT ![f].content = c]

FilesNamed(f, n) == [StoreFiles EXCEPT ![f].name = n]

LEMMA FileAdded ==
  ASSUME NEW f, \A i : i # f => Alike(i), f \notin StoredFiles, f \in StoredFiles',
         NEW n, NameOf(disk'[f]) = n, NEW c, ContentOf(f)' = c
  PROVE  StoreFiles' = FilesWith(f, n, c)
  <1>1. StoreFiles' = [g \in DOMAIN StoreFiles \cup {f} |->
                         IF g = f THEN [name |-> NameOf(disk'[f]), content |-> ContentOf(f)']
                                  ELSE StoreFiles[g]]
    BY FilesButOne
  <1>2. [name |-> NameOf(disk'[f]), content |-> ContentOf(f)'] = [name |-> n, content |-> c]
    OBVIOUS
  <1> QED
    BY <1>1, <1>2 DEF FilesWith

LEMMA FileFilled ==
  ASSUME NEW f, \A i : i # f => Alike(i), f \in StoredFiles, f \in StoredFiles',
         NameOf(disk'[f]) = NameOf(disk[f]), NEW c, ContentOf(f)' = c
  PROVE  StoreFiles' = FilesFilled(f, c)
  <1>1. StoreFiles' = [StoreFiles EXCEPT ![f].content = ContentOf(f)']
    BY FilesButOne
  <1> QED
    BY <1>1 DEF FilesFilled

LEMMA FileRenamed ==
  ASSUME NEW f, \A i : i # f => Alike(i), f \in StoredFiles, f \in StoredFiles',
         ContentOf(f)' = ContentOf(f), NEW n, NameOf(disk'[f]) = n
  PROVE  StoreFiles' = FilesNamed(f, n)
  <1>1. StoreFiles' = [StoreFiles EXCEPT ![f].name = NameOf(disk'[f])]
    BY FilesButOne
  <1> QED
    BY <1>1 DEF FilesNamed

LEMMA FileGone ==
  ASSUME NEW f, \A i : i # f => Alike(i), f \in StoredFiles, f \notin StoredFiles'
  PROVE  StoreFiles' = [g \in DOMAIN StoreFiles \ {f} |-> StoreFiles[g]]
  BY FilesButOne

LEMMA NoFile ==
  ASSUME NEW f, \A i : i # f => Alike(i), f \notin StoredFiles, f \notin StoredFiles'
  PROVE  StoreFiles' = StoreFiles
  BY FilesButOne

(* A step on file f writes blocks the call holds and blocks of f, and      *)
(* makes no inode but f.                                                   *)
Alters(o, f) ==
  /\ OnDisk' = OnDisk
  /\ \A j \in OnDisk :
       \/ disk'[j] = disk[j]
       \/ o[j] \in {Held, f} /\ (j = f \/ disk'[j].type # inode)

LEMMA OthersAlike ==
  ASSUME Careful, TypeOK, TypeOK',
         NEW o \in [Indices -> Int], NEW r \in [Indices -> Int], NEW h, Owned(o, r, h),
         NEW f, Alters(o, f), NEW i, i # f
  PROVE  Alike(i)
  <1>0. OnDisk' = OnDisk /\ OnDisk \subseteq 1..242 /\ Held \notin OnDisk
    BY OnDiskFacts DEF Alters, Held
  <1>1. CASE i \notin Inodes
    <2>1. i \notin Inodes'
      BY <1>0, <1>1 DEF Alters, Inodes
    <2> QED
      BY <1>1, <2>1 DEF Alike, StoredFiles
  <1>2. CASE i \in Inodes
    <2>1. i \in OnDisk /\ o[i] = i /\ i # Held /\ disk[i].type = inode
      BY <1>0, <1>2 DEF Owned, FilesOwned, Inodes
    <2>2. disk'[i] = disk[i]
      BY <2>1 DEF Alters
    <2>3. \A k : k \in Chain(i) => k \in OnDisk /\ o[k] = i
      BY <2>1, FileOwned DEF Owned, TypeOK
    <2>4. \A k \in Chain(i) : disk'[k] = disk[k]
      BY <2>1, <2>3 DEF Alters
    <2>5. \A k \in 0..NBlocks : Trail(i)[k] \in OnDisk => Trail(i)[k] \in Chain(i)
      BY DEF Chain
    <2>6. Trail(i)' = Trail(i)
      BY <1>0, <2>4, <2>5, TrailKept
    <2>7. ASSUME NEW b \in Buffers
          PROVE  Holds(i, b)' <=> Holds(i, b)
      <3>1. \A k \in 1..NBlocks : Trail(i)[k] \in OnDisk =>
              disk'[Trail(i)[k]] = disk[Trail(i)[k]]
        BY <2>4, <2>5
      <3> QED
        BY <1>0, <2>2, <2>6, <3>1, HoldsKept
    <2>8. ContentOf(i)' = ContentOf(i)
      BY <2>2, <2>7, ContentSame
    <2>9. i \in Inodes'
      BY <1>0, <2>1, <2>2 DEF Inodes
    <2> QED
      BY <1>2, <2>2, <2>8, <2>9 DEF Alike, StoredFiles
  <1> QED
    BY <1>1, <1>2

-----------------------------------------------------------------------------
(* Which file a step alters *)

LEMMA AltersSuper ==
  ASSUME TypeOK, NEW o, NEW f, NEW b, WriteBlock(0, b)
  PROVE  Alters(o, f)
  <1>1. 0 \in Indices /\ OnDisk \subseteq Indices /\ 0 \notin OnDisk
    BY OnDiskFacts
  <1> QED
    BY <1>1, Written DEF Alters

LEMMA AltersBlock ==
  ASSUME TypeOK, NEW o, NEW f, NEW x \in OnDisk, NEW b, WriteBlock(x, b),
         o[x] \in {Held, f}, x = f \/ b.type # inode
  PROVE  Alters(o, f)
  <1>1. x \in Indices /\ OnDisk \subseteq Indices
    BY OnDiskFacts
  <1> QED
    BY <1>1, Written DEF Alters

(* Taking blocks and giving them back alters no file. *)
LEMMA AllocAlters ==
  ASSUME TypeOK, NEW o, NEW r, NEW h, Owned(o, r, h), AllocSuper \/ AllocLast
  PROVE  Alters(o, Held)
  <1>1. CASE AllocSuper
    BY <1>1, AltersSuper DEF AllocSuper
  <1>2. CASE AllocLast
    <2>1. /\ loc.last \in OnDisk /\ o[loc.last] = Held /\ r[loc.last] = 1
          /\ loc.blk = disk[loc.last] /\ WipedTo(o, r, Held, 0)
      BY <1>2 DEF Owned, Taking, AllocLast
    <2>2. disk[loc.last].type = FB /\ disk[loc.last] \in Block
      BY <2>1, OnDiskFacts DEF WipedTo, IsErased
    <2>3. [loc.blk EXCEPT !.nextIdx = 0].type # inode
      BY <2>1, <2>2 DEF Block, FB, inode
    <2> QED
      BY <1>2, <2>1, <2>3, AltersBlock DEF AllocLast
  <1> QED
    BY <1>1, <1>2

LEMMA TruncAlters ==
  ASSUME TypeOK, CallOK, OwnersInv, NEW o, NEW r, NEW h \in Nat, Owned(o, r, h),
         TruncBlock \/ TruncLast \/ TruncSuper \/ DeleteSuper
  PROVE  Alters(o, Held)
  <1>1. Giving(o, r, h)
    BY DEF Owned
  <1>2. \A x : Readable(x) /\ x # 0 /\ x \in Int => x \in OnDisk
    BY DEF Readable, OnDisk, TypeOK
  <1>3. CASE TruncBlock
    <2>1. loc.cur # 0 /\ Begins(o, r, Held, loc.cur, h - loc.count) /\ Readable(loc.cur)
      BY <1>1, <1>3 DEF Giving, TruncBlock
    <2>2. loc.cur \in OnDisk /\ o[loc.cur] = Held
      BY <1>2, <2>1, LocalFields DEF Begins
    <2>3. Erased(disk[loc.cur]).type # inode
      BY <2>2, OnDiskFacts, ErasedFields
    <2> QED
      BY <1>3, <2>2, <2>3, AltersBlock DEF TruncBlock, FreeOne
  <1>4. CASE TruncLast
    <2>1. loc.last \in OnDisk /\ o[loc.last] = Held
      BY <1>1, <1>4 DEF Giving, TruncLast
    <2> QED
      BY <1>4, <2>1, AltersBlock DEF TruncLast, FreeLast, FB, inode
  <1>5. CASE TruncSuper \/ DeleteSuper
    BY <1>5, AltersSuper DEF TruncSuper, DeleteSuper, FreeSuper
  <1> QED
    BY <1>3, <1>4, <1>5

(* A deletion alters the file it is on, and what it writes is no inode. *)
LEMMA DeleteAlters ==
  ASSUME TypeOK, CallOK, OwnersInv, NEW o \in [Indices -> Int], NEW r \in [Indices -> Int],
         NEW h \in Nat, Owned(o, r, h), DeleteBlock \/ DeleteLast
  PROVE  /\ Alters(o, fte.inodeIdx)
         /\ disk'[fte.inodeIdx] = disk[fte.inodeIdx] \/
              (disk'[fte.inodeIdx].type = FB /\ NameOf(disk'[fte.inodeIdx]) = EmptyName)
         /\ \/ loc.count >= 1 /\ IsErased(fte.inodeIdx)
            \/ disk'[fte.inodeIdx].type = FB
  <1>1. Giving(o, r, h) /\ LL # <<>> /\ loc.cur \in Int /\ loc.count \in Nat
    BY LocalFields DEF Owned, CallOK, Working, DeleteBlock, DeleteLast
  <1>2. fte.inodeIdx \in OnDisk /\ o[fte.inodeIdx] = fte.inodeIdx
    BY HeadOwned DEF CallOK, Working, DeleteBlock, DeleteLast
  <1> PICK f \in OnDisk : f = fte.inodeIdx
    BY <1>2
  <1>3. \A x : Readable(x) /\ x # 0 /\ x \in Int => x \in OnDisk
    BY DEF Readable, OnDisk, TypeOK
  <1>4. OnDisk \subseteq Indices /\ \A j \in OnDisk : disk[j] \in Block
    BY OnDiskFacts
  <1>5. r[f] \in Int /\ r[f] >= 1 /\ f # Nobody
    <2>1. f \in 1..242 /\ f \in Indices
      BY OnDiskFacts
    <2>2. f \notin {Nobody, Held} /\ f # Nobody
      BY <2>1 DEF Nobody, Held
    <2> QED
      BY <1>2, <2>1, <2>2 DEF Owned, Linked
  <1>6. CASE DeleteBlock
    <2>1. /\ loc.cur # 0 /\ Readable(loc.cur) /\ WipedTo(o, r, f, r[f] - loc.count)
          /\ Begins(o, r, f, loc.cur, r[f] - loc.count)
      BY <1>1, <1>6 DEF Giving, DeleteBlock
    <2>2. loc.cur \in OnDisk /\ o[loc.cur] = f /\ r[loc.cur] = r[f] - loc.count
      BY <1>1, <1>3, <2>1 DEF Begins
    <2>3. WriteBlock(loc.cur, Erased(disk[loc.cur]))
      BY <1>6 DEF DeleteBlock, FreeOne
    <2>4. Erased(disk[loc.cur]).type = FB /\ Erased(disk[loc.cur]).type # inode
          /\ Erased(disk[loc.cur]).body = ZeroBody
      BY <1>4, <2>2, ErasedFields
    <2>5. Alters(o, f)
      BY <2>2, <2>3, <2>4, AltersBlock
    <2>6. disk'[loc.cur] = Erased(disk[loc.cur])
          /\ \A j \in OnDisk : j # loc.cur => disk'[j] = disk[j]
      BY <1>4, <2>2, <2>3, Written
    <2>7. CASE loc.cur = f
      BY <2>4, <2>5, <2>6, <2>7 DEF NameOf, ZeroBody
    <2>8. CASE loc.cur # f
      <3>1. loc.count # 0
        <4> SUFFICES ASSUME loc.count = 0 PROVE FALSE
          OBVIOUS
        <4>1. o[f] = o[loc.cur] /\ o[f] # Nobody /\ r[f] = r[loc.cur]
          BY <1>2, <1>5, <2>2
        <4> QED
          BY <2>2, <2>8, <4>1 DEF Owned, Apart
      <3>2. IsErased(f)
        BY <1>1, <1>2, <1>5, <2>1, <3>1 DEF WipedTo
      <3> QED
        BY <1>1, <2>5, <2>6, <2>8, <3>1, <3>2
    <2> QED
      BY <2>7, <2>8
  <1>7. CASE DeleteLast
    <2>1. /\ WipedTo(o, r, f, r[f] - loc.count) /\ loc.count = r[f]
          /\ loc.last \in OnDisk /\ o[loc.last] = f
      BY <1>1, <1>7 DEF Giving, DeleteLast
    <2>2. loc.count >= 1 /\ IsErased(f)
      BY <1>1, <1>2, <1>5, <2>1 DEF WipedTo
    <2> DEFINE b == [type |-> FB, nextIdx |-> ToIdx(FirstFree(disk[0])), body |-> ZeroBody]
    <2>3. WriteBlock(loc.last, b) /\ b.type = FB /\ b.body = ZeroBody /\ b.type # inode
      BY <1>7 DEF DeleteLast, FreeLast, FB, inode
    <2> HIDE DEF b
    <2>4. Alters(o, f)
      BY <2>1, <2>3, AltersBlock
    <2>5. disk'[loc.last] = b /\ \A j \in OnDisk : j # loc.last => disk'[j] = disk[j]
      BY <1>4, <2>1, <2>3, Written
    <2>6. NameOf(b) = EmptyName
      BY <2>3 DEF NameOf, ZeroBody
    <2> QED
      BY <2>2, <2>3, <2>4, <2>5, <2>6
  <1> QED
    BY <1>6, <1>7

(* What is written to the inode of the file at the head alters that file. *)
LEMMA HeadAlters ==
  ASSUME TypeOK, OwnersInv, NEW o, NEW r, NEW h, Owned(o, r, h),
         LL # <<>>, Readable(fte.inodeIdx), pc # "deleteSuper",
         NEW b, WriteBlock(fte.inodeIdx, b)
  PROVE  Alters(o, fte.inodeIdx) /\ disk'[fte.inodeIdx] = b
  <1>1. fte.inodeIdx \in OnDisk /\ o[fte.inodeIdx] = fte.inodeIdx
    BY HeadOwned
  <1>2. disk'[fte.inodeIdx] = b
    BY <1>1, OnDiskFacts, Written
  <1> QED
    BY <1>1, <1>2, AltersBlock

LEMMA DataAlters ==
  ASSUME TypeOK, CallOK, OwnersInv, NEW o \in [Indices -> Int], NEW r \in [Indices -> Int],
         NEW h \in Nat, Owned(o, r, h), WriteData
  PROVE  Alters(o, fte.inodeIdx) /\ disk'[fte.inodeIdx] = disk[fte.inodeIdx]
  <1>1. /\ fte.inodeIdx \in OnDisk /\ o[fte.inodeIdx] = fte.inodeIdx
        /\ LL # <<>> /\ Readable(loc.cur) /\ loc.count < loc.want
    BY HeadOwned DEF CallOK, Working, Writing, WriteData, Owned, Storing
  <1> PICK f \in OnDisk : f = fte.inodeIdx
    BY <1>1
  <1>2. ~Readable(TFS_ERROR_INVALID_PARAMETER) /\ loc.count \in Nat /\ loc.want \in Nat
    BY LocalFields DEF Readable, TFS_ERROR_INVALID_PARAMETER
  <1>3. r[f] = loc.want + 1 /\ Begins(o, r, f, loc.cur, loc.want - loc.count)
    BY <1>1, <1>2 DEF WriteData, Owned, Storing
  <1>4. loc.cur \in OnDisk /\ o[loc.cur] = f /\ loc.cur # f
    BY <1>1, <1>2, <1>3 DEF Begins
  <1> DEFINE b == [type |-> FEB, nextIdx |-> disk[loc.cur].nextIdx,
                   body |-> DataBody(loc.buf, loc.count)]
  <1>5. WriteBlock(loc.cur, b) /\ b.type # inode
    BY DEF WriteData, FEB, inode
  <1> HIDE DEF b
  <1>6. disk'[f] = disk[f]
    BY <1>4, <1>5, OnDiskFacts, Written
  <1> QED
    BY <1>4, <1>5, <1>6, AltersBlock

LEMMA CreateAlters ==
  ASSUME TypeOK, NEW o, NEW r, NEW h, Owned(o, r, h), CreateInode, Readable(loc.cur)
  PROVE  /\ Alters(o, loc.cur) /\ loc.cur \in OnDisk /\ o[loc.cur] = Held
         /\ disk'[loc.cur] = [type |-> inode, nextIdx |-> 0, body |-> InodeBody(loc.name, 0)]
  <1>1. loc.cur \in OnDisk /\ o[loc.cur] = Held
    BY DEF Owned, Taking, CreateInode, Begins
  <1> DEFINE b == [type |-> inode, nextIdx |-> 0, body |-> InodeBody(loc.name, 0)]
  <1>2. WriteBlock(loc.cur, b)
    BY DEF CreateInode
  <1> HIDE DEF b
  <1>3. Alters(o, loc.cur) /\ disk'[loc.cur] = b
    BY <1>1, <1>2, OnDiskFacts, Written, AltersBlock
  <1> QED
    BY <1>1, <1>3 DEF b

-----------------------------------------------------------------------------
(* Where a step leads *)

Home == pc' = "idle" /\ loc' = NoCall

LEMMA ReturnsHome ==
  /\ \A c : Return(c) => Home
  /\ \A c, b : ReturnByte(c, b) => Home
  /\ Die => Home
  BY DEF Return, ReturnByte, Die, Home

LEMMA ClientLeads ==
  ASSUME Client
  PROVE  \/ Home
         \/ pc' = "mount" /\ loc'.then = "client" /\ UNCHANGED <<storage, session>>
         \/ /\ pc' \in {"mount", "lookup"} /\ UNCHANGED <<storage, session>>
            /\ loc'.then = "tfs_openFile" /\ loc'.name \in Names
            /\ pc' = "lookup" => diskFd # NotMounted
         \/ /\ pc' \in {"deleteBlock", "readWalk"} /\ loc'.then = "none"
            /\ UNCHANGED <<storage, session>>
         \/ pc' \in {"writeAlloc", "truncBlock"} /\ loc'.then = "tfs_writeFile"
  <1>1. CASE ClientMount
    BY <1>1 DEF ClientMount, Call, NoCall
  <1>2. ASSUME NEW n \in Names, OpenFile(n)
        PROVE  /\ pc' \in {"mount", "lookup"} /\ UNCHANGED <<storage, session>>
               /\ loc'.then = "tfs_openFile" /\ loc'.name \in Names
               /\ pc' = "lookup" => diskFd # NotMounted
    BY <1>2 DEF OpenFile, Call, NoCall
  <1>3. ASSUME NEW FD, DeleteFile(FD) \/ ReadByte(FD)
        PROVE  \/ Home
               \/ /\ pc' \in {"deleteBlock", "readWalk"} /\ loc'.then = "none"
                  /\ UNCHANGED <<storage, session>>
    BY <1>3, ReturnsHome DEF DeleteFile, ReadByte, Call, NoCall
  <1>4. ASSUME NEW FD, NEW b, WriteFile(FD, b)
        PROVE  Home \/ (pc' \in {"writeAlloc", "truncBlock"} /\ loc'.then = "tfs_writeFile")
    BY <1>4, ReturnsHome DEF WriteFile, Call, NoCall
  <1>5. ASSUME NEW FD,
               \/ CloseFile(FD) \/ DeleteFileDies(FD) \/ (\E x : Seek(FD, x))
               \/ (\E n : Rename(FD, n)) \/ GetTimeStamp(FD) \/ IndexHit(FD)
        PROVE  Home
    BY <1>5, ReturnsHome DEF CloseFile, CloseHead, DeleteFileDies, Seek, Rename, GetTimeStamp,
                             IndexHit
  <1>6. Unmount \/ ListMissing \/ Refused => Home
    BY ReturnsHome DEF Unmount, ListMissing, Refused
  <1> QED
    BY <1>1, <1>2, <1>3, <1>4, <1>5, <1>6 DEF Client

Mounts == MountOpens \/ CreateBlock \/ Validate \/ FormatSuper \/ FormatBlock \/ FormatEnd

LEMMA MountLeads ==
  ASSUME TypeOK, CallOK, Mounts
  PROVE  /\ pc \in Mounting /\ loc.then \in {"client", "tfs_openFile"}
         /\ \/ /\ pc' \in Mounting /\ loc'.then = loc.then /\ loc'.name = loc.name
               /\ UNCHANGED session /\ ret' = ret
            \/ /\ loc.then = "client" /\ Home /\ UNCHANGED session
               /\ ret' = [code |-> 0, byte |-> Nul]
            \/ /\ loc.then = "tfs_openFile" /\ pc' = "lookup" /\ diskFd' = Mounted
               /\ loc'.then = loc.then /\ loc'.name = loc.name
               /\ UNCHANGED <<LL, currentFD>> /\ ret' = ret
  <1>0. loc \in Locals
    BY LocalFields
  <1>1. pc \in Mounting
    BY DEF Mounts, MountOpens, CreateBlock, Validate, FormatSuper, FormatBlock, FormatEnd, Mounting
  <1>2. loc.then \in {"client", "tfs_openFile"}
    BY <1>1 DEF CallOK
  <1>4. \A c : [loc EXCEPT !.cur = c].then = loc.then /\ [loc EXCEPT !.cur = c].name = loc.name
    BY <1>0 DEF Locals
  <1>5. MountReturns(Mounted) =>
          \/ /\ loc.then = "client" /\ Home /\ UNCHANGED session
             /\ ret' = [code |-> 0, byte |-> Nul]
          \/ /\ loc.then = "tfs_openFile" /\ pc' = "lookup" /\ diskFd' = Mounted
             /\ loc'.then = loc.then /\ loc'.name = loc.name
             /\ UNCHANGED <<LL, currentFD>> /\ ret' = ret
    <2>1. CASE loc.then = "client"
      BY <2>1 DEF MountReturns, Return, ReturnByte, Home, Mounted, session
    <2>2. CASE loc.then = "tfs_openFile"
      BY <1>4, <2>2 DEF MountReturns, Goto
    <2> QED
      BY <1>2, <2>1, <2>2
  <1>6. MountReturns(Mounted) \/
          /\ pc' \in Mounting /\ loc'.then = loc.then /\ loc'.name = loc.name
          /\ UNCHANGED session /\ ret' = ret
    <2>1. CASE MountOpens
      BY <2>1 DEF MountOpens, Goto, Mounting
    <2>4. CASE CreateBlock
      BY <2>4 DEF CreateBlock, Goto, Mounting
    <2>5. CASE Validate
      BY <2>5 DEF Validate, Goto, Mounting
    <2>6. CASE FormatSuper
      BY <1>4, <2>6 DEF FormatSuper, Goto, Mounting
    <2>2. CASE FormatBlock
      <3>1. \/ MountReturns(Mounted)
            \/ UNCHANGED session /\ Goto("formatBlock", [loc EXCEPT !.cur = @ + 1])
        BY <2>2 DEF FormatBlock
      <3>2. pc' = "formatBlock" /\ loc' = [loc EXCEPT !.cur = loc.cur + 1] /\ ret' = ret =>
              pc' \in Mounting /\ loc'.then = loc.then /\ loc'.name = loc.name /\ ret' = ret
        BY <1>4 DEF Mounting
      <3> QED
        BY <3>1, <3>2 DEF Goto
    <2>3. CASE FormatEnd
      BY <2>3 DEF FormatEnd
    <2> QED
      BY <2>1, <2>2, <2>3, <2>4, <2>5, <2>6 DEF Mounts
  <1> QED
    BY <1>1, <1>2, <1>5, <1>6

(* findByName finds an inode of that name if there is one. *)
LEMMA FindIs ==
  ASSUME TypeOK, NEW n
  PROVE  IF Hits(n) = {} THEN FindByName(n) = 0
                         ELSE FindByName(n) \in Hits(n) /\ FindByName(n) # 0
  <1>1. Hits(n) \subseteq Nat /\ 0 \notin Hits(n)
    BY DEF Hits, TypeOK
  <1>2. ASSUME Hits(n) # {}
        PROVE  FindByName(n) \in Hits(n)
    <2>1. \E i \in Hits(n) : \A j \in Hits(n) : i <= j
      BY <1>1, <1>2, LeastNat
    <2> QED
      BY <1>2, <2>1 DEF FindByName
  <1> QED
    BY <1>1, <1>2 DEF FindByName

LEMMA LookupLeads ==
  ASSUME TypeOK, CallOK, Lookup
  PROVE  \/ /\ IsOpen(loc.name) /\ Return(TFS_ERROR_BAD_ALLOC)
            /\ UNCHANGED <<storage, session>>
         \/ /\ ~IsOpen(loc.name) /\ diskFd = Mounted /\ HasSuperblock
            /\ FindByName(loc.name) # 0
            /\ Opened(FindByName(loc.name)) /\ UNCHANGED storage
         \/ /\ ~IsOpen(loc.name)
            /\ diskFd # Mounted \/ ~HasSuperblock \/ FindByName(loc.name) = 0
            /\ \E c \in {TFS_ERROR_VALIDATE, TFS_ERROR_INVALID_PARAMETER} : Opened(c)
            /\ UNCHANGED storage
         \/ /\ ~IsOpen(loc.name) /\ FindByName(loc.name) = 0
            /\ pc' \in {"allocWalk", "createInode"} /\ ret' = ret
            /\ loc'.then = "createFile" /\ loc'.name = loc.name
            /\ UNCHANGED <<storage, session>>
  <1> DEFINE l == [loc EXCEPT !.then = "createFile"]
  <1>1. loc \in Locals /\ l \in Locals /\ l.then = "createFile" /\ l.name = loc.name
    BY LocalFields DEF Locals, Callers
  <1>2. ASSUME TakeBlocks(1, l)
        PROVE  /\ pc' \in {"allocWalk", "createInode"} /\ ret' = ret
               /\ loc'.then = "createFile" /\ loc'.name = loc.name
    <2> HIDE DEF l
    <2>1. ret' = ret
      BY <1>2 DEF TakeBlocks, GotBlocks, Goto
    <2> QED
      BY <1>1, <1>2, <2>1, TakeLocals
  <1> HIDE DEF l
  <1>3. CASE IsOpen(loc.name)
    BY <1>3 DEF Lookup
  <1>4. CASE ~IsOpen(loc.name) /\ (diskFd # Mounted \/ ~HasSuperblock)
    BY <1>4 DEF Lookup
  <1>5. CASE /\ ~IsOpen(loc.name) /\ diskFd = Mounted /\ HasSuperblock
             /\ FindByName(loc.name) # 0
    BY <1>5 DEF Lookup
  <1>6. CASE /\ ~IsOpen(loc.name) /\ diskFd = Mounted /\ HasSuperblock
             /\ FindByName(loc.name) = 0
    BY <1>2, <1>6 DEF Lookup, l
  <1> QED
    BY <1>3, <1>4, <1>5, <1>6

LEMMA AllocLeads ==
  ASSUME TypeOK, CallOK, AllocWalk \/ AllocSuper \/ AllocLast
  PROVE  /\ pc \in Allocating /\ loc.then \in {"createFile", "tfs_writeFile"}
         /\ pc' \in Allocating \cup {"createInode", "writeInode"}
         /\ pc' = "writeInode" => loc.then = "tfs_writeFile"
         /\ loc'.then = loc.then /\ loc'.name = loc.name /\ loc'.buf = loc.buf
         /\ loc'.inb = loc.inb /\ ret' = ret
         /\ UNCHANGED session
  <1>1. loc \in Locals
    BY LocalFields
  <1>2. \A r : GotBlocks(r, loc) =>
          /\ pc' = IF loc.then = "createFile" THEN "createInode" ELSE "writeInode"
          /\ loc'.then = loc.then /\ loc'.name = loc.name /\ loc'.buf = loc.buf
          /\ loc'.inb = loc.inb /\ ret' = ret
    BY <1>1 DEF GotBlocks, Goto, Locals
  <1>3. pc \in Allocating /\ loc.then \in {"createFile", "tfs_writeFile"}
    BY DEF AllocWalk, AllocSuper, AllocLast, Allocating, CallOK
  <1>4. CASE AllocWalk
    <2>1. CASE GotBlocks(TFS_ERROR_DISK_READ, loc)
      BY <1>2, <1>3, <1>4, <2>1 DEF AllocWalk, session
    <2>2. CASE Goto(IF loc.count + 1 < loc.want THEN "allocWalk" ELSE "allocSuper",
                    [loc EXCEPT !.blk = disk[loc.cur], !.last = loc.cur,
                                !.cur = disk[loc.cur].nextIdx, !.count = @ + 1])
      BY <1>1, <1>3, <1>4, <2>2 DEF AllocWalk, Goto, Allocating, Locals
    <2> QED
      BY <1>4, <2>1, <2>2 DEF AllocWalk
  <1>5. CASE AllocSuper
    BY <1>3, <1>5 DEF AllocSuper, Goto, Allocating
  <1>6. CASE AllocLast
    BY <1>2, <1>3, <1>6 DEF AllocLast
  <1> QED
    BY <1>4, <1>5, <1>6

Truncs == TruncBlock \/ TruncBlockFails \/ TruncLast \/ TruncSuper

LEMMA TruncLeads ==
  ASSUME TypeOK, CallOK, Truncs
  PROVE  /\ pc \in {"truncBlock", "truncLast", "truncSuper"} /\ loc.then = "tfs_writeFile"
         /\ pc' \in {"truncBlock", "truncLast", "truncSuper", "writeAlloc"}
         /\ loc'.then = loc.then /\ loc'.buf = loc.buf /\ ret' = ret
         /\ UNCHANGED session
  <1>1. loc \in Locals
    BY LocalFields
  <1>2. pc \in {"truncBlock", "truncLast", "truncSuper"} /\ loc.then = "tfs_writeFile"
    BY DEF Truncs, TruncBlock, TruncBlockFails, TruncLast, TruncSuper, CallOK, Writing
  <1>3. CASE TruncBlock
    BY <1>1, <1>2, <1>3 DEF TruncBlock, FreeOne, Goto, Locals
  <1>4. CASE TruncBlockFails \/ TruncSuper
    <2>1. [NoCall EXCEPT !.then = loc.then, !.buf = loc.buf].then = loc.then
          /\ [NoCall EXCEPT !.then = loc.then, !.buf = loc.buf].buf = loc.buf
      BY DEF NoCall
    <2> QED
      BY <1>2, <1>4, <2>1 DEF TruncBlockFails, TruncSuper, Goto, session
  <1>5. CASE TruncLast
    BY <1>2, <1>5 DEF TruncLast, FreeLast, Goto
  <1> QED
    BY <1>3, <1>4, <1>5 DEF Truncs

LEMMA WriteAllocLeads ==
  ASSUME TypeOK, CallOK, WriteAlloc
  PROVE  /\ pc = "writeAlloc" /\ loc.then = "tfs_writeFile"
         /\ pc' \in {"allocWalk", "writeInode"}
         /\ loc'.then = loc.then /\ loc'.buf = loc.buf /\ loc'.inb = disk[fte.inodeIdx]
         /\ ret' = ret /\ UNCHANGED <<storage, session>>
  <1> DEFINE l == [loc EXCEPT !.inb = disk[fte.inodeIdx]]
             n == BlocksFor(Length[loc.buf])
  <1>1. pc = "writeAlloc" /\ loc.then = "tfs_writeFile" /\ loc.buf \in Buffers
    BY DEF WriteAlloc, CallOK, Writing
  <1>2. disk[fte.inodeIdx] \in Block
    BY <1>1, WorkFile
  <1>3. l \in Locals /\ l.then = loc.then /\ l.buf = loc.buf /\ l.inb = disk[fte.inodeIdx]
    BY <1>2, LocalFields DEF Locals
  <1>4. n \in Nat
    BY <1>1, ClientAssumption, BlocksForType
  <1>5. TakeBlocks(n, l) /\ UNCHANGED <<storage, session>>
    BY DEF WriteAlloc
  <1> HIDE DEF l, n
  <1>6. ret' = ret
    BY <1>5 DEF TakeBlocks, GotBlocks, Goto
  <1> QED
    BY <1>1, <1>3, <1>4, <1>5, <1>6, TakeLocals

LEMMA DataLeads ==
  ASSUME TypeOK, CallOK, WriteInode \/ WriteData \/ WriteDataFails
  PROVE  /\ pc \in {"writeInode", "writeData"} /\ loc.then = "tfs_writeFile"
         /\ \/ Home /\ (LL' = LL \/ SetOffset(0))
            \/ /\ pc' = "writeData" /\ loc'.then = loc.then /\ loc'.buf = loc.buf
               /\ ret' = ret /\ LL' = LL
         /\ UNCHANGED <<diskFd, currentFD>>
  <1>1. loc \in Locals
    BY LocalFields
  <1>2. pc \in {"writeInode", "writeData"} /\ loc.then = "tfs_writeFile"
    BY DEF WriteInode, WriteData, WriteDataFails, CallOK, Writing
  <1>3. CASE WriteInode
    BY <1>1, <1>2, <1>3, ReturnsHome DEF WriteInode, Goto, Locals
  <1>4. CASE WriteData
    <2>1. CASE loc.count + 1 = loc.want
      BY <1>2, <1>4, <2>1, ReturnsHome DEF WriteData
    <2>2. CASE loc.count + 1 # loc.want
      BY <1>1, <1>2, <1>4, <2>2 DEF WriteData, Goto, Locals
    <2> QED
      BY <2>1, <2>2
  <1>5. CASE WriteDataFails
    BY <1>2, <1>5, ReturnsHome DEF WriteDataFails, session
  <1> QED
    BY <1>3, <1>4, <1>5

LEMMA DeleteLeads ==
  ASSUME TypeOK, DeleteBlock \/ DeleteLast
  PROVE  /\ pc \in {"deleteBlock", "deleteLast"}
         /\ pc' \in {"deleteBlock", "deleteLast", "deleteSuper"}
         /\ pc' = "deleteSuper" => pc = "deleteLast" /\ loc' = loc
         /\ loc'.then = loc.then /\ ret' = ret /\ UNCHANGED session
  <1>1. loc \in Locals
    BY LocalFields
  <1>2. CASE DeleteBlock
    BY <1>1, <1>2 DEF DeleteBlock, FreeOne, Goto, Locals
  <1>3. CASE DeleteLast
    BY <1>3 DEF DeleteLast, FreeLast, Goto
  <1> QED
    BY <1>2, <1>3

LEMMA ReadLeads ==
  ASSUME TypeOK, ReadWalk
  PROVE  \/ /\ pc' = "readWalk" /\ loc'.then = loc.then /\ ret' = ret
            /\ UNCHANGED <<storage, session>>
         \/ /\ Home /\ (LL' = LL \/ SetOffset(fte.offset + 1))
            /\ UNCHANGED <<storage, diskFd, currentFD>>
  <1>1. loc \in Locals
    BY LocalFields
  <1>2. CASE loc.count + 1 < loc.want
    BY <1>1, <1>2 DEF ReadWalk, Goto, Locals, session
  <1>3. CASE ~(loc.count + 1 < loc.want)
    BY <1>3, ReturnsHome DEF ReadWalk
  <1> QED
    BY <1>2, <1>3

LEMMA EndLeads ==
  ASSUME \/ CreateInode \/ DeleteBlockFails \/ DeleteSuper \/ ReadWalkFails \/ Crash
  PROVE  Home
  BY ReturnsHome DEF CreateInode, Opened, DeleteBlockFails, DeleteSuper, CloseHead,
                     ReadWalkFails, Crash

-----------------------------------------------------------------------------
(* The invariant behind the refinement *)

LEMMA StepKinds ==
  ASSUME Careful, [Next]_vars
  PROVE  \/ Client \/ Mounts \/ Lookup \/ CreateInode
         \/ AllocWalk \/ AllocSuper \/ AllocLast
         \/ Truncs \/ WriteAlloc \/ WriteInode \/ WriteData \/ WriteDataFails
         \/ DeleteBlock \/ DeleteLast \/ DeleteSuper \/ DeleteBlockFails
         \/ ReadWalk \/ ReadWalkFails \/ Crash \/ UNCHANGED vars
  BY DEF Next, Step, Mounts, Truncs, MountFails, Careful

Formatting == {"format", "formatBlock", "formatEnd"}

LEMMA FormatSteps ==
  ASSUME Careful, TypeOK, CallOK, [Next]_vars, pc' \in Formatting, pc \notin Formatting
  PROVE  ~HasSuperblock
  <1>1. Mounts
    <2>1. ~Client
      BY ClientLeads DEF Formatting, Home
    <2>2. ~Lookup
      BY LookupLeads, ReturnsHome DEF Formatting, Home, Opened
    <2>3. ~CreateInode /\ ~DeleteSuper /\ ~DeleteBlockFails /\ ~ReadWalkFails /\ ~Crash
      BY EndLeads DEF Formatting, Home
    <2>4. ~AllocWalk /\ ~AllocSuper /\ ~AllocLast
      BY AllocLeads DEF Formatting, Allocating
    <2>5. ~Truncs /\ ~WriteAlloc
      BY TruncLeads, WriteAllocLeads DEF Formatting
    <2>6. ~WriteInode /\ ~WriteData /\ ~WriteDataFails
      BY DataLeads DEF Formatting, Home
    <2>7. ~DeleteBlock /\ ~DeleteLast /\ ~ReadWalk
      BY DeleteLeads, ReadLeads DEF Formatting, Home
    <2> QED
      BY <2>1, <2>2, <2>3, <2>4, <2>5, <2>6, <2>7, StepKinds DEF vars
  <1>2. ~FormatSuper /\ ~FormatBlock /\ ~FormatEnd
    BY DEF FormatSuper, FormatBlock, FormatEnd, Formatting
  <1>3. ~MountOpens /\ ~CreateBlock
    BY DEF MountOpens, CreateBlock, Goto, Formatting
  <1>4. Validate
    BY <1>1, <1>2, <1>3 DEF Mounts
  <1>5. CASE size = 0
    BY <1>5 DEF HasSuperblock
  <1>6. CASE HasSuperblock
    BY <1>4, <1>6 DEF Validate, MountReturns, Goto, Return, ReturnByte, Formatting
  <1> QED
    BY <1>5, <1>6

(* Once there is a file system there is one. *)
LEMMA FSStays ==
  ASSUME Careful, TypeOK, CallOK, OwnersInv, [Next]_vars, HasFS
  PROVE  HasFS'
  <1>1. HasSuperblock /\ pc \notin Formatting
    BY DEF HasFS, Formatting
  <1>2. HasSuperblock' /\ pc' \notin Formatting
    BY <1>1, SuperblockStays, FormatSteps
  <1> QED
    BY <1>2 DEF HasFS, Formatting

(* Without one only a mount writes. *)
LEMMA MountsWrite ==
  ASSUME Careful, TypeOK, CallOK, OwnersInv, [Next]_vars, ~HasFS
  PROVE  UNCHANGED storage \/ Mounts
  <1>1. \A i : LL # <<>> /\ i = fte.inodeIdx => ~Readable(i)
    BY InvParts, HeadOpen
  <1>2. Client => UNCHANGED storage
    <2>1. ASSUME NEW FD, NEW b, WriteFile(FD, b) PROVE UNCHANGED storage
      BY <1>1, <2>1 DEF WriteFile, Served
    <2>2. ASSUME NEW FD, NEW n, Rename(FD, n) PROVE UNCHANGED storage
      BY <1>1, <2>2 DEF Rename, Served
    <2>3. ASSUME NEW FD,
                 \/ CloseFile(FD) \/ DeleteFile(FD) \/ DeleteFileDies(FD)
                 \/ ReadByte(FD) \/ (\E x : Seek(FD, x))
                 \/ GetTimeStamp(FD) \/ IndexHit(FD)
          PROVE  UNCHANGED storage
      BY <2>3 DEF CloseFile, DeleteFile, DeleteFileDies, ReadByte, Seek, GetTimeStamp,
                  IndexHit, Die
    <2>4. ASSUME NEW n, OpenFile(n) PROVE UNCHANGED storage
      BY <2>4 DEF OpenFile
    <2>5. ClientMount \/ Unmount \/ Refused \/ ListMissing => UNCHANGED storage
      BY DEF ClientMount, Unmount, Refused, ListMissing, Die
    <2> QED
      BY <2>1, <2>2, <2>3, <2>4, <2>5 DEF Client
  <1>3. ~(pc \in Working)
    BY WorkOwners
  <1>4. ~(pc \in Allocating \cup {"createInode"})
    BY DEF OwnersInv, MakingOK, HasFS, Allocating
  <1>5. Lookup \/ Crash \/ UNCHANGED vars => UNCHANGED storage
    BY DEF Lookup, Crash, Die, vars, storage
  <1>6. ~CreateInode /\ ~AllocWalk /\ ~AllocSuper /\ ~AllocLast
    BY <1>4 DEF CreateInode, AllocWalk, AllocSuper, AllocLast, Allocating
  <1>7. ~Truncs /\ ~WriteAlloc /\ ~WriteInode /\ ~WriteData /\ ~WriteDataFails
    BY <1>3 DEF Truncs, TruncBlock, TruncBlockFails, TruncLast, TruncSuper, WriteAlloc,
                WriteInode, WriteData, WriteDataFails, Working, Writing
  <1>8. /\ ~DeleteBlock /\ ~DeleteLast /\ ~DeleteSuper /\ ~DeleteBlockFails
        /\ ~ReadWalk /\ ~ReadWalkFails
    BY <1>3 DEF DeleteBlock, DeleteLast, DeleteSuper, DeleteBlockFails, ReadWalk,
                ReadWalkFails, Working
  <1> QED
    BY <1>2, <1>5, <1>6, <1>7, <1>8, StepKinds

(* A mount makes no file. *)
LEMMA MountsNoFile ==
  ASSUME Careful, TypeOK, CallOK, OwnersInv, Mounts, ~HasFS, Inodes = {}
  PROVE  Inodes' = {}
  <1>1. CASE MountOpens
    <2>1. (size' = size /\ disk' = disk) \/ size' = 0
      BY <1>1 DEF MountOpens
    <2> QED
      BY <2>1 DEF Inodes, OnDisk
  <1>2. CASE CreateBlock
    <2>1. /\ size \in 0..(NBlocks - 1) /\ size \in Indices /\ OnDisk \subseteq Indices
      BY <1>2, OnDiskFacts DEF CreateBlock, CallOK, Indices
    <2>2. /\ size' = size + 1 /\ disk'[size] = RawBlock
          /\ \A j \in Indices : j # size => disk'[j] = disk[j]
      BY <1>2, <2>1, OnDiskFacts DEF CreateBlock
    <2>3. \A j \in OnDisk' : j = size \/ j \in OnDisk
      BY <2>1, <2>2 DEF OnDisk
    <2>4. RawBlock.type # inode
      BY DEF RawBlock, inode
    <2>5. \A j \in OnDisk : j # size
      BY <2>1 DEF OnDisk
    <2> QED
      BY <2>1, <2>2, <2>3, <2>4, <2>5 DEF Inodes
  <1>3. CASE Validate
    BY <1>3 DEF Validate, storage, Inodes, OnDisk
  <1>4. ASSUME NEW b, WriteBlock(0, b)
        PROVE  Inodes' = {}
    <2>1. OnDisk' = OnDisk /\ \A j \in OnDisk : disk'[j] = disk[j]
      BY <1>4, OnDiskFacts, Written
    <2> QED
      BY <2>1 DEF Inodes
  <1>5. CASE FormatSuper \/ FormatEnd
    BY <1>4, <1>5 DEF FormatSuper, FormatEnd
  <1>6. CASE FormatBlock
    <2>1. CASE UNCHANGED storage
      BY <2>1 DEF storage, Inodes, OnDisk
    <2> DEFINE b == [type |-> FB, nextIdx |-> ToIdx(loc.cur + 1), body |-> ZeroBody]
    <2>2. CASE loc.cur < size /\ WriteBlock(loc.cur, b)
      <3>1. loc.cur \in 1..size
        BY <1>6 DEF FormatBlock, OwnersInv, MakingOK
      <3>2. loc.cur \in OnDisk /\ b.type # inode
        BY <2>2, <3>1 DEF OnDisk, TypeOK, FB, inode
      <3> HIDE DEF b
      <3>3. OnDisk' = OnDisk /\ \A j \in OnDisk : disk'[j] = disk[j] \/ disk'[j].type # inode
        BY <2>2, <3>2, OnDiskFacts, Written
      <3> QED
        BY <3>3 DEF Inodes
    <2> QED
      BY <1>6, <2>1, <2>2 DEF FormatBlock
  <1> QED
    BY <1>1, <1>2, <1>3, <1>5, <1>6 DEF Mounts

LEMMA ClientFd ==
  ASSUME Client
  PROVE  diskFd' \in {diskFd, NotMounted}
  <1>1. ASSUME NEW FD, NEW b, WriteFile(FD, b) PROVE diskFd' = diskFd
    BY <1>1 DEF WriteFile, session
  <1>2. ASSUME NEW FD,
               \/ CloseFile(FD) \/ DeleteFile(FD) \/ DeleteFileDies(FD)
               \/ ReadByte(FD) \/ (\E x : Seek(FD, x)) \/ (\E n : Rename(FD, n))
               \/ GetTimeStamp(FD) \/ IndexHit(FD)
        PROVE  diskFd' \in {diskFd, NotMounted}
    BY <1>2 DEF CloseFile, CloseHead, DeleteFile, DeleteFileDies, ReadByte, Seek, Rename,
                GetTimeStamp, IndexHit, Die, session
  <1>3. ASSUME NEW n, OpenFile(n) PROVE diskFd' = diskFd
    BY <1>3 DEF OpenFile, session
  <1>4. ClientMount \/ Unmount \/ Refused \/ ListMissing => diskFd' \in {diskFd, NotMounted}
    BY DEF ClientMount, Unmount, Refused, ListMissing, Die, session
  <1> QED
    BY <1>1, <1>2, <1>3, <1>4 DEF Client

LEMMA MountedNext ==
  ASSUME Careful, TypeOK, CallOK, OwnersInv, FilesMounted, [Next]_vars
  PROVE  FilesMounted'
  <1>1. ~HasFS' => Inodes' = {}
    <2> SUFFICES ASSUME ~HasFS' PROVE Inodes' = {}
      OBVIOUS
    <2>1. ~HasFS /\ Inodes = {}
      BY FSStays DEF FilesMounted
    <2>2. CASE UNCHANGED storage
      BY <2>1, <2>2 DEF storage, Inodes, OnDisk
    <2> QED
      BY <2>1, <2>2, MountsWrite, MountsNoFile
  <1>2. diskFd \in {NotMounted, Mounted} /\ NotMounted # MountFailed /\ Mounted # MountFailed
    BY DEF FilesMounted, TypeOK, NotMounted, Mounted, MountFailed, TFS_ERROR_DISK_OPEN
  <1>3. ASSUME diskFd' \in {diskFd, NotMounted}, pc' # "lookup"
        PROVE  diskFd' # MountFailed /\ (pc' = "lookup" => diskFd' = Mounted)
    BY <1>2, <1>3
  <1>4. diskFd' # MountFailed /\ (pc' = "lookup" => diskFd' = Mounted)
    <2>1. CASE Client
      <3>1. diskFd' # MountFailed
        BY <1>2, <2>1, ClientFd
      <3>2. pc' = "lookup" => diskFd' = diskFd /\ diskFd # NotMounted
        BY <2>1, ClientLeads DEF Home, session
      <3> QED
        BY <1>2, <3>1, <3>2
    <2>2. CASE Mounts
      <3>1. diskFd' = diskFd \/ diskFd' = Mounted
        BY <2>2, MountLeads DEF session
      <3>2. pc' = "lookup" => diskFd' = Mounted
        BY <2>2, MountLeads DEF Mounting, Home
      <3> QED
        BY <1>2, <3>1, <3>2
    <2>3. CASE UNCHANGED vars
      BY <1>2, <2>3 DEF vars, FilesMounted
    <2>4. CASE Lookup
      <3>1. diskFd' = diskFd
        BY <2>4, LookupLeads DEF Opened, session
      <3>2. pc' # "lookup"
        BY <2>4, LookupLeads, ReturnsHome DEF Opened, Home
      <3> QED
        BY <1>3, <3>1, <3>2
    <2>5. CASE CreateInode \/ DeleteSuper \/ DeleteBlockFails \/ ReadWalkFails \/ Crash
      <3>1. pc' # "lookup"
        BY <2>5, EndLeads DEF Home
      <3>2. diskFd' \in {diskFd, NotMounted}
        BY <2>5 DEF CreateInode, Opened, DeleteSuper, CloseHead, DeleteBlockFails,
                    ReadWalkFails, Crash, Die, session
      <3> QED
        BY <1>3, <3>1, <3>2
    <2>6. CASE AllocWalk \/ AllocSuper \/ AllocLast \/ Truncs \/ WriteAlloc
      <3>1. diskFd' = diskFd
        BY <2>6, AllocLeads, TruncLeads, WriteAllocLeads DEF session
      <3>2. pc' # "lookup"
        BY <2>6, AllocLeads, TruncLeads, WriteAllocLeads DEF Allocating
      <3> QED
        BY <1>3, <3>1, <3>2
    <2>7. CASE \/ WriteInode \/ WriteData \/ WriteDataFails
               \/ DeleteBlock \/ DeleteLast \/ ReadWalk
      <3>1. diskFd' = diskFd
        BY <2>7, DataLeads, DeleteLeads, ReadLeads DEF session
      <3>2. pc' # "lookup"
        BY <2>7, DataLeads, DeleteLeads, ReadLeads DEF Home
      <3> QED
        BY <1>3, <3>1, <3>2
    <2> QED
      BY <2>1, <2>2, <2>3, <2>4, <2>5, <2>6, <2>7, StepKinds
  <1> QED
    BY <1>1, <1>4 DEF FilesMounted

(* What the running call knows. *)
CallKnows ==
  /\ NameStillNew /\ InodeInMemory
  /\ pc \in {"deleteBlock", "deleteLast", "deleteSuper", "readWalk"} => loc.then = "none"
  /\ pc = "deleteSuper" => loc.first = fte.inodeIdx

LEMMA HomeKnows ==
  ASSUME Home
  PROVE  CallKnows'
  BY DEF Home, CallKnows, NameStillNew, InodeInMemory, NoCall, Allocating

(* A step that leads to none of the places where the call knows something. *)
LEMMA QuietKnows ==
  ASSUME pc' \notin Allocating \cup {"writeInode", "deleteSuper"},
         pc' \in {"deleteBlock", "deleteLast", "readWalk"} => loc'.then = "none",
         \/ loc'.then = "tfs_openFile" /\ loc'.name \in Names
         \/ loc'.then \notin {"tfs_openFile", "createFile"}
  PROVE  CallKnows'
  BY DEF CallKnows, NameStillNew, InodeInMemory

LEMMA ClientKnows ==
  ASSUME Client
  PROVE  CallKnows'
  <1>1. CASE Home
    BY <1>1, HomeKnows
  <1>2. CASE ~Home
    BY <1>2, ClientLeads, QuietKnows DEF Allocating
  <1> QED
    BY <1>1, <1>2

LEMMA MountsKnow ==
  ASSUME TypeOK, CallOK, CallKnows, Mounts
  PROVE  CallKnows'
  <1>1. loc.then = "tfs_openFile" => loc.name \in Names
    BY DEF CallKnows, NameStillNew
  <1>2. CASE Home
    BY <1>2, HomeKnows
  <1>3. CASE ~Home
    BY <1>1, <1>3, MountLeads, QuietKnows DEF Allocating, Mounting
  <1> QED
    BY <1>2, <1>3

LEMMA HitsKept ==
  ASSUME NEW n, Hits(n) = {}, OnDisk' = OnDisk,
         \A j \in OnDisk : disk'[j] = disk[j] \/ disk'[j].type # inode
  PROVE  Hits(n)' = {}
  BY DEF Hits, OnDisk

LEMMA LookupKnows ==
  ASSUME TypeOK, CallOK, CallKnows, Lookup
  PROVE  CallKnows'
  <1>1. pc = "lookup" /\ loc.then = "tfs_openFile" /\ loc.name \in Names
    BY DEF Lookup, CallOK, CallKnows, NameStillNew
  <1>2. CASE Home
    BY <1>2, HomeKnows
  <1>3. CASE ~Home
    <2> PICK n : n = loc.name
      OBVIOUS
    <2>1. /\ ~IsOpen(n) /\ FindByName(n) = 0
          /\ pc' \in {"allocWalk", "createInode"}
          /\ loc'.then = "createFile" /\ loc'.name = n
          /\ UNCHANGED <<storage, session>>
      BY <1>3, LookupLeads, ReturnsHome DEF Opened
    <2>2. Hits(n) = {}
      BY <2>1, FindIs
    <2>3. OnDisk' = OnDisk /\ disk' = disk /\ LL' = LL
      BY <2>1 DEF storage, session, OnDisk
    <2>4. Hits(n)' = {}
      BY <2>2, <2>3, HitsKept
    <2>5. ~IsOpen(n)'
      BY <2>1, <2>3 DEF IsOpen
    <2>6. NameStillNew'
      BY <1>1, <2>1, <2>4, <2>5 DEF NameStillNew
    <2> QED
      BY <2>1, <2>6 DEF CallKnows, InodeInMemory
  <1> QED
    BY <1>2, <1>3

LEMMA AllocKnows ==
  ASSUME TypeOK, CallOK, OwnersInv, HasFS, CallKnows, AllocWalk \/ AllocSuper \/ AllocLast
  PROVE  CallKnows'
  <1>1. PICK o \in [Indices -> Int], r \in [Indices -> Int], h \in Nat : Owned(o, r, h)
    BY DEF OwnersInv
  <1>2. Alters(o, Held)
    BY <1>1, AllocAlters DEF AllocWalk, Alters, storage, OnDisk
  <1>3. /\ pc \in Allocating /\ loc.then \in {"createFile", "tfs_writeFile"}
        /\ pc' \in Allocating \cup {"createInode", "writeInode"}
        /\ pc' = "writeInode" => loc.then = "tfs_writeFile"
        /\ loc'.then = loc.then /\ loc'.name = loc.name /\ loc'.inb = loc.inb
        /\ LL' = LL
    BY AllocLeads DEF session
  <1>4. \A j \in OnDisk : disk'[j] = disk[j] \/ disk'[j].type # inode
    <2>1. Held \notin OnDisk
      BY OnDiskFacts DEF Held
    <2> QED
      BY <1>2, <2>1 DEF Alters
  <1>5. ASSUME loc.then = "createFile"
        PROVE  (Hits(loc.name) = {} /\ ~IsOpen(loc.name) /\ loc.name \in Names)'
    <2> PICK n : n = loc.name
      OBVIOUS
    <2>1. Hits(n) = {} /\ ~IsOpen(n) /\ n \in Names
      BY <1>5 DEF CallKnows, NameStillNew
    <2>2. Hits(n)' = {}
      BY <1>2, <1>4, <2>1, HitsKept DEF Alters
    <2>3. ~IsOpen(n)'
      BY <1>3, <2>1 DEF IsOpen
    <2> QED
      BY <1>3, <2>1, <2>2, <2>3 DEF Hits, IsOpen
  <1>6. ASSUME loc.then = "tfs_writeFile"
        PROVE  loc'.inb = disk'[fte'.inodeIdx]
    <2>1. loc.inb = disk[fte.inodeIdx] /\ fte' = fte
      BY <1>3, <1>6 DEF CallKnows, InodeInMemory, fte
    <2>2. fte.inodeIdx \in OnDisk /\ o[fte.inodeIdx] = fte.inodeIdx
      BY <1>1, <1>3, <1>6, HeadOwned, WorkOwners DEF Allocating
    <2>3. disk'[fte.inodeIdx] = disk[fte.inodeIdx]
      BY <1>2, <2>2, OnDiskFacts DEF Alters, Held
    <2> QED
      BY <1>3, <2>1, <2>3
  <1>7. NameStillNew'
    BY <1>3, <1>5 DEF NameStillNew
  <1>8. InodeInMemory'
    BY <1>3, <1>6 DEF InodeInMemory
  <1> QED
    BY <1>3, <1>7, <1>8 DEF CallKnows, Allocating

LEMMA WriteKnows ==
  ASSUME TypeOK, CallOK, CallKnows,
         Truncs \/ WriteAlloc \/ WriteInode \/ WriteData \/ WriteDataFails
  PROVE  CallKnows'
  <1>1. CASE Truncs
    <2>1. pc' \in {"truncBlock", "truncLast", "truncSuper", "writeAlloc"}
          /\ loc'.then = "tfs_writeFile"
      BY <1>1, TruncLeads
    <2> QED
      BY <2>1, QuietKnows DEF Allocating
  <1>2. CASE WriteAlloc
    <2>1. /\ pc' \in {"allocWalk", "writeInode"} /\ loc'.then = "tfs_writeFile"
          /\ loc'.inb = disk[fte.inodeIdx] /\ disk' = disk /\ LL' = LL
      BY <1>2, WriteAllocLeads DEF storage, session
    <2>2. fte' = fte
      BY <2>1 DEF fte
    <2>3. InodeInMemory'
      BY <2>1, <2>2 DEF InodeInMemory
    <2> QED
      BY <2>1, <2>3 DEF CallKnows, NameStillNew
  <1>3. CASE WriteInode \/ WriteData \/ WriteDataFails
    <2>1. Home \/ (pc' = "writeData" /\ loc'.then = "tfs_writeFile")
      BY <1>3, DataLeads
    <2> QED
      BY <2>1, HomeKnows, QuietKnows DEF Allocating
  <1> QED
    BY <1>1, <1>2, <1>3

LEMMA DeleteKnows ==
  ASSUME TypeOK, CallOK, OwnersInv, CallKnows, DeleteBlock \/ DeleteLast
  PROVE  CallKnows'
  <1>1. pc \in {"deleteBlock", "deleteLast"} /\ loc.then = "none" /\ loc'.then = "none"
        /\ pc' \in {"deleteBlock", "deleteLast", "deleteSuper"}
        /\ (pc' = "deleteSuper" => pc = "deleteLast" /\ loc' = loc)
        /\ LL' = LL
    BY DeleteLeads DEF CallKnows, session
  <1>2. PICK o, r \in [Indices -> Int], h \in Nat : Owned(o, r, h)
    BY <1>1, WorkOwners DEF Working
  <1>3. loc.first = fte.inodeIdx
    BY <1>1, <1>2 DEF Owned, Giving
  <1>4. fte' = fte
    BY <1>1 DEF fte
  <1>5. pc' = "deleteSuper" => loc'.first = fte'.inodeIdx
    BY <1>1, <1>3, <1>4
  <1> QED
    BY <1>1, <1>5 DEF CallKnows, NameStillNew, InodeInMemory, Allocating

LEMMA ReadKnows ==
  ASSUME TypeOK, CallKnows, ReadWalk
  PROVE  CallKnows'
  <1>1. loc.then = "none"
    BY DEF ReadWalk, CallKnows
  <1>2. Home \/ (pc' = "readWalk" /\ loc'.then = "none")
    BY <1>1, ReadLeads
  <1> QED
    BY <1>2, HomeKnows, QuietKnows DEF Allocating

LEMMA StayKnows ==
  ASSUME CallKnows, UNCHANGED vars
  PROVE  CallKnows'
  BY DEF vars, CallKnows, NameStillNew, InodeInMemory, Hits, IsOpen, fte

LEMMA CallKnowsNext ==
  ASSUME Careful, TypeOK, CallOK, OwnersInv, CallKnows, [Next]_vars
  PROVE  CallKnows'
  <1>1. ASSUME AllocWalk \/ AllocSuper \/ AllocLast PROVE HasFS
    <2>1. pc \in Allocating
      BY <1>1 DEF AllocWalk, AllocSuper, AllocLast, Allocating
    <2> QED
      BY <2>1 DEF OwnersInv, MakingOK, HasFS, Allocating
  <1>2. CreateInode \/ DeleteSuper \/ DeleteBlockFails \/ ReadWalkFails \/ Crash => CallKnows'
    BY EndLeads, HomeKnows
  <1>3. AllocWalk \/ AllocSuper \/ AllocLast => CallKnows'
    BY <1>1, AllocKnows
  <1>4. Truncs \/ WriteAlloc \/ WriteInode \/ WriteData \/ WriteDataFails => CallKnows'
    BY WriteKnows
  <1>5. Client \/ Mounts \/ Lookup => CallKnows'
    BY ClientKnows, MountsKnow, LookupKnows
  <1>6. DeleteBlock \/ DeleteLast \/ ReadWalk \/ UNCHANGED vars => CallKnows'
    BY DeleteKnows, ReadKnows, StayKnows
  <1> QED
    BY <1>2, <1>3, <1>4, <1>5, <1>6, StepKinds

(* What a step that opens no file does to the list of open files. *)
TableMoves ==
  \/ LL' = LL
  \/ LL # <<>> /\ LL' = Tail(LL)
  \/ LL # <<>> /\ \E x : SetOffset(x)
  \/ LL' = <<>>

LEMMA OpenShrinks ==
  ASSUME TypeOK, OnDisk' = OnDisk, TableMoves
  PROVE  OpenInodes' \subseteq OpenInodes
  <1>1. CASE LL' = LL
    BY <1>1 DEF OpenInodes
  <1>2. CASE LL # <<>> /\ LL' = Tail(LL)
    BY <1>2, OpenTail DEF OpenInodes
  <1>3. ASSUME LL # <<>>, NEW x, SetOffset(x)
        PROVE  OpenInodes' \subseteq OpenInodes
    BY <1>3, OpenSame DEF OpenInodes
  <1>4. CASE LL' = <<>>
    BY <1>4, EntriesGone
  <1> QED
    BY <1>1, <1>2, <1>3, <1>4 DEF TableMoves

LEMMA OpenGrows ==
  ASSUME TypeOK, TypeOK', OnDisk' = OnDisk, NEW x \in Int, Opened(x)
  PROVE  OpenInodes' \subseteq OpenInodes \cup {x}
  <1> DEFINE e == [fd |-> currentFD, inodeIdx |-> x, offset |-> 0, fileName |-> loc.name]
  <1>1. e \in FTE /\ e.inodeIdx = x
    BY LocalFields DEF FTE, TypeOK, Locals
  <1>2. LL' = Append(LL, e)
    BY DEF Opened
  <1> HIDE DEF e
  <1>3. \A k \in DOMAIN LL' : \/ k \in DOMAIN LL /\ LL'[k] = LL[k]
                              \/ LL'[k] = e
    BY <1>1, <1>2, OpenAppend
  <1> QED
    BY <1>1, <1>3 DEF OpenInodes

LEMMA AlteredLost ==
  ASSUME LostNames, NEW o, NEW r, NEW h, Owned(o, r, h), pc # "deleteSuper",
         NEW f, Alters(o, f), Held \notin OnDisk,
         NEW g, OpenInodes' \subseteq OpenInodes \cup {g},
         disk'[g].type = inode \/ g \in OpenInodes \/ g \notin OnDisk,
         \/ f \notin OnDisk \/ disk'[f] = disk[f] \/ disk'[f].type = inode
         \/ NameOf(disk'[f]) \in NewNames \cup {EmptyName}
  PROVE  LostNames'
  <1> SUFFICES ASSUME NEW i \in OpenInodes', disk'[i].type # inode
               PROVE  NameOf(disk'[i]) \in NewNames \cup {EmptyName}
    BY DEF LostNames
  <1>1. i \in OnDisk /\ i \in OpenInodes
    BY DEF OpenInodes, Alters
  <1>2. o[i] = i
    BY <1>1 DEF Owned, FilesOwned
  <1>3. disk'[i] = disk[i] \/ i = f
    BY <1>1, <1>2 DEF Alters
  <1> QED
    BY <1>1, <1>3 DEF LostNames

LEMMA StorageLost ==
  ASSUME LostNames, UNCHANGED storage,
         NEW g, OpenInodes' \subseteq OpenInodes \cup {g},
         disk[g].type = inode \/ g \in OpenInodes \/ g \notin OnDisk
  PROVE  LostNames'
  <1>1. disk' = disk /\ OnDisk' = OnDisk
    BY DEF storage, OnDisk
  <1>2. \A i \in OpenInodes' : i \in OnDisk
    BY <1>1 DEF OpenInodes
  <1> QED
    BY <1>1, <1>2 DEF LostNames

(* A mount of an image that is there writes nothing. *)
LEMMA MountsRead ==
  ASSUME Careful, TypeOK, CallOK, OwnersInv, HasFS, Mounts
  PROVE  UNCHANGED storage
  <1>1. ~CreateBlock /\ ~FormatSuper /\ ~FormatBlock /\ ~FormatEnd
    BY DEF CreateBlock, FormatSuper, FormatBlock, FormatEnd, HasFS, OwnersInv, MakingOK
  <1>2. size >= 0 /\ size # -1
    BY OnDiskFacts DEF HasFS, HasSuperblock
  <1>3. MountOpens => UNCHANGED storage
    BY <1>2 DEF MountOpens, Careful, storage
  <1> QED
    BY <1>1, <1>3 DEF Mounts, Validate

(* What the client's calls leave of the table and the image at once. *)
ImageMoves ==
  \/ UNCHANGED storage
  \/ \E FD, b : WriteFile(FD, b)
  \/ \E FD : \E n \in NewNames : Rename(FD, n)

LEMMA ClientDoes ==
  ASSUME Client
  PROVE  TableMoves /\ ImageMoves
  <1>1. ASSUME NEW FD, NEW b, WriteFile(FD, b) PROVE TableMoves /\ ImageMoves
    BY <1>1 DEF TableMoves, ImageMoves, WriteFile, session
  <1>2. ASSUME NEW FD, NEW n \in NewNames, Rename(FD, n) PROVE TableMoves /\ ImageMoves
    <2>1. LL' = LL
      BY <1>2 DEF Rename, session
    <2> QED
      BY <1>2, <2>1 DEF TableMoves, ImageMoves
  <1>3. ASSUME NEW FD,
               \/ DeleteFile(FD) \/ DeleteFileDies(FD)
               \/ ReadByte(FD) \/ GetTimeStamp(FD) \/ IndexHit(FD)
        PROVE  TableMoves /\ ImageMoves
    BY <1>3 DEF TableMoves, ImageMoves, DeleteFile, DeleteFileDies, ReadByte, GetTimeStamp,
                IndexHit, Die, session
  <1>4. ASSUME NEW FD, CloseFile(FD) PROVE TableMoves /\ ImageMoves
    BY <1>4 DEF TableMoves, ImageMoves, CloseFile, CloseHead, Served
  <1>5. ASSUME NEW FD, NEW x, Seek(FD, x) PROVE TableMoves /\ ImageMoves
    BY <1>5 DEF TableMoves, ImageMoves, Seek, Served
  <1>6. ASSUME NEW n, OpenFile(n) PROVE TableMoves /\ ImageMoves
    BY <1>6 DEF TableMoves, ImageMoves, OpenFile, session
  <1>7. ClientMount \/ Unmount \/ Refused \/ ListMissing => TableMoves /\ ImageMoves
    BY DEF TableMoves, ImageMoves, ClientMount, Unmount, Refused, ListMissing, Die, session
  <1> QED
    BY <1>1, <1>2, <1>3, <1>4, <1>5, <1>6, <1>7 DEF Client

(* The name and the size stored in a body are read from it. *)
LEMMA InodeReads ==
  ASSUME NEW n, NEW z, NEW b, b.body = InodeBody(n, z)
  PROVE  NameOf(b) = n /\ FileSize(b) = z
  BY DEF NameOf, FileSize, InodeBody, ZeroBody

(* What tfs_writeFile and tfs_rename write to the inode first. *)
LEMMA CutIs ==
  ASSUME TypeOK, OwnersInv, NEW FD, NEW b, WriteFile(FD, b)
  PROVE  \/ UNCHANGED storage /\ (~Readable(fte.inodeIdx) => Home)
         \/ /\ Readable(fte.inodeIdx) /\ LL # <<>> /\ disk[fte.inodeIdx].nextIdx # 0
            /\ \E c : /\ WriteBlock(fte.inodeIdx, c)
                      /\ c.nextIdx = 0 /\ c.type = disk[fte.inodeIdx].type
                      /\ NameOf(c) = NameOf(disk[fte.inodeIdx]) /\ FileSize(c) = 0
  <1>1. Served(FD) /\ LL # <<>>
    BY DEF WriteFile, Served
  <1>2. CASE ~Readable(fte.inodeIdx)
    BY <1>2, ReturnsHome DEF WriteFile
  <1>3. CASE Readable(fte.inodeIdx) /\ disk[fte.inodeIdx].nextIdx = 0
    BY <1>3 DEF WriteFile
  <1>4. CASE Readable(fte.inodeIdx) /\ disk[fte.inodeIdx].nextIdx # 0
    <2> DEFINE d == disk[fte.inodeIdx]
               c == [SetSize(d, 0) EXCEPT !.nextIdx = 0]
    <2>1. d \in Block /\ d.body.kind # "super"
      <3>1. PICK o, r \in [Indices -> Int], h \in Nat : Owned(o, r, h)
        BY <1>1, <1>4, ServedOwners
      <3> QED
        BY <1>1, <1>4, <3>1, ServedFile, ServedOwners DEF Owned, FilesOwned
    <2>2. WriteBlock(fte.inodeIdx, c)
      BY <1>4 DEF WriteFile
    <2>3. c.nextIdx = 0 /\ c.type = d.type /\ c.body = InodeBody(NameOf(d), 0)
      BY <2>1 DEF SetSize, Block
    <2> HIDE DEF c
    <2>4. NameOf(c) = NameOf(d) /\ FileSize(c) = 0
      BY <2>3, InodeReads
    <2> QED
      BY <1>1, <1>4, <2>2, <2>3, <2>4
  <1> QED
    BY <1>2, <1>3, <1>4

LEMMA NewNameIs ==
  ASSUME TypeOK, NEW FD, NEW n, Rename(FD, n)
  PROVE  \/ UNCHANGED storage /\ ~Readable(fte.inodeIdx)
         \/ /\ Readable(fte.inodeIdx) /\ LL # <<>> /\ ret' = [code |-> 0, byte |-> Nul]
            /\ \E c : /\ WriteBlock(fte.inodeIdx, c)
                      /\ c.nextIdx = disk[fte.inodeIdx].nextIdx
                      /\ c.type = disk[fte.inodeIdx].type
                      /\ NameOf(c) = n /\ FileSize(c) = FileSize(disk[fte.inodeIdx])
  <1>1. Served(FD) /\ LL # <<>>
    BY DEF Rename, Served
  <1>2. CASE ~Readable(fte.inodeIdx)
    BY <1>2 DEF Rename
  <1>3. CASE Readable(fte.inodeIdx)
    <2> DEFINE d == disk[fte.inodeIdx]
               c == SetName(d, n)
    <2>1. d \in Block
      BY <1>1, <1>3, ServedFile
    <2>2. WriteBlock(fte.inodeIdx, c) /\ Return(0)
      BY <1>3 DEF Rename
    <2>3. c.nextIdx = d.nextIdx /\ c.type = d.type /\ c.body = InodeBody(n, FileSize(d))
      BY <2>1 DEF SetName, Block
    <2> HIDE DEF c
    <2>4. NameOf(c) = n /\ FileSize(c) = FileSize(d)
      BY <2>3, InodeReads
    <2> QED
      BY <1>1, <1>3, <2>2, <2>3, <2>4 DEF Return, ReturnByte
  <1> QED
    BY <1>2, <1>3

LEMMA HeldNowhere ==
  ASSUME TypeOK
  PROVE  Held \notin OnDisk /\ \A x : x < 0 => x \notin OnDisk
  BY OnDiskFacts DEF Held

LEMMA ClientLost ==
  ASSUME TypeOK, OwnersInv, LostNames, Client
  PROVE  LostNames'
  <1>1. TableMoves /\ ImageMoves /\ pc = "idle"
    BY ClientDoes, ClientIdle
  <1>2. CASE UNCHANGED storage
    <2>1. OpenInodes' \subseteq OpenInodes \cup {Held}
      BY <1>1, <1>2, OpenShrinks DEF OnDisk, storage
    <2> QED
      BY <1>2, <2>1, HeldNowhere, StorageLost
  <1>3. ASSUME Readable(fte.inodeIdx), LL # <<>>, NEW c, WriteBlock(fte.inodeIdx, c),
               c.type = disk[fte.inodeIdx].type,
               NameOf(c) \in NewNames \cup {NameOf(disk[fte.inodeIdx])}
        PROVE  LostNames'
    <2>1. HasFS /\ fte.inodeIdx \in OnDisk /\ fte.inodeIdx \in OpenInodes
      BY <1>3, InvParts, HeadOpen
    <2>2. PICK o \in [Indices -> Int], r \in [Indices -> Int], h \in Nat : Owned(o, r, h)
      BY <2>1 DEF OwnersInv
    <2>3. Alters(o, fte.inodeIdx) /\ disk'[fte.inodeIdx] = c
      BY <1>1, <1>3, <2>2, HeadAlters
    <2>4. OpenInodes' \subseteq OpenInodes \cup {Held}
      BY <1>1, <2>3, OpenShrinks DEF Alters
    <2>5. disk'[fte.inodeIdx].type = inode
            \/ NameOf(disk'[fte.inodeIdx]) \in NewNames \cup {EmptyName}
      BY <1>3, <2>1, <2>3 DEF LostNames
    <2> QED
      BY <1>1, <2>2, <2>3, <2>4, <2>5, HeldNowhere, AlteredLost
  <1>4. ASSUME NEW FD, NEW b, WriteFile(FD, b) PROVE LostNames'
    BY <1>2, <1>3, <1>4, CutIs
  <1>5. ASSUME NEW FD, NEW n \in NewNames, Rename(FD, n) PROVE LostNames'
    BY <1>2, <1>3, <1>5, NewNameIs
  <1> QED
    BY <1>1, <1>2, <1>4, <1>5 DEF ImageMoves

LEMMA MountsLost ==
  ASSUME Careful, TypeOK, CallOK, OwnersInv, LostNames, Mounts
  PROVE  LostNames'
  <1>1. LL' = LL
    BY MountLeads DEF session
  <1>2. CASE HasFS
    <2>1. UNCHANGED storage
      BY <1>2, MountsRead
    <2>2. OpenInodes' \subseteq OpenInodes \cup {Held}
      BY <1>1, <2>1 DEF OpenInodes, OnDisk, storage
    <2> QED
      BY <2>1, <2>2, HeldNowhere, StorageLost
  <1>3. CASE ~HasFS
    BY <1>1, <1>3, InvParts, NoEntries DEF LostNames
  <1> QED
    BY <1>2, <1>3

LEMMA OpenLost ==
  ASSUME TypeOK, TypeOK', CallOK, OwnersInv, LostNames, Lookup \/ CreateInode
  PROVE  LostNames'
  <1>1. ASSUME UNCHANGED storage, LL' = LL PROVE LostNames'
    <2>1. OpenInodes' \subseteq OpenInodes \cup {Held}
      BY <1>1 DEF OpenInodes, OnDisk, storage
    <2> QED
      BY <1>1, <2>1, HeldNowhere, StorageLost
  <1>2. ASSUME UNCHANGED storage, NEW x \in Int, Opened(x), x \in Inodes \/ x < 0
        PROVE  LostNames'
    <2>1. OpenInodes' \subseteq OpenInodes \cup {x}
      BY <1>2, OpenGrows DEF OnDisk, storage
    <2>2. disk[x].type = inode \/ x \notin OnDisk
      BY <1>2, HeldNowhere DEF Inodes
    <2> QED
      BY <1>2, <2>1, <2>2, StorageLost
  <1>3. CASE Lookup
    <2>1. FindByName(loc.name) # 0 => FindByName(loc.name) \in Inodes
      BY FoundInode
    <2>2. \A x \in Inodes : x \in Int
      BY OnDiskFacts DEF Inodes
    <2> QED
      BY <1>1, <1>2, <1>3, <2>1, <2>2, LookupLeads
         DEF session, TFS_ERROR_VALIDATE, TFS_ERROR_INVALID_PARAMETER
  <1>4. CASE CreateInode /\ ~Readable(loc.cur)
    BY <1>2, <1>4 DEF CreateInode, TFS_ERROR_DISK_WRITE
  <1>5. CASE CreateInode /\ Readable(loc.cur)
    <2>1. HasFS /\ pc = "createInode"
      BY <1>5 DEF CreateInode, OwnersInv, MakingOK, HasFS
    <2>2. PICK o \in [Indices -> Int], r \in [Indices -> Int], h \in Nat : Owned(o, r, h)
      BY <2>1 DEF OwnersInv
    <2>3. Alters(o, loc.cur) /\ disk'[loc.cur].type = inode /\ loc.cur \in OnDisk
      BY <1>5, <2>2, CreateAlters
    <2>4. OpenInodes' \subseteq OpenInodes \cup {loc.cur}
      BY <1>5, <2>3, OpenGrows, LocalFields DEF CreateInode, Alters
    <2> QED
      BY <2>1, <2>2, <2>3, <2>4, HeldNowhere, AlteredLost
  <1> QED
    BY <1>3, <1>4, <1>5

(* A step of a call on a file alters what it holds, or that file. *)
LEMMA WorkLost ==
  ASSUME TypeOK, LostNames, NEW o, NEW r, NEW h, Owned(o, r, h), pc # "deleteSuper",
         NEW f, Alters(o, f), TableMoves,
         \/ f = Held \/ disk'[f] = disk[f] \/ disk'[f].type = inode
         \/ NameOf(disk'[f]) \in NewNames \cup {EmptyName}
  PROVE  LostNames'
  <1>1. OpenInodes' \subseteq OpenInodes \cup {Held}
    BY OpenShrinks DEF Alters
  <1> QED
    BY <1>1, HeldNowhere, AlteredLost

LEMMA StaysLost ==
  ASSUME TypeOK, LostNames, UNCHANGED storage, TableMoves
  PROVE  LostNames'
  <1>1. OpenInodes' \subseteq OpenInodes \cup {Held}
    BY OpenShrinks DEF OnDisk, storage
  <1> QED
    BY <1>1, HeldNowhere, StorageLost

LEMMA AllocLost ==
  ASSUME TypeOK, CallOK, OwnersInv, LostNames, AllocWalk \/ AllocSuper \/ AllocLast
  PROVE  LostNames'
  <1>1. LL' = LL /\ pc \in Allocating
    BY AllocLeads DEF session
  <1>2. CASE AllocWalk
    BY <1>1, <1>2, StaysLost DEF AllocWalk, TableMoves
  <1>3. CASE AllocSuper \/ AllocLast
    <2>1. HasFS
      BY <1>1 DEF OwnersInv, MakingOK, HasFS, Allocating
    <2>2. PICK o \in [Indices -> Int], r \in [Indices -> Int], h \in Nat : Owned(o, r, h)
      BY <2>1 DEF OwnersInv
    <2>3. Alters(o, Held)
      BY <1>3, <2>2, AllocAlters
    <2> QED
      BY <1>1, <2>2, <2>3, WorkLost DEF TableMoves, Allocating
  <1> QED
    BY <1>2, <1>3

LEMMA WriteLost ==
  ASSUME TypeOK, CallOK, OwnersInv, LostNames,
         Truncs \/ WriteAlloc \/ WriteInode \/ WriteData \/ WriteDataFails
  PROVE  LostNames'
  <1>1. TableMoves /\ pc \in Writing
    <2>1. Truncs \/ WriteAlloc => TableMoves /\ pc \in Writing
      BY TruncLeads, WriteAllocLeads DEF TableMoves, session, Writing
    <2>2. WriteInode \/ WriteData \/ WriteDataFails =>
            TableMoves /\ pc \in Writing
      <3>1. WriteInode \/ WriteData \/ WriteDataFails => LL # <<>>
        BY WorkFile DEF WriteInode, WriteData, WriteDataFails, Working, Writing
      <3> QED
        BY <3>1, DataLeads DEF TableMoves, Writing
    <2> QED
      BY <2>1, <2>2
  <1>2. CASE TruncBlockFails \/ WriteAlloc \/ WriteDataFails
    BY <1>1, <1>2, StaysLost DEF TruncBlockFails, WriteAlloc, WriteDataFails
  <1>3. LL # <<>> /\ Readable(fte.inodeIdx) /\ HasFS
    BY <1>1, WorkFile, WorkOwners DEF Working, Writing
  <1>4. PICK o \in [Indices -> Int], r \in [Indices -> Int], h \in Nat : Owned(o, r, h)
    BY <1>3 DEF OwnersInv
  <1>5. pc # "deleteSuper"
    BY <1>1 DEF Writing
  <1>6. CASE TruncBlock \/ TruncLast \/ TruncSuper
    <2>1. Alters(o, Held)
      BY <1>4, <1>6, TruncAlters
    <2> QED
      BY <1>1, <1>4, <1>5, <2>1, WorkLost
  <1>7. CASE WriteInode
    <2> DEFINE c == [type |-> inode, nextIdx |-> ToIdx(loc.cur),
                     body |-> SetSize(loc.inb, Length[loc.buf]).body]
    <2>1. WriteBlock(fte.inodeIdx, c) /\ c.type = inode
      BY <1>7 DEF WriteInode
    <2> HIDE DEF c
    <2>2. Alters(o, fte.inodeIdx) /\ disk'[fte.inodeIdx] = c
      BY <1>3, <1>4, <1>5, <2>1, HeadAlters
    <2> QED
      BY <1>1, <1>4, <1>5, <2>1, <2>2, WorkLost
  <1>8. CASE WriteData
    <2>1. Alters(o, fte.inodeIdx) /\ disk'[fte.inodeIdx] = disk[fte.inodeIdx]
      BY <1>4, <1>8, DataAlters
    <2> QED
      BY <1>1, <1>4, <1>5, <2>1, WorkLost
  <1> QED
    BY <1>2, <1>6, <1>7, <1>8 DEF Truncs

LEMMA DeleteLost ==
  ASSUME TypeOK, CallOK, OwnersInv, LostNames, DeleteBlock \/ DeleteLast \/ DeleteSuper
  PROVE  LostNames'
  <1>1. LL # <<>> /\ HasFS
    BY WorkOwners DEF Working, DeleteBlock, DeleteLast, DeleteSuper
  <1>2. PICK o \in [Indices -> Int], r \in [Indices -> Int], h \in Nat : Owned(o, r, h)
    BY <1>1 DEF OwnersInv
  <1>3. CASE DeleteBlock \/ DeleteLast
    <2>1. LL' = LL /\ pc # "deleteSuper"
      BY <1>3, DeleteLeads DEF session
    <2>2. /\ Alters(o, fte.inodeIdx)
          /\ disk'[fte.inodeIdx] = disk[fte.inodeIdx] \/ NameOf(disk'[fte.inodeIdx]) = EmptyName
      BY <1>2, <1>3, DeleteAlters
    <2> QED
      BY <1>2, <2>1, <2>2, WorkLost DEF TableMoves
  <1>4. CASE DeleteSuper
    <2>1. OnDisk' = OnDisk /\ \A i \in OnDisk : disk'[i] = disk[i]
      <3>1. OnDisk \subseteq Indices /\ 0 \in Indices /\ 0 \notin OnDisk
        BY OnDiskFacts
      <3> QED
        BY <1>4, <3>1, Written DEF DeleteSuper, FreeSuper
    <2>2. OpenInodes' \subseteq OpenInodes
      BY <1>1, <1>4, <2>1, OpenShrinks DEF DeleteSuper, CloseHead, TableMoves
    <2>3. \A i \in OpenInodes : i \in OnDisk
      BY DEF OpenInodes
    <2> QED
      BY <2>1, <2>2, <2>3 DEF LostNames
  <1> QED
    BY <1>3, <1>4

LEMMA LostNext ==
  ASSUME Careful, TypeOK, TypeOK', CallOK, OwnersInv, LostNames, [Next]_vars
  PROVE  LostNames'
  <1>1. CASE Client \/ Mounts \/ Lookup \/ CreateInode
    BY <1>1, ClientLost, MountsLost, OpenLost
  <1>2. CASE AllocWalk \/ AllocSuper \/ AllocLast
    BY <1>2, AllocLost
  <1>3. CASE Truncs \/ WriteAlloc \/ WriteInode \/ WriteData \/ WriteDataFails
    BY <1>3, WriteLost
  <1>4. CASE DeleteBlock \/ DeleteLast \/ DeleteSuper
    BY <1>4, DeleteLost
  <1>5. CASE DeleteBlockFails \/ ReadWalkFails \/ Crash \/ UNCHANGED vars
    BY <1>5, StaysLost DEF DeleteBlockFails, ReadWalkFails, Crash, Die, vars, storage,
                           session, TableMoves
  <1>6. CASE ReadWalk
    <2>1. LL # <<>>
      BY <1>6, WorkFile DEF ReadWalk, Working
    <2>2. TableMoves /\ UNCHANGED storage
      BY <1>6, <2>1, ReadLeads DEF TableMoves, session
    <2> QED
      BY <2>2, StaysLost
  <1> QED
    BY <1>1, <1>2, <1>3, <1>4, <1>5, <1>6, StepKinds

LEMMA StoreParts == StoreInv <=> FilesMounted /\ CallKnows /\ LostNames
  BY DEF StoreInv, CallKnows

LEMMA StorePartsThen == StoreInv' <=> FilesMounted' /\ CallKnows' /\ LostNames'
  BY DEF StoreInv, CallKnows

LEMMA StoreInit ==
  ASSUME Init
  PROVE  StoreInv
  <1>1. OnDisk = {} /\ Inodes = {} /\ OpenInodes = {}
    BY DEF Init, OnDisk, Inodes, OpenInodes
  <1>2. FilesMounted
    BY <1>1 DEF Init, FilesMounted, NotMounted, MountFailed, TFS_ERROR_DISK_OPEN
  <1>3. CallKnows
    BY DEF Init, CallKnows, NameStillNew, InodeInMemory, NoCall, Allocating
  <1> QED
    BY <1>1, <1>2, <1>3, StoreParts DEF LostNames

LEMMA StoreInvNext ==
  ASSUME Careful, TypeOK, TypeOK', CallOK, OwnersInv, StoreInv, [Next]_vars
  PROVE  StoreInv'
  BY StoreParts, StorePartsThen, MountedNext, CallKnowsNext, LostNext

-----------------------------------------------------------------------------
(* The steps of the store *)

Maps == Store!Next \/ UNCHANGED Store!vars

LEMMA Unseen ==
  ASSUME StoreFiles' = StoreFiles, LL' = LL, currentFD' = currentFD,
         StoreCall' = StoreCall, ret' = ret
  PROVE  Maps
  BY HandlesSame DEF Maps, Store!vars

(* The handle that is served. *)
LEMMA HeadIs ==
  ASSUME TypeOK, LL # <<>>
  PROVE  /\ StoreHandles # <<>> /\ Store!Served = StoreHandles[1]
         /\ Store!Served = Handle(fte)
         /\ Store!Served.offset = fte.offset
         /\ fte.inodeIdx \in Indices => Store!Served.file = fte.inodeIdx
         /\ IF fte.inodeIdx \in StoredFiles
              THEN Store!Served.file = fte.inodeIdx /\ ~Store!Adrift
              ELSE Store!Adrift
  <1>1. Store!Served = StoreHandles[1] /\ Store!Served = Handle(fte) /\ StoreHandles # <<>>
    BY HandlesNone DEF Store!Served
  <1>2. /\ Handle(fte).offset = fte.offset
        /\ Handle(fte).file = IF fte.inodeIdx \in Indices THEN fte.inodeIdx ELSE None
    BY DEF Handle
  <1>3. StoredFiles \subseteq Indices /\ None \notin StoredFiles
    BY OnDiskFacts, StoreAssumption DEF StoredFiles, Inodes
  <1>4. Store!Adrift <=> Store!Served.file \notin StoredFiles
    BY FilesAre DEF Store!Adrift
  <1> QED
    BY <1>1, <1>2, <1>3, <1>4

LEMMA CallNone ==
  /\ pc = "idle" => StoreCall = None
  /\ pc' = "idle" => StoreCall' = None
  BY CallIs, CallIsThen DEF CallShape

LEMMA Codes ==
  /\ TFS_ERROR_DISK_READ \in Store!ErrorCodes
  /\ TFS_ERROR_DISK_OPEN \in Store!ErrorCodes
  /\ TFS_ERROR_INVALID_FD \in Store!ErrorCodes
  /\ TFS_ERROR_INVALID_PARAMETER \in Store!ErrorCodes
  /\ TFS_ERROR_BAD_ALLOC \in Store!ErrorCodes
  BY DEF Store!ErrorCodes, TFS_ERROR_DISK_READ, TFS_ERROR_DISK_OPEN, TFS_ERROR_INVALID_FD,
         TFS_ERROR_INVALID_PARAMETER, TFS_ERROR_BAD_ALLOC

LEMMA Fails ==
  ASSUME NEW c \in Store!ErrorCodes, Return(c)
  PROVE  Store!Fail
  <1>1. pc' = "idle" /\ ret' = [code |-> c, byte |-> Nul]
    BY DEF Return, ReturnByte
  <1> QED
    BY <1>1, CallNone DEF Store!Fail, Store!Answer

LEMMA Succeeds ==
  ASSUME Return(0)
  PROVE  Store!Succeed
  <1>1. pc' = "idle" /\ ret' = [code |-> 0, byte |-> Nul]
    BY DEF Return, ReturnByte
  <1> QED
    BY <1>1, CallNone DEF Store!Succeed, Store!Answer

LEMMA DoesNothing ==
  ASSUME pc = "idle", NEW c \in {0} \cup Store!ErrorCodes, Return(c),
         UNCHANGED storage, LL' = LL, currentFD' = currentFD
  PROVE  Store!NoEffect
  <1>1. Store!Succeed \/ Store!Fail
    BY Fails, Succeeds
  <1> QED
    BY <1>1, CallNone, StorageSame, HandlesSame DEF Store!NoEffect

LEMMA Dies ==
  ASSUME Die
  PROVE  Store!Crash
  <1>1. StoreFiles' = StoreFiles
    BY StorageSame DEF Die
  <1>2. StoreHandles' = <<>>
    BY HandlesEmptyThen DEF Die
  <1>3. currentFD' = 1 /\ pc' = "idle" /\ ret' = Store!NoRet
    BY DEF Die, NoRet, Store!NoRet
  <1> QED
    BY <1>1, <1>2, <1>3, CallNone DEF Store!Crash

-----------------------------------------------------------------------------
(* Mounting *)

LEMMA MountBegins ==
  ASSUME ClientMount
  PROVE  Store!MountBegins
  <1>1. pc = "idle" /\ pc' = "mount" /\ loc'.then = "client" /\ ret' = Store!NoRet
    BY DEF ClientMount, Call, NoCall, NoRet, Store!NoRet
  <1>2. StoreCall' = [op |-> "mount", arg |-> None]
    BY <1>1, CallIsThen DEF CallShape
  <1> QED
    BY <1>1, <1>2, CallNone, StorageSame, HandlesSame
       DEF Store!MountBegins, Store!Begin, ClientMount, session

(* No mount is seen in the files. *)
LEMMA MountsFiles ==
  ASSUME Careful, TypeOK, CallOK, OwnersInv, StoreInv, Mounts
  PROVE  StoreFiles' = StoreFiles
  <1>1. CASE HasFS
    BY <1>1, MountsRead, StorageSame
  <1>2. CASE ~HasFS
    <2>1. Inodes = {}
      BY <1>2, StoreParts DEF FilesMounted
    <2>2. Inodes' = {}
      BY <1>2, <2>1, MountsNoFile
    <2>3. \A i : Alike(i)
      BY <2>1, <2>2 DEF Alike, StoredFiles
    <2> QED
      BY <2>3, FilesSame
  <1> QED
    BY <1>1, <1>2

LEMMA MountsMap ==
  ASSUME Careful, TypeOK, CallOK, OwnersInv, StoreInv, Mounts
  PROVE  Maps
  <1>1. StoreFiles' = StoreFiles
    BY MountsFiles
  <1>2. pc # "idle" /\ loc.then \in {"client", "tfs_openFile"}
    BY MountLeads DEF Mounting
  <1>3. ASSUME pc' # "idle", loc'.then = loc.then, loc'.name = loc.name,
               LL' = LL, currentFD' = currentFD, ret' = ret
        PROVE  Maps
    <2>1. StoreCall' = StoreCall
      BY <1>2, <1>3, CallIs, CallIsThen DEF CallShape
    <2> QED
      BY <1>1, <1>3, <2>1, Unseen
  <1>4. ASSUME loc.then = "client", Home, UNCHANGED session, ret' = [code |-> 0, byte |-> Nul]
        PROVE  Maps
    <2>1. StoreCall = [op |-> "mount", arg |-> None]
      BY <1>2, <1>4, CallIs DEF CallShape
    <2>2. Store!Running("mount")
      BY <2>1, CallRuns DEF Store!Running
    <2>3. Store!MountReturns
      BY <1>1, <1>4, <2>2, CallNone, HandlesSame
         DEF Store!MountReturns, Store!Succeed, Store!Answer, Home, session
    <2> QED
      BY <2>3 DEF Maps, Store!Next
  <1> QED
    BY <1>2, <1>3, <1>4, MountLeads DEF Mounting, session

-----------------------------------------------------------------------------
(* Opening *)

LEMMA OpenBegins ==
  ASSUME NEW n \in Names, OpenFile(n)
  PROVE  Store!OpenBegins(n)
  <1>1. /\ pc = "idle" /\ pc' \in {"mount", "lookup"} /\ ret' = Store!NoRet
        /\ loc'.then = "tfs_openFile" /\ loc'.name = n
    BY DEF OpenFile, Call, NoCall, NoRet, Store!NoRet
  <1>2. StoreCall' = [op |-> "open", arg |-> n]
    BY <1>1, CallIsThen DEF CallShape
  <1> QED
    BY <1>1, <1>2, CallNone, StorageSame, HandlesSame
       DEF Store!OpenBegins, Store!Begin, OpenFile, session

LEMMA NamesOpen ==
  ASSUME TypeOK, NEW n
  PROVE  n \in Store!OpenNames <=> IsOpen(n)
  <1>1. DOMAIN StoreHandles = 1..Len(LL) /\ DOMAIN LL = 1..Len(LL)
    BY HandlesAre
  <1>2. \A k \in 1..Len(LL) : StoreHandles[k].name = LL[k].fileName
    BY HandlesAre DEF Handle
  <1> QED
    BY <1>1, <1>2 DEF Store!OpenNames, IsOpen

LEMMA NamedIs ==
  ASSUME NEW n \in Names
  PROVE  Store!Named(n) = Hits(n)
  <1>1. n # EmptyName
    BY ClientAssumption
  <1>2. Store!Named(n) = {f \in StoredFiles : NameOf(disk[f]) = n}
    BY FilesAre DEF Store!Named
  <1> QED
    BY <1>1, <1>2 DEF StoredFiles, Inodes, Hits, OnDisk

LEMMA Opening ==
  ASSUME pc # "idle", loc.then \in {"tfs_openFile", "createFile"}, loc.name \in Names
  PROVE  Store!Running("open") /\ StoreCall.arg = loc.name
         /\ StoreCall = [op |-> "open", arg |-> loc.name]
  BY CallIs, CallRuns DEF CallShape, Store!Running

LEMMA OpenedIs ==
  ASSUME TypeOK, TypeOK', pc # "idle", loc.then \in {"tfs_openFile", "createFile"},
         loc.name \in Names, NEW x \in Int, Opened(x)
  PROVE  /\ Store!Opens
         /\ Store!NewHandle(IF x \in Indices THEN x ELSE None)
  <1> DEFINE e == [fd |-> currentFD, inodeIdx |-> x, offset |-> 0, fileName |-> loc.name]
             f == IF x \in Indices THEN x ELSE None
  <1>1. e \in FTE
    BY LocalFields DEF FTE, TypeOK, Locals
  <1>2. LL' = Append(LL, e) /\ currentFD' = currentFD + 1
        /\ ret' = [code |-> currentFD, byte |-> Nul] /\ pc' = "idle"
    BY DEF Opened, Return, ReturnByte
  <1>3. Handle(e) = [fd |-> currentFD, file |-> f, offset |-> 0, name |-> loc.name]
    BY DEF Handle
  <1> HIDE DEF e, f
  <1>4. StoreHandles' = Append(StoreHandles, Handle(e))
    BY <1>1, <1>2, HandlesGrow
  <1>5. Store!NewHandle(f)
    BY <1>3, <1>4, Opening DEF Store!NewHandle
  <1>6. Store!Opens
    BY <1>2, Opening, CallNone DEF Store!Opens, Store!Answer
  <1> QED
    BY <1>5, <1>6 DEF f

(* findByName and createFile found nothing and made nothing. *)
LEMMA OpensNothing ==
  ASSUME MayFail, TypeOK, TypeOK', pc # "idle", loc.then \in {"tfs_openFile", "createFile"},
         loc.name \in Names, ~IsOpen(loc.name), Hits(loc.name) = {},
         NEW x \in Int, x < 0, Opened(x), UNCHANGED storage
  PROVE  Store!OpenFindsNoRoom
  <1>1. x \notin Indices
    BY DEF Indices
  <1>2. Store!Opens /\ Store!NewHandle(None)
    BY <1>1, OpenedIs
  <1>3. StoreCall.arg \notin Store!OpenNames /\ Store!Named(StoreCall.arg) = {}
    BY Opening, NamesOpen, NamedIs
  <1> QED
    BY <1>2, <1>3, StorageSame DEF Store!OpenFindsNoRoom

LEMMA LookupMaps ==
  ASSUME MayFail, TypeOK, TypeOK', CallOK, OwnersInv, StoreInv, Lookup
  PROVE  Maps
  <1>1. /\ pc = "lookup" /\ loc.then = "tfs_openFile" /\ loc.name \in Names
        /\ diskFd = Mounted /\ (~HasFS => Inodes = {})
    BY StoreParts DEF Lookup, CallOK, CallKnows, NameStillNew, FilesMounted
  <1> PICK n \in Names : n = loc.name
    BY <1>1
  <1>2. StoreCall.arg = n /\ (IsOpen(n) <=> n \in Store!OpenNames)
    BY <1>1, Opening, NamesOpen
  <1>3. CASE IsOpen(n) /\ Return(TFS_ERROR_BAD_ALLOC) /\ UNCHANGED <<storage, session>>
    <2>1. Store!Fail
      BY <1>3, Codes, Fails
    <2>2. Store!OpenRefused
      BY <1>1, <1>2, <1>3, <2>1, Opening, StorageSame, HandlesSame
         DEF Store!OpenRefused, session
    <2> QED
      BY <2>2 DEF Maps, Store!Next
  <1>4. CASE /\ ~IsOpen(n) /\ FindByName(n) # 0
             /\ Opened(FindByName(n)) /\ UNCHANGED storage
    <2> PICK x : x = FindByName(n)
      OBVIOUS
    <2>1. x \in Hits(n)
      BY <1>4, FindIs
    <2>2. x \in OnDisk /\ x \in Indices /\ x \in Int
      BY <2>1, OnDiskFacts DEF Hits, OnDisk
    <2>3. Store!Opens /\ Store!NewHandle(x)
      BY <1>1, <1>4, <2>2, OpenedIs
    <2>4. x \in Store!Named(StoreCall.arg)
      BY <1>2, <2>1, NamedIs
    <2>5. Store!OpenFinds
      BY <1>2, <1>4, <2>3, <2>4, StorageSame DEF Store!OpenFinds
    <2> QED
      BY <2>5 DEF Maps, Store!Next
  <1>5. CASE /\ ~HasSuperblock \/ FindByName(n) = 0
             /\ \E c \in {TFS_ERROR_VALIDATE, TFS_ERROR_INVALID_PARAMETER} : Opened(c)
             /\ UNCHANGED storage /\ ~IsOpen(n)
    <2>1. Hits(n) = {}
      <3>1. CASE ~HasSuperblock
        BY <1>1, <3>1 DEF HasFS, Hits, Inodes, OnDisk
      <3>2. CASE FindByName(n) = 0
        BY <3>2, FindIs
      <3> QED
        BY <1>5, <3>1, <3>2
    <2>2. PICK c \in Int : c < 0 /\ Opened(c)
      BY <1>5 DEF TFS_ERROR_VALIDATE, TFS_ERROR_INVALID_PARAMETER
    <2>3. Store!OpenFindsNoRoom
      BY <1>1, <1>5, <2>1, <2>2, OpensNothing
    <2> QED
      BY <2>3 DEF Maps, Store!Next
  <1>6. CASE /\ pc' \in {"allocWalk", "createInode"} /\ ret' = ret
             /\ loc'.then = "createFile" /\ loc'.name = n
             /\ UNCHANGED <<storage, session>>
    <2>1. StoreCall' = [op |-> "open", arg |-> n]
      BY <1>6, CallIsThen DEF CallShape
    <2>2. StoreCall' = StoreCall
      BY <1>1, <2>1, Opening
    <2> QED
      BY <1>6, <2>2, StorageSame, Unseen DEF session
  <1> QED
    BY <1>1, <1>3, <1>4, <1>5, <1>6, LookupLeads

LEMMA HoldsSizedThen ==
  ASSUME Careful
  PROVE  (\A i, b : b \in Buffers /\ Holds(i, b) => FileSize(disk[i]) # 0)'
  <1>1. \A i, b : b \in Buffers /\ Holds(i, b) => FileSize(disk[i]) # 0
    BY HoldsSized
  <1> QED
    BY <1>1, PTL

LEMMA CreateMaps ==
  ASSUME Careful, MayFail, TypeOK, TypeOK', CallOK, OwnersInv, StoreInv, CreateInode
  PROVE  Maps
  <1>1. /\ pc = "createInode" /\ loc.then = "createFile" /\ loc.name \in Names
        /\ Hits(loc.name) = {} /\ ~IsOpen(loc.name)
    BY StoreParts DEF CreateInode, CallOK, CallKnows, NameStillNew
  <1>2. CASE ~Readable(loc.cur)
    <2>1. Opened(TFS_ERROR_DISK_WRITE) /\ UNCHANGED storage
      BY <1>2 DEF CreateInode
    <2>2. Store!OpenFindsNoRoom
      BY <1>1, <2>1, OpensNothing DEF TFS_ERROR_DISK_WRITE
    <2> QED
      BY <2>2 DEF Maps, Store!Next
  <1>3. CASE Readable(loc.cur)
    <2>1. HasFS
      BY <1>1 DEF OwnersInv, MakingOK, HasFS
    <2>2. PICK o \in [Indices -> Int], r \in [Indices -> Int], h \in Nat : Owned(o, r, h)
      BY <2>1 DEF OwnersInv
    <2>3. /\ Alters(o, loc.cur) /\ loc.cur \in OnDisk /\ o[loc.cur] = Held
          /\ disk'[loc.cur] = [type |-> inode, nextIdx |-> 0, body |-> InodeBody(loc.name, 0)]
          /\ Opened(loc.cur)
      BY <1>3, <2>2, CreateAlters DEF CreateInode
    <2> PICK f \in OnDisk : f = loc.cur
      BY <2>3
    <2>4. f \in Indices /\ f \in 1..(NBlocks - 1) /\ f # Held /\ f # None
      BY OnDiskFacts, StoreAssumption DEF Held, Indices
    <2>5. f \notin StoredFiles /\ f \notin OpenInodes
      BY <1>1, <2>2, <2>3, <2>4 DEF Owned, FilesOwned, StoredFiles
    <2>6. \A k \in DOMAIN StoreHandles : StoreHandles[k].file # f
      <3> SUFFICES ASSUME NEW k \in DOMAIN StoreHandles PROVE StoreHandles[k].file # f
        OBVIOUS
      <3>1. k \in DOMAIN LL /\ StoreHandles[k] = Handle(LL[k])
        BY HandlesAre
      <3>2. LL[k].inodeIdx # f
        BY <2>5, <3>1 DEF OpenInodes
      <3> QED
        BY <2>4, <3>1, <3>2 DEF Handle
    <2>7. /\ disk'[f].type = inode /\ disk'[f].nextIdx = 0
          /\ NameOf(disk'[f]) = loc.name /\ FileSize(disk'[f]) = 0
      <3>1. disk'[f].body = InodeBody(loc.name, 0)
        BY <2>3
      <3> QED
        BY <2>3, <3>1, InodeReads
    <2>8. f \in StoredFiles'
      BY <1>1, <2>3, <2>7, ClientAssumption DEF Alters, StoredFiles, Inodes
    <2>9. ContentOf(f)' = Blank
      <3>1. \A b \in Buffers : ~Holds(f, b)'
        BY <2>7, HoldsSizedThen
      <3> QED
        BY <2>7, <3>1, ContentIsThen DEF ContentShape
    <2>10. \A i : i # f => Alike(i)
      BY <2>2, <2>3, OthersAlike
    <2>11. StoreFiles' = FilesWith(f, loc.name, Blank)
      BY <2>5, <2>7, <2>8, <2>9, <2>10, FileAdded
    <2>12. Store!Opens /\ Store!NewHandle(f)
      BY <1>1, <2>3, <2>4, OpenedIs
    <2>13. /\ StoreCall.arg \notin Store!OpenNames /\ Store!Named(StoreCall.arg) = {}
           /\ StoreCall.arg = loc.name
      BY <1>1, Opening, NamesOpen, NamedIs
    <2>14. Store!OpenMakes
      BY <2>4, <2>5, <2>6, <2>11, <2>12, <2>13, FilesAre DEF Store!OpenMakes, FilesWith
    <2> QED
      BY <2>14 DEF Maps, Store!Next
  <1> QED
    BY <1>2, <1>3

-----------------------------------------------------------------------------
(* Calls on a descriptor *)

LEMMA Closes ==
  ASSUME TypeOK, TypeOK', NEW FD, CloseFile(FD)
  PROVE  Store!Close
  <1>1. pc = "idle" /\ LL # <<>> /\ LL' = Tail(LL) /\ Return(0) /\ currentFD' = currentFD
    BY DEF CloseFile, CloseHead, Served
  <1> QED
    BY <1>1, CallNone, HeadIs, HandlesTail, Succeeds, StorageSame DEF Store!Close, CloseFile

LEMMA Moves ==
  ASSUME TypeOK, TypeOK', LL # <<>>, NEW x, SetOffset(x)
  PROVE  Store!SetOffset(x)
  BY HandlesMoved DEF Store!SetOffset

LEMMA Seeks ==
  ASSUME TypeOK, TypeOK', NEW FD, NEW x \in Offsets, Seek(FD, x)
  PROVE  Store!Seek
  <1>1. /\ pc = "idle" /\ LL # <<>> /\ SetOffset(x) /\ Return(0)
        /\ UNCHANGED storage /\ currentFD' = currentFD
    BY DEF Seek, Served
  <1>2. Store!SetOffset(x)
    BY <1>1, Moves
  <1> QED
    BY <1>1, <1>2, CallNone, HeadIs, Succeeds, StorageSame DEF Store!Seek

LEMMA QuietMaps ==
  ASSUME \/ Unmount \/ Refused \/ ListMissing
         \/ \E FD : GetTimeStamp(FD) \/ IndexHit(FD) \/ DeleteFileDies(FD)
  PROVE  Store!NoEffect \/ Store!Crash
  <1>1. CASE ListMissing \/ \E FD : DeleteFileDies(FD)
    BY <1>1, Dies DEF ListMissing, DeleteFileDies
  <1>2. CASE Unmount
    <2>1. pc = "idle" /\ UNCHANGED storage /\ LL' = LL /\ currentFD' = currentFD
          /\ (Return(0) \/ Return(TFS_ERROR_DISK_OPEN))
      BY <1>2 DEF Unmount
    <2> QED
      BY <2>1, Codes, DoesNothing
  <1>3. CASE Refused
    <2>1. pc = "idle" /\ UNCHANGED storage /\ LL' = LL /\ currentFD' = currentFD
          /\ (Return(TFS_ERROR_INVALID_PARAMETER) \/ Return(TFS_ERROR_INVALID_FD))
      BY <1>3 DEF Refused, session
    <2> QED
      BY <2>1, Codes, DoesNothing
  <1>4. ASSUME NEW FD, GetTimeStamp(FD)
        PROVE  Store!NoEffect
    <2>1. pc = "idle" /\ UNCHANGED storage /\ LL' = LL /\ currentFD' = currentFD
          /\ (Return(0) \/ Return(TFS_ERROR_DISK_READ))
      BY <1>4 DEF GetTimeStamp, Served, session
    <2> QED
      BY <2>1, Codes, DoesNothing
  <1>5. ASSUME NEW FD, IndexHit(FD)
        PROVE  Store!NoEffect \/ Store!Crash
    <2>1. CASE Die
      BY <2>1, Dies
    <2>2. CASE ~Die
      <3>1. pc = "idle" /\ UNCHANGED storage /\ LL' = LL /\ currentFD' = currentFD
            /\ (Return(0) \/ Return(TFS_ERROR_BAD_ALLOC))
        BY <1>5, <2>2 DEF IndexHit, session
      <3> QED
        BY <3>1, Codes, DoesNothing
    <2> QED
      BY <2>1, <2>2
  <1> QED
    BY <1>1, <1>2, <1>3, <1>4, <1>5

LEMMA DeleteBegins ==
  ASSUME TypeOK, NEW FD, DeleteFile(FD)
  PROVE  Store!DeleteBegins \/ Store!NoEffect
  <1>1. /\ pc = "idle" /\ LL # <<>> /\ UNCHANGED storage
        /\ LL' = LL /\ currentFD' = currentFD
    BY DEF DeleteFile, Served, session
  <1>2. CASE Return(TFS_ERROR_DISK_READ)
    BY <1>1, <1>2, Codes, DoesNothing
  <1>3. CASE ~Return(TFS_ERROR_DISK_READ)
    <2>1. pc' = "deleteBlock" /\ loc'.then = "none" /\ ret' = Store!NoRet
      BY <1>3 DEF DeleteFile, Call, NoCall, NoRet, Store!NoRet
    <2>2. StoreCall' = [op |-> "delete", arg |-> None]
      BY <2>1, CallIsThen DEF CallShape
    <2> QED
      BY <1>1, <2>1, <2>2, CallNone, HeadIs, HandlesSame, StorageSame
         DEF Store!DeleteBegins, Store!Begin
  <1> QED
    BY <1>2, <1>3

LEMMA ReadBegins ==
  ASSUME TypeOK, NEW FD, ReadByte(FD)
  PROVE  Store!ReadBegins \/ Store!NoEffect
  <1>1. /\ pc = "idle" /\ LL # <<>> /\ UNCHANGED storage
        /\ LL' = LL /\ currentFD' = currentFD
    BY DEF ReadByte, Served, session
  <1>2. CASE Return(TFS_ERROR_DISK_READ) \/ Return(TFS_ERROR_BAD_ALLOC)
    BY <1>1, <1>2, Codes, DoesNothing
  <1>3. CASE ~(Return(TFS_ERROR_DISK_READ) \/ Return(TFS_ERROR_BAD_ALLOC))
    <2>1. pc' = "readWalk" /\ loc'.then = "none" /\ ret' = Store!NoRet
      BY <1>3 DEF ReadByte, Call, NoCall, NoRet, Store!NoRet
    <2>2. StoreCall' = [op |-> "read", arg |-> None]
      BY <2>1, CallIsThen DEF CallShape
    <2> QED
      BY <1>1, <2>1, <2>2, CallNone, HeadIs, HandlesSame, StorageSame
         DEF Store!ReadBegins, Store!Begin
  <1> QED
    BY <1>2, <1>3

(* The inode of the head is on the disk, and its own. *)
LEMMA HeadFile ==
  ASSUME TypeOK, OwnersInv, LL # <<>>, Readable(fte.inodeIdx), pc # "deleteSuper"
  PROVE  /\ HasFS /\ fte.inodeIdx \in OnDisk /\ fte.inodeIdx \in OpenInodes
         /\ \E o, r \in [Indices -> Int], h \in Nat :
              Owned(o, r, h) /\ o[fte.inodeIdx] = fte.inodeIdx
  <1>1. HasFS /\ fte.inodeIdx \in OnDisk /\ fte.inodeIdx \in OpenInodes
    BY InvParts, HeadOpen
  <1>2. PICK o \in [Indices -> Int], r \in [Indices -> Int], h \in Nat : Owned(o, r, h)
    BY <1>1 DEF OwnersInv
  <1> QED
    BY <1>1, <1>2, HeadOwned

(* An inode that changes neither its size nor its successor holds what it  *)
(* did.                                                                    *)
LEMMA HeadContent ==
  ASSUME Careful, TypeOK, TypeOK',
         NEW o \in [Indices -> Int], NEW r \in [Indices -> Int], NEW h, Owned(o, r, h),
         NEW f \in OnDisk, o[f] = f, OnDisk' = OnDisk,
         \A j \in OnDisk : j # f => disk'[j] = disk[j],
         disk'[f].nextIdx = disk[f].nextIdx, FileSize(disk'[f]) = FileSize(disk[f])
  PROVE  ContentOf(f)' = ContentOf(f)
  <1>1. r[f] \in Nat /\ r[f] >= 1 /\ Begins(o, r, f, f, r[f])
    BY FileOwned DEF Owned, TypeOK
  <1>2. f \notin {Nobody, Held} /\ NBlocks \in Nat
    BY OnDiskFacts DEF Nobody, Held
  <1>3. \A k \in 0..NBlocks : Begins(o, r, f, Trail(f)[k], IF k < r[f] THEN r[f] - k ELSE 0)
    BY <1>1, <1>2, TrailOwned DEF Owned
  <1>4. \A k \in 1..NBlocks : Trail(f)[k] \in OnDisk => Trail(f)[k] # f
    <2> SUFFICES ASSUME NEW k \in 1..NBlocks, Trail(f)[k] \in OnDisk PROVE Trail(f)[k] # f
      OBVIOUS
    <2>1. k \in 0..NBlocks /\ k >= 1
      BY <1>2
    <2>2. Begins(o, r, f, Trail(f)[k], IF k < r[f] THEN r[f] - k ELSE 0)
      BY <1>3, <2>1
    <2>3. k < r[f] /\ r[Trail(f)[k]] = r[f] - k
      BY <1>1, <2>1, <2>2 DEF Begins
    <2> QED
      BY <1>1, <2>1, <2>3
  <1>5. \A x \in OnDisk : disk'[x].nextIdx = disk[x].nextIdx
    OBVIOUS
  <1>6. Trail(f)' = Trail(f)
    BY <1>5, TrailKept
  <1>7. \A k \in 1..NBlocks : Trail(f)[k] \in OnDisk => disk'[Trail(f)[k]] = disk[Trail(f)[k]]
    BY <1>4
  <1>8. ASSUME NEW b \in Buffers PROVE Holds(f, b)' <=> Holds(f, b)
    BY <1>6, <1>7, HoldsKept
  <1> QED
    BY <1>8, ContentSame

LEMMA ContentsThen ==
  ASSUME Careful
  PROVE  \A i : ContentOf(i)' \in Store!Contents
  BY ContentIsThen DEF ContentShape, Store!Contents

LEMMA WriteBegins ==
  ASSUME Careful, TypeOK, TypeOK', OwnersInv, NEW FD, NEW b \in Buffers, WriteFile(FD, b)
  PROVE  Store!WriteBegins \/ (Store!NoEffect /\ ~Readable(fte.inodeIdx))
  <1>1. pc = "idle" /\ LL # <<>> /\ LL' = LL /\ currentFD' = currentFD
    BY DEF WriteFile, Served, session
  <1>2. CASE ~Readable(fte.inodeIdx)
    <2>1. Return(TFS_ERROR_DISK_READ) /\ UNCHANGED storage
      BY <1>2 DEF WriteFile
    <2> QED
      BY <1>1, <1>2, <2>1, Codes, DoesNothing
  <1>3. CASE Readable(fte.inodeIdx)
    <2>1. /\ pc' # "idle" /\ loc'.then = "tfs_writeFile" /\ loc'.buf = b
          /\ ret' = Store!NoRet
      BY <1>3 DEF WriteFile, Call, NoCall, NoRet, Store!NoRet
    <2>2. Store!Begin("write", b)
      BY <2>1, CallIsThen DEF CallShape, Store!Begin
    <2>3. ASSUME StoreFiles' = StoreFiles \/ (~Store!Adrift /\ Store!SetContent(Blank))
          PROVE  Store!WriteBegins
      BY <1>1, <2>2, <2>3, CallNone, HeadIs, HandlesSame DEF Store!WriteBegins
    <2>4. CASE UNCHANGED storage
      BY <2>3, <2>4, StorageSame
    <2>5. ASSUME NEW c, WriteBlock(fte.inodeIdx, c), c.nextIdx = 0,
                 c.type = disk[fte.inodeIdx].type,
                 NameOf(c) = NameOf(disk[fte.inodeIdx]), FileSize(c) = 0
          PROVE  Store!WriteBegins
      <3>1. fte.inodeIdx \in OnDisk /\ pc # "deleteSuper"
        BY <1>1, <1>3, HeadFile
      <3> PICK f \in OnDisk : f = fte.inodeIdx
        BY <3>1
      <3>2. PICK o \in [Indices -> Int], r \in [Indices -> Int], h \in Nat :
              Owned(o, r, h) /\ o[f] = f
        BY <1>1, <1>3, HeadFile
      <3>3. Alters(o, f) /\ disk'[f] = c
        BY <1>1, <1>3, <2>5, <3>1, <3>2, HeadAlters
      <3>4. \A i : i # f => Alike(i)
        BY <3>2, <3>3, OthersAlike
      <3>5. f \in StoredFiles' <=> f \in StoredFiles
        BY <2>5, <3>3 DEF Alters, StoredFiles, Inodes
      <3>6. ContentOf(f)' = Blank
        <4>1. \A d \in Buffers : ~Holds(f, d)'
          BY <2>5, <3>3, HoldsSizedThen
        <4> QED
          BY <2>5, <3>3, <4>1, ContentIsThen DEF ContentShape
      <3>7. CASE f \in StoredFiles
        <4>1. StoreFiles' = FilesFilled(f, Blank)
          BY <2>5, <3>3, <3>4, <3>5, <3>6, <3>7, FileFilled
        <4>2. Store!Served.file = f /\ ~Store!Adrift
          BY <1>1, <3>7, HeadIs
        <4> QED
          BY <2>3, <4>1, <4>2 DEF FilesFilled, Store!SetContent
      <3>8. CASE f \notin StoredFiles
        BY <2>3, <3>4, <3>5, <3>8, NoFile
      <3> QED
        BY <3>7, <3>8
    <2> QED
      BY <1>3, <2>4, <2>5, CutIs
  <1> QED
    BY <1>2, <1>3

(* A file half deleted comes back. *)
LEMMA Revived ==
  ASSUME MayFail, TypeOK, LL # <<>>, NEW f \in OnDisk, f = fte.inodeIdx, f \notin StoredFiles,
         NEW n \in NewNames, NEW c \in Store!Contents, StoreFiles' = FilesWith(f, n, c),
         LL' = LL, currentFD' = currentFD,
         \/ StoreCall = None /\ Store!Succeed
         \/ Store!Running("write") /\ StoreCall' = StoreCall /\ ret' = ret
  PROVE  Store!Revives
  <1>1. f \in Indices /\ f \in 1..(NBlocks - 1)
    BY OnDiskFacts DEF Indices
  <1>2. Store!Served.file = f /\ Store!Adrift /\ StoreHandles # <<>>
    BY <1>1, HeadIs
  <1> QED
    BY <1>1, <1>2, HandlesSame DEF Store!Revives, FilesWith

LEMMA RenameMaps ==
  ASSUME Careful, EmptyName \notin NewNames, TypeOK, TypeOK', OwnersInv,
         NEW FD, NEW n \in NewNames, Rename(FD, n)
  PROVE  IF fte.inodeIdx \in StoredFiles
           THEN Store!Rename \/ (Store!NoEffect /\ ~Readable(fte.inodeIdx))
           ELSE Store!NoEffect \/ (MayFail => Store!Revives)
  <1>1. pc = "idle" /\ LL # <<>> /\ LL' = LL /\ currentFD' = currentFD
    BY DEF Rename, Served, session
  <1>2. CASE ~Readable(fte.inodeIdx)
    <2>1. Return(TFS_ERROR_DISK_READ) /\ UNCHANGED storage
      BY <1>2 DEF Rename
    <2> QED
      BY <1>1, <1>2, <2>1, Codes, DoesNothing
  <1>3. CASE Readable(fte.inodeIdx)
    <2>0. Return(0)
      BY <1>3 DEF Rename
    <2>1. PICK c : /\ WriteBlock(fte.inodeIdx, c)
                   /\ c.nextIdx = disk[fte.inodeIdx].nextIdx
                   /\ c.type = disk[fte.inodeIdx].type
                   /\ NameOf(c) = n /\ FileSize(c) = FileSize(disk[fte.inodeIdx])
      <3>1. ASSUME UNCHANGED storage, ~Readable(fte.inodeIdx) PROVE FALSE
        BY <1>3, <3>1
      <3> QED
        BY <3>1, NewNameIs
    <2>2. fte.inodeIdx \in OnDisk /\ pc # "deleteSuper"
      BY <1>1, <1>3, HeadFile
    <2> PICK f \in OnDisk : f = fte.inodeIdx
      BY <2>2
    <2>3. PICK o \in [Indices -> Int], r \in [Indices -> Int], h \in Nat :
            Owned(o, r, h) /\ o[f] = f
      BY <1>1, <1>3, HeadFile
    <2>4. Alters(o, f) /\ disk'[f] = c
      BY <1>1, <1>3, <2>1, <2>2, <2>3, HeadAlters
    <2>5. \A i : i # f => Alike(i)
      BY <2>3, <2>4, OthersAlike
    <2>6. n # EmptyName /\ StoreCall = None /\ Store!Succeed
      BY <1>1, <2>0, CallNone, Succeeds
    <2>7. f \in StoredFiles' <=> disk[f].type = inode
      BY <2>1, <2>4, <2>6 DEF Alters, StoredFiles, Inodes
    <2>8. CASE f \in StoredFiles
      <3>1. f \in StoredFiles'
        BY <2>7, <2>8 DEF StoredFiles, Inodes
      <3>2. ContentOf(f)' = ContentOf(f)
        <4>1. f \in Indices /\ \A j \in OnDisk : j # f => disk'[j] = disk[j]
          BY <2>1, OnDiskFacts, Written
        <4> QED
          BY <2>1, <2>3, <2>4, <4>1, HeadContent DEF Alters
      <3>3. StoreFiles' = FilesNamed(f, n)
        BY <2>1, <2>4, <2>5, <2>8, <3>1, <3>2, FileRenamed
      <3>4. Store!Served.file = f /\ ~Store!Adrift /\ StoreHandles # <<>>
        BY <1>1, <2>8, HeadIs
      <3>5. Store!Rename
        BY <1>1, <2>6, <3>3, <3>4, HandlesSame DEF FilesNamed, Store!Rename
      <3> QED
        BY <2>8, <3>5
    <2>9. CASE f \notin StoredFiles /\ f \in StoredFiles'
      <3> DEFINE d == ContentOf(f)'
      <3>1. d \in Store!Contents
        BY ContentsThen
      <3>2. StoreFiles' = FilesWith(f, n, d)
        BY <2>1, <2>4, <2>5, <2>9, FileAdded
      <3> HIDE DEF d
      <3>3. MayFail => Store!Revives
        BY <1>1, <2>6, <2>9, <3>1, <3>2, Revived
      <3> QED
        BY <2>9, <3>3
    <2>10. CASE f \notin StoredFiles /\ f \notin StoredFiles'
      <3>1. StoreFiles' = StoreFiles
        BY <2>5, <2>10, NoFile
      <3>2. Store!NoEffect
        BY <1>1, <2>6, <3>1, HandlesSame DEF Store!NoEffect
      <3> QED
        BY <2>10, <3>2
    <2> QED
      BY <2>8, <2>9, <2>10
  <1> QED
    BY <1>2, <1>3

LEMMA ClientMaps ==
  ASSUME Careful, MayFail, EmptyName \notin NewNames, TypeOK, TypeOK', OwnersInv, Client
  PROVE  Maps
  <1>1. ASSUME NEW n \in Names, OpenFile(n) PROVE Maps
    BY <1>1, OpenBegins DEF Maps, Store!Next
  <1>2. ASSUME NEW FD, CloseFile(FD) PROVE Maps
    BY <1>2, Closes DEF Maps, Store!Next
  <1>3. ASSUME NEW FD, NEW x \in Offsets, Seek(FD, x) PROVE Maps
    BY <1>3, Seeks DEF Maps, Store!Next
  <1>4. ASSUME NEW FD, DeleteFile(FD) PROVE Maps
    BY <1>4, DeleteBegins DEF Maps, Store!Next
  <1>5. ASSUME NEW FD, ReadByte(FD) PROVE Maps
    BY <1>5, ReadBegins DEF Maps, Store!Next
  <1>6. ASSUME NEW FD, NEW b \in Buffers, WriteFile(FD, b) PROVE Maps
    BY <1>6, WriteBegins DEF Maps, Store!Next
  <1>7. ASSUME NEW FD, NEW n \in NewNames, Rename(FD, n) PROVE Maps
    BY <1>7, RenameMaps DEF Maps, Store!Next
  <1>8. ASSUME \/ Unmount \/ Refused \/ ListMissing
               \/ \E FD : GetTimeStamp(FD) \/ IndexHit(FD) \/ DeleteFileDies(FD)
        PROVE  Maps
    BY <1>8, QuietMaps DEF Maps, Store!Next
  <1>9. ClientMount => Maps
    BY MountBegins DEF Maps, Store!Next
  <1> QED
    BY <1>1, <1>2, <1>3, <1>4, <1>5, <1>6, <1>7, <1>8, <1>9 DEF Client

-----------------------------------------------------------------------------
(* Steps the store does not see *)

LEMMA SameCall ==
  ASSUME pc # "idle", pc' # "idle", loc'.then = loc.then,
         \/ loc.then \in {"tfs_openFile", "createFile"} /\ loc'.name = loc.name
         \/ loc.then = "tfs_writeFile" /\ loc'.buf = loc.buf
  PROVE  StoreCall' = StoreCall
  BY CallIs, CallIsThen DEF CallShape

(* A step on blocks the call holds alters no file. *)
LEMMA HeldFiles ==
  ASSUME Careful, TypeOK, TypeOK',
         NEW o \in [Indices -> Int], NEW r \in [Indices -> Int], NEW h, Owned(o, r, h),
         Alters(o, Held)
  PROVE  StoreFiles' = StoreFiles
  <1>1. \A i : i # Held => Alike(i)
    BY OthersAlike
  <1>2. Held \notin OnDisk /\ OnDisk' = OnDisk
    BY HeldNowhere DEF Alters
  <1>3. Held \notin StoredFiles /\ Held \notin StoredFiles'
    BY <1>2 DEF StoredFiles, Inodes
  <1> QED
    BY <1>1, <1>3, NoFile

LEMMA AllocMaps ==
  ASSUME Careful, TypeOK, TypeOK', CallOK, OwnersInv, AllocWalk \/ AllocSuper \/ AllocLast
  PROVE  Maps
  <1>1. /\ pc \in Allocating /\ loc.then \in {"createFile", "tfs_writeFile"}
        /\ pc' \in Allocating \cup {"createInode", "writeInode"}
        /\ loc'.then = loc.then /\ loc'.name = loc.name /\ loc'.buf = loc.buf
        /\ ret' = ret /\ UNCHANGED session
    BY AllocLeads
  <1>2. StoreCall' = StoreCall
    BY <1>1, SameCall DEF Allocating
  <1>3. StoreFiles' = StoreFiles
    <2>1. CASE AllocWalk
      BY <2>1, StorageSame DEF AllocWalk
    <2>2. CASE AllocSuper \/ AllocLast
      <3>1. HasFS
        BY <1>1 DEF OwnersInv, MakingOK, HasFS, Allocating
      <3>2. PICK o \in [Indices -> Int], r \in [Indices -> Int], h \in Nat : Owned(o, r, h)
        BY <3>1 DEF OwnersInv
      <3> QED
        BY <2>2, <3>2, AllocAlters, HeldFiles
    <2> QED
      BY <2>1, <2>2
  <1> QED
    BY <1>1, <1>2, <1>3, Unseen DEF session

LEMMA TruncMaps ==
  ASSUME Careful, TypeOK, TypeOK', CallOK, OwnersInv, Truncs \/ WriteAlloc
  PROVE  Maps
  <1>1. /\ pc \in Writing /\ pc' # "idle" /\ loc.then = "tfs_writeFile"
        /\ loc'.then = loc.then /\ loc'.buf = loc.buf
        /\ ret' = ret /\ UNCHANGED session
    BY TruncLeads, WriteAllocLeads DEF Writing
  <1>2. StoreCall' = StoreCall
    BY <1>1, SameCall DEF Writing
  <1>3. StoreFiles' = StoreFiles
    <2>1. CASE TruncBlockFails \/ WriteAlloc
      BY <2>1, StorageSame DEF TruncBlockFails, WriteAlloc
    <2>2. CASE TruncBlock \/ TruncLast \/ TruncSuper
      <3>1. HasFS
        BY <1>1, WorkOwners DEF Working, Writing
      <3>2. PICK o \in [Indices -> Int], r \in [Indices -> Int], h \in Nat : Owned(o, r, h)
        BY <3>1 DEF OwnersInv
      <3> QED
        BY <2>2, <3>2, TruncAlters, HeldFiles
    <2> QED
      BY <2>1, <2>2 DEF Truncs
  <1> QED
    BY <1>1, <1>2, <1>3, Unseen DEF session

-----------------------------------------------------------------------------
(* Deleting *)

LEMMA Deleting ==
  ASSUME pc \in {"deleteBlock", "deleteLast", "deleteSuper"}, loc.then = "none"
  PROVE  Store!Running("delete") /\ StoreCall = [op |-> "delete", arg |-> None]
  BY CallIs, CallRuns DEF CallShape, Store!Running

LEMMA DeleteMaps ==
  ASSUME Careful, TypeOK, TypeOK', CallOK, OwnersInv, StoreInv, DeleteBlock \/ DeleteLast
  PROVE  Maps
  <1>1. /\ pc \in {"deleteBlock", "deleteLast"}
        /\ pc' \in {"deleteBlock", "deleteLast", "deleteSuper"}
        /\ loc'.then = loc.then /\ ret' = ret /\ LL' = LL /\ currentFD' = currentFD
    BY DeleteLeads DEF session
  <1>2. loc.then = "none"
    BY <1>1 DEF StoreInv
  <1>3. Store!Running("delete") /\ StoreCall' = StoreCall
    BY <1>1, <1>2, Deleting, CallIsThen DEF CallShape
  <1>4. LL # <<>> /\ HasFS /\ fte.inodeIdx \in OnDisk
    BY <1>1, WorkOwners DEF Working
  <1> PICK f \in OnDisk : f = fte.inodeIdx
    BY <1>4
  <1>5. PICK o \in [Indices -> Int], r \in [Indices -> Int], h \in Nat : Owned(o, r, h)
    BY <1>4 DEF OwnersInv
  <1>6. /\ Alters(o, f)
        /\ IsErased(f) \/ disk'[f].type = FB
        /\ disk'[f] = disk[f] \/ disk'[f].type = FB
    BY <1>5, DeleteAlters
  <1>7. \A i : i # f => Alike(i)
    BY <1>5, <1>6, OthersAlike
  <1>8. f \notin StoredFiles'
    BY <1>6 DEF StoredFiles, Inodes, IsErased, FB, inode
  <1>9. CASE f \in StoredFiles
    <2>1. StoreFiles' = [g \in DOMAIN StoreFiles \ {f} |-> StoreFiles[g]]
      BY <1>7, <1>8, <1>9, FileGone
    <2>2. Store!Served.file = f /\ ~Store!Adrift
      BY <1>4, <1>9, HeadIs
    <2>3. Store!DeleteHappens
      BY <1>1, <1>3, <2>1, <2>2, HandlesSame DEF Store!DeleteHappens, Store!Without
    <2> QED
      BY <2>3 DEF Maps, Store!Next
  <1>10. CASE f \notin StoredFiles
    BY <1>1, <1>3, <1>7, <1>8, <1>10, NoFile, Unseen
  <1> QED
    BY <1>9, <1>10

(* A file whose chain is broken off is gone when its deletion finds out. *)
LEMMA DeleteFails ==
  ASSUME MayFail, TypeOK, CallOK, OwnersInv, StoreInv, DeleteBlockFails
  PROVE  Store!DeleteFails
  <1>1. pc = "deleteBlock" /\ LL # <<>> /\ HasFS /\ fte.inodeIdx \in OnDisk
        /\ fte.inodeIdx \in OpenInodes
    BY WorkOwners DEF Working, DeleteBlockFails
  <1> PICK f \in OnDisk : f = fte.inodeIdx
    BY <1>1
  <1>2. PICK o \in [Indices -> Int], r \in [Indices -> Int], h \in Nat : Owned(o, r, h)
    BY <1>1 DEF OwnersInv
  <1>3. o[f] = f /\ r[f] >= 1 /\ r[f] \in Int
    <2>1. o[f] = f
      BY <1>1, <1>2 DEF Owned, FilesOwned
    <2> QED
      BY <1>2, <2>1, OnDiskFacts, FileOwned DEF Owned
  <1>4. loc.cur \notin OnDisk
    <2>1. diskFd = Mounted /\ size \in Int
      BY <1>1, WorkOwners DEF Working, TypeOK
    <2> QED
      BY <2>1 DEF DeleteBlockFails, Readable, OnDisk
  <1>5. r[f] - loc.count = 0
    BY <1>1, <1>2, <1>4 DEF Owned, Giving, Begins
  <1>6. IsErased(f)
    BY <1>1, <1>2, <1>3, <1>5 DEF Owned, Giving, WipedTo
  <1>7. f \notin StoredFiles
    BY <1>6 DEF StoredFiles, Inodes, IsErased, FB, inode
  <1>8. Store!Running("delete") /\ Store!Fail
    BY <1>1, Deleting, Codes, Fails DEF StoreInv, DeleteBlockFails
  <1> QED
    BY <1>1, <1>7, <1>8, HeadIs, HandlesSame, StorageSame
       DEF Store!DeleteFails, DeleteBlockFails, session

LEMMA DeleteEnds ==
  ASSUME Careful, TypeOK, TypeOK', CallOK, OwnersInv, StoreInv, DeleteSuper
  PROVE  Store!DeleteReturns
  <1>1. pc = "deleteSuper" /\ LL # <<>> /\ HasFS /\ fte.inodeIdx \in OnDisk
    BY WorkOwners DEF Working, DeleteSuper
  <1> PICK f \in OnDisk : f = fte.inodeIdx
    BY <1>1
  <1>2. PICK o \in [Indices -> Int], r \in [Indices -> Int], h \in Nat : Owned(o, r, h)
    BY <1>1 DEF OwnersInv
  <1>3. o[f] = Held /\ r[f] > 0
    BY <1>1, <1>2 DEF Owned, Giving, Begins, StoreInv
  <1>4. f \notin StoredFiles
    BY <1>1, <1>2, <1>3 DEF Owned, Giving, WipedTo, StoredFiles, Inodes, IsErased, FB, inode
  <1>5. StoreFiles' = StoreFiles
    BY <1>2, TruncAlters, HeldFiles
  <1>6. Store!Running("delete")
    BY <1>1, Deleting DEF StoreInv
  <1>7. LL' = Tail(LL) /\ currentFD' = currentFD /\ Return(0)
    BY DEF DeleteSuper, CloseHead
  <1> QED
    BY <1>1, <1>4, <1>5, <1>6, <1>7, HeadIs, HandlesTail, Succeeds DEF Store!DeleteReturns

-----------------------------------------------------------------------------
(* Reading *)

(* The content of a file that is stored, as the store has it. *)
LEMMA ContentServed ==
  ASSUME TypeOK, LL # <<>>, NEW f, f = fte.inodeIdx, f \in StoredFiles
  PROVE  Store!Content = ContentOf(f) /\ Store!Served.file = f /\ ~Store!Adrift
  <1>1. Store!Served.file = f /\ ~Store!Adrift
    BY HeadIs
  <1> QED
    BY <1>1, FilesAre DEF Store!Content

(* The last step of tfs_readByte. *)
ReadStops ==
  /\ \/ ReadWalk
     \/ ReadWalkFails
  /\ pc' = "idle"

LEMMA ReadStopsThus ==
  ASSUME TypeOK, ReadStops
  PROVE  /\ UNCHANGED storage /\ currentFD' = currentFD /\ pc' = "idle"
         /\ LL' = LL \/ SetOffset(fte.offset + 1)
         /\ ret'.code = 0 /\ ret'.byte # Nul => SetOffset(fte.offset + 1)
  <1>1. CASE ReadWalkFails
    BY <1>1 DEF ReadStops, ReadWalkFails, session, Return, ReturnByte, TFS_ERROR_DISK_READ
  <1>2. CASE ReadWalk
    <2>1. ~(loc.count + 1 < loc.want)
      BY <1>2 DEF ReadStops, ReadWalk, Goto
    <2> QED
      BY <1>2, <2>1 DEF ReadStops, ReadWalk, ReturnByte
  <1> QED
    BY <1>1, <1>2 DEF ReadStops

LEMMA ReadStopsMap ==
  ASSUME Careful, MayFail, TypeOK, TypeOK', CallOK, OwnersInv, ReadInv, StoreInv,
         [Next]_vars, ReadStops
  PROVE  Maps
  <1>1. /\ pc = "readWalk" /\ loc.then = "none" /\ LL # <<>> /\ pc' = "idle"
        /\ fte.offset \in Nat
    BY WorkFile DEF ReadStops, ReadWalk, ReadWalkFails, StoreInv, Working, FTE
  <1>2. /\ Store!Running("read") /\ Store!Reading /\ StoreCall' = None
        /\ StoreHandles # <<>> /\ Store!Served.offset = fte.offset
    BY <1>1, CallIs, CallNone, CallRuns, HeadIs DEF CallShape, Store!Running, Store!Reading
  <1>3. /\ StoreFiles' = StoreFiles /\ currentFD' = currentFD
        /\ StoreHandles' = StoreHandles \/ Store!SetOffset(Store!Served.offset + 1)
        /\ LL' # <<>>
    <2>1. /\ UNCHANGED storage /\ currentFD' = currentFD
          /\ LL' = LL \/ SetOffset(fte.offset + 1)
      BY ReadStopsThus
    <2>2. SetOffset(fte.offset + 1) => LL' # <<>> /\ Store!SetOffset(fte.offset + 1)
      <3> SUFFICES ASSUME SetOffset(fte.offset + 1)
                   PROVE  LL' # <<>> /\ Store!SetOffset(fte.offset + 1)
        OBVIOUS
      <3>1. DOMAIN LL' = DOMAIN LL /\ 1 \in DOMAIN LL
        BY <1>1, OpenSame, ListKept DEF TypeOK
      <3> QED
        BY <1>1, <3>1, Moves
    <2> QED
      BY <1>1, <1>2, <2>1, <2>2, StorageSame, HandlesSame
  <1> PICK f : f = fte.inodeIdx
    OBVIOUS
  <1>4. CASE f \notin StoredFiles
    <2>1. Store!Adrift
      BY <1>1, <1>4, HeadIs
    <2>2. Store!Astray
      BY <1>2, <1>3, <2>1 DEF Store!Astray
    <2> QED
      BY <2>2 DEF Maps, Store!Next
  <1>5. ASSUME f \in StoredFiles, NEW b \in Buffers, Holds(f, b)
        PROVE  Maps
    <2>1. ret' = [code |-> 0, byte |-> <<b, fte.offset>>]
      BY <1>1, <1>3, <1>5, ReadGives
    <2>2. <<b, fte.offset>> # Nul
      BY <1>1, ClientAssumption
    <2>3. Store!SetOffset(Store!Served.offset + 1)
      BY <1>1, <1>2, <2>1, <2>2, ReadStopsThus, Moves
    <2>4. fte.offset < Length[b]
      BY <1>1, <1>5 DEF Holds, ReadInv
    <2>5. Store!Content = b /\ ~Store!Adrift
      BY <1>1, <1>5, ContentServed, ContentIs DEF ContentShape
    <2>6. Store!ReadByte
      BY <1>2, <1>3, <2>1, <2>3, <2>4, <2>5 DEF Store!ReadByte, Store!Answer
    <2> QED
      BY <2>6 DEF Maps, Store!Next
  <1>6. CASE f \in StoredFiles /\ \A b \in Buffers : ~Holds(f, b)
    <2>1. FileSize(disk[f]) # 0
      BY <1>1 DEF ReadInv
    <2>2. Store!Content = Torn /\ ~Store!Adrift
      BY <1>1, <1>6, <2>1, ContentServed, ContentIs DEF ContentShape
    <2>3. Store!ReadTorn
      BY <1>2, <1>3, <2>2 DEF Store!ReadTorn
    <2> QED
      BY <2>3 DEF Maps, Store!Next
  <1> QED
    BY <1>4, <1>5, <1>6

LEMMA ReadMaps ==
  ASSUME Careful, MayFail, TypeOK, TypeOK', CallOK, OwnersInv, ReadInv, StoreInv,
         [Next]_vars, ReadWalk \/ ReadWalkFails
  PROVE  Maps
  <1>1. CASE pc' = "idle"
    BY <1>1, ReadStopsMap DEF ReadStops
  <1>2. CASE pc' # "idle"
    <2>1. ReadWalk
      BY <1>2, EndLeads DEF Home
    <2>2. /\ pc = "readWalk" /\ pc' = "readWalk" /\ loc'.then = loc.then /\ loc.then = "none"
          /\ ret' = ret /\ UNCHANGED <<storage, session>>
      BY <1>2, <2>1, ReadLeads DEF Home, ReadWalk, StoreInv
    <2>3. StoreCall' = StoreCall
      BY <2>2, CallIs, CallIsThen DEF CallShape
    <2> QED
      BY <2>2, <2>3, StorageSame, Unseen DEF session
  <1> QED
    BY <1>1, <1>2

-----------------------------------------------------------------------------
(* Writing *)

LEMMA WritingCall ==
  ASSUME pc # "idle", loc.then = "tfs_writeFile", loc.buf \in Buffers
  PROVE  /\ Store!Running("write") /\ StoreCall = [op |-> "write", arg |-> loc.buf]
         /\ StoreCall.arg = loc.buf
  BY CallIs, CallRuns DEF CallShape, Store!Running

(* A file that holds a buffer has a first block, with the buffer's first   *)
(* chunk.                                                                  *)
LEMMA FirstBlock ==
  ASSUME Careful, size \in -1..NBlocks, NEW i, NEW b \in Buffers, Holds(i, b)
  PROVE  disk[i].nextIdx \in OnDisk /\ disk[disk[i].nextIdx].body = DataBody(b, 0)
  <1>1. 0 < Length[b] /\ 0 \in Nat /\ 0 + 1 = 1 /\ 1 - 1 = 0
    BY ClientAssumption DEF Careful
  <1>2. /\ BlocksFor(1) \in Nat
        /\ Trail(i)[1] = disk[i].nextIdx
        /\ \A k \in 1..BlocksFor(1) :
             Trail(i)[k] \in OnDisk /\ disk[Trail(i)[k]].body = DataBody(b, k - 1)
    BY <1>1, HoldsReach
  <1>3. 1 \in 1..BlocksFor(1)
    BY <1>2, BlocksForPositive
  <1> QED
    BY <1>1, <1>2, <1>3

LEMMA FirstBlockThen ==
  ASSUME Careful
  PROVE  (\A i, b : size \in -1..NBlocks /\ b \in Buffers /\ Holds(i, b) =>
            disk[i].nextIdx \in OnDisk /\ disk[disk[i].nextIdx].body = DataBody(b, 0))'
  <1>1. \A i, b : size \in -1..NBlocks /\ b \in Buffers /\ Holds(i, b) =>
          disk[i].nextIdx \in OnDisk /\ disk[disk[i].nextIdx].body = DataBody(b, 0)
    BY FirstBlock
  <1> QED
    BY <1>1, PTL

(* A file as long as its size, the last block of which is empty. *)
Unfinished(o, r, i) ==
  /\ Linked(o, r) /\ i \in OnDisk /\ o[i] = i
  /\ r[i] = BlocksFor(FileSize(disk[i])) + 1
  /\ \A j \in OnDisk : o[j] = i /\ r[j] = 1 => disk[j].body = ZeroBody

LEMMA UnfinishedTorn ==
  ASSUME Careful, size \in -1..NBlocks,
         NEW o \in [Indices -> Int], NEW r \in [Indices -> Int], NEW i, Unfinished(o, r, i),
         NEW b \in Buffers, Holds(i, b)
  PROVE  FALSE
  <1>1. Length[b] \in Nat /\ Length[b] > 0 /\ NBlocks \in Nat
    BY ClientAssumption, SizesAssumption DEF Careful
  <1> PICK m \in Nat : m = BlocksFor(Length[b]) /\ m > 0
    BY <1>1, BlocksForPositive
  <1>2. m < NBlocks
    BY HoldsFits
  <1>3. i \in OnDisk /\ o[i] = i /\ r[i] = m + 1 /\ Linked(o, r)
    BY DEF Unfinished, Holds
  <1>4. i \notin {Nobody, Held} /\ Begins(o, r, i, i, m + 1) /\ m + 1 \in Nat
    BY <1>3 DEF Begins, Nobody, Held, OnDisk
  <1>5. m \in 0..NBlocks /\ m < m + 1 /\ (m + 1) - m = 1
    BY <1>1, <1>2
  <1>6. Begins(o, r, i, Trail(i)[m], 1)
    BY <1>3, <1>4, <1>5, TrailOwned
  <1>7. disk[Trail(i)[m]].body = ZeroBody
    BY <1>6 DEF Unfinished, Begins
  <1>8. disk[Trail(i)[m]].body = DataBody(b, m - 1)
    BY <1>1 DEF Holds
  <1> QED
    BY <1>7, <1>8 DEF DataBody, ZeroBody

LEMMA UnfinishedThen ==
  ASSUME Careful
  PROVE  (\A o, r \in [Indices -> Int] : \A i, b :
            size \in -1..NBlocks /\ Unfinished(o, r, i) /\ b \in Buffers => ~Holds(i, b))'
  <1>1. \A o, r \in [Indices -> Int] : \A i, b :
          size \in -1..NBlocks /\ Unfinished(o, r, i) /\ b \in Buffers => ~Holds(i, b)
    BY UnfinishedTorn
  <1> QED
    BY <1>1, PTL

(* What tfs_writeFile's update of the inode makes of the file: its new     *)
(* size, its old name, and new blocks that are empty.                      *)
LEMMA InodeTorn ==
  ASSUME Careful, TypeOK, TypeOK', CallOK, OwnersInv, StoreInv, WriteInode,
         NEW f, f = fte.inodeIdx
  PROVE  /\ pc' = "writeData" /\ loc'.then = loc.then /\ loc'.buf = loc.buf
         /\ ret' = ret /\ LL' = LL /\ currentFD' = currentFD
         /\ disk'[f].type = inode /\ NameOf(disk'[f]) = NameOf(disk[f])
         /\ ContentOf(f)' = Torn
         /\ \A i : i # f => Alike(i)
         /\ OnDisk' = OnDisk
  <1>1. /\ pc = "writeInode" /\ LL # <<>> /\ HasFS /\ f \in OnDisk
        /\ Readable(fte.inodeIdx) /\ loc.inb = disk[fte.inodeIdx] /\ loc.buf \in Buffers
    BY WorkOwners DEF Working, Writing, WriteInode, StoreInv, InodeInMemory, CallOK
  <1>2. PICK o \in [Indices -> Int], r \in [Indices -> Int], h \in Nat : Owned(o, r, h)
    BY <1>1 DEF OwnersInv
  <1>3. /\ disk[f].body.kind # "super" /\ loc.want > 0
        /\ WipedTo(o, r, Held, 0)
        /\ \/ loc.cur = TFS_ERROR_INVALID_PARAMETER
           \/ Begins(o, r, Held, loc.cur, loc.want)
    BY <1>1, <1>2 DEF Owned, Storing, Taking, Wanting
  <1>4. Length[loc.buf] \in Nat /\ Length[loc.buf] > 0
    BY <1>1, ClientAssumption DEF Careful
  <1> DEFINE c == [type |-> inode, nextIdx |-> ToIdx(loc.cur),
                   body |-> SetSize(loc.inb, Length[loc.buf]).body]
  <1>5. WriteBlock(f, c) /\ c.type = inode
    BY DEF WriteInode
  <1>6. NameOf(c) = NameOf(disk[f]) /\ FileSize(c) = Length[loc.buf]
    <2>1. disk[f] \in Block
      BY <1>1, OnDiskFacts
    <2>2. c.body = InodeBody(NameOf(disk[f]), Length[loc.buf])
      BY <1>1, <1>3, <2>1 DEF SetSize, Block
    <2> QED
      BY <2>2, InodeReads
  <1>7. /\ loc.cur \in 0..255 => c.nextIdx = loc.cur
        /\ loc.cur = TFS_ERROR_INVALID_PARAMETER => c.nextIdx = 243
    BY LocalFields DEF ToIdx, TFS_ERROR_INVALID_PARAMETER
  <1> HIDE DEF c
  <1>8. Alters(o, f) /\ disk'[f] = c
    BY <1>1, <1>2, <1>5, HeadAlters
  <1>9. \A j \in OnDisk : j # f => disk'[j] = disk[j]
    BY <1>1, <1>5, OnDiskFacts, Written
  <1>10. OnDisk' = OnDisk /\ \A i : i # f => Alike(i)
    BY <1>2, <1>8, OthersAlike DEF Alters
  <1>11. c.nextIdx \notin OnDisk \/ disk'[c.nextIdx].body = ZeroBody
    <2>1. CASE loc.cur = TFS_ERROR_INVALID_PARAMETER
      <3>1. 243 \notin OnDisk
        BY OnDiskFacts
      <3> QED
        BY <1>7, <2>1, <3>1
    <2>2. CASE Begins(o, r, Held, loc.cur, loc.want)
      <3>1. loc.cur \in OnDisk /\ o[loc.cur] = Held /\ r[loc.cur] = loc.want
        BY <1>3, <2>2 DEF Begins
      <3>2. IsErased(loc.cur) /\ c.nextIdx = loc.cur
        BY <1>3, <1>7, <3>1, OnDiskFacts DEF WipedTo
      <3>3. loc.cur # f
        BY <1>1, <1>2, <3>1, HeadOwned, HeldNowhere
      <3> QED
        BY <1>9, <3>1, <3>2, <3>3 DEF IsErased
    <2> QED
      BY <1>3, <2>1, <2>2
  <1>12. \A b \in Buffers : ~Holds(f, b)'
    <2>1. size' \in -1..NBlocks
      BY DEF TypeOK
    <2>2. \A b : ZeroBody # DataBody(b, 0)
      BY DEF ZeroBody, DataBody
    <2> QED
      BY <1>8, <1>10, <1>11, <2>1, <2>2, FirstBlockThen
  <1>13. ContentOf(f)' = Torn
    BY <1>4, <1>6, <1>8, <1>12, ContentIsThen DEF ContentShape
  <1>14. /\ pc' = "writeData" /\ loc'.then = loc.then /\ loc'.buf = loc.buf
         /\ ret' = ret /\ LL' = LL /\ currentFD' = currentFD
    BY <1>3, LocalFields DEF WriteInode, Goto, Locals
  <1> QED
    BY <1>5, <1>6, <1>8, <1>10, <1>13, <1>14

LEMMA WriteInodeMaps ==
  ASSUME Careful, MayFail, TypeOK, TypeOK', CallOK, OwnersInv, StoreInv, WriteInode
  PROVE  Maps
  <1>1. /\ pc = "writeInode" /\ LL # <<>> /\ fte.inodeIdx \in OnDisk
        /\ fte.inodeIdx \in OpenInodes
        /\ loc.then = "tfs_writeFile" /\ loc.buf \in Buffers
    BY WorkOwners DEF Working, Writing, WriteInode, CallOK
  <1> PICK f \in OnDisk : f = fte.inodeIdx
    BY <1>1
  <1>2. /\ pc' = "writeData" /\ loc'.then = loc.then /\ loc'.buf = loc.buf
        /\ ret' = ret /\ LL' = LL /\ currentFD' = currentFD
        /\ disk'[f].type = inode /\ NameOf(disk'[f]) = NameOf(disk[f])
        /\ ContentOf(f)' = Torn
        /\ \A i : i # f => Alike(i)
        /\ OnDisk' = OnDisk
    BY InodeTorn
  <1>3. Store!Running("write") /\ StoreCall' = StoreCall
    BY <1>1, <1>2, WritingCall, SameCall
  <1>4. f \in StoredFiles' <=> NameOf(disk[f]) # EmptyName
    BY <1>2 DEF StoredFiles, Inodes
  <1>5. CASE f \in StoredFiles
    <2>1. f \in StoredFiles'
      BY <1>4, <1>5 DEF StoredFiles
    <2>2. StoreFiles' = FilesFilled(f, Torn)
      BY <1>2, <1>5, <2>1, FileFilled
    <2>3. Store!Served.file = f /\ ~Store!Adrift
      BY <1>1, <1>5, HeadIs
    <2>4. Store!WriteGoesOn
      BY <1>2, <1>3, <2>2, <2>3, HandlesSame
         DEF FilesFilled, Store!WriteGoesOn, Store!SetContent
    <2> QED
      BY <2>4 DEF Maps, Store!Next
  <1>6. CASE f \notin StoredFiles /\ f \notin StoredFiles'
    <2>1. StoreFiles' = StoreFiles
      BY <1>2, <1>6, NoFile
    <2> QED
      BY <1>2, <1>3, <2>1, Unseen
  <1>7. CASE f \notin StoredFiles /\ f \in StoredFiles'
    <2>1. NameOf(disk[f]) \in NewNames
      BY <1>1, <1>4, <1>7 DEF StoreInv, LostNames, StoredFiles, Inodes
    <2>2. StoreFiles' = FilesWith(f, NameOf(disk[f]), Torn)
      BY <1>2, <1>7, FileAdded
    <2>3. Torn \in Store!Contents
      BY DEF Store!Contents
    <2>4. Store!Revives
      BY <1>1, <1>2, <1>3, <1>7, <2>1, <2>2, <2>3, Revived
    <2> QED
      BY <2>4 DEF Maps, Store!Next
  <1> QED
    BY <1>5, <1>6, <1>7

(* Until its last block the file is torn. *)
LEMMA DataTorn ==
  ASSUME Careful, TypeOK, TypeOK', CallOK, OwnersInv, WriteData, loc.count + 1 # loc.want,
         NEW f, f = fte.inodeIdx
  PROVE  ContentOf(f)' = Torn
  <1>1. /\ pc = "writeData" /\ HasFS /\ LL # <<>> /\ Readable(fte.inodeIdx)
        /\ f \in OnDisk /\ loc.buf \in Buffers
    BY WorkOwners DEF WriteData, Working, Writing, CallOK
  <1>2. PICK o \in [Indices -> Int], r \in [Indices -> Int], h \in Nat : Owned(o, r, h)
    BY <1>1 DEF OwnersInv
  <1>3. o[f] = f
    BY <1>1, <1>2, HeadOwned
  <1>4. /\ loc.want = BlocksFor(Length[loc.buf]) /\ loc.count < loc.want
        /\ loc.want \in Nat /\ loc.count \in Nat
    BY <1>1, <1>2, LocalFields DEF Owned, Storing, Wanting
  <1>5. /\ Linked(o, r)' /\ OnDisk' = OnDisk /\ r[f] = loc.want + 1
        /\ FileSize(disk'[f]) = Length[loc.buf]
        /\ \A j \in OnDisk : o[j] = f /\ j # f =>
             disk'[j].body = IF r[f] - r[j] <= loc.count + 1
                               THEN DataBody(loc.buf, r[f] - r[j] - 1) ELSE ZeroBody
    <2>1. f \in OnDisk
      BY <1>1
    <2> QED
      BY <1>2, <1>3, <2>1, WriteDataContents
  <1>6. ASSUME NEW j \in OnDisk, o[j] = f, r[j] = 1
        PROVE  disk'[j].body = ZeroBody
    <2>1. j # f /\ ~(r[f] - r[j] <= loc.count + 1)
      BY <1>4, <1>5, <1>6
    <2> QED
      BY <1>5, <1>6, <2>1
  <1>7. Unfinished(o, r, f)'
    BY <1>1, <1>3, <1>4, <1>5, <1>6 DEF Unfinished
  <1>8. \A b \in Buffers : ~Holds(f, b)'
    <2>1. size' \in -1..NBlocks /\ o \in [Indices -> Int] /\ r \in [Indices -> Int]
      BY DEF TypeOK
    <2> QED
      BY <1>7, <2>1, UnfinishedThen
  <1>9. FileSize(disk'[f]) # 0
    BY <1>1, <1>5, ClientAssumption DEF Careful
  <1> QED
    BY <1>8, <1>9, ContentIsThen DEF ContentShape

LEMMA WriteDataMaps ==
  ASSUME Careful, MayFail, TypeOK, TypeOK', CallOK, OwnersInv, WriteData
  PROVE  Maps
  <1>1. /\ pc = "writeData" /\ LL # <<>> /\ HasFS /\ fte.inodeIdx \in OnDisk
        /\ loc.then = "tfs_writeFile" /\ loc.buf \in Buffers /\ currentFD' = currentFD
    BY WorkOwners DEF Working, Writing, WriteData, CallOK
  <1> PICK f \in OnDisk : f = fte.inodeIdx
    BY <1>1
  <1>2. PICK o \in [Indices -> Int], r \in [Indices -> Int], h \in Nat : Owned(o, r, h)
    BY <1>1 DEF OwnersInv
  <1>3. Alters(o, f) /\ disk'[f] = disk[f]
    BY <1>2, DataAlters
  <1>4. \A i : i # f => Alike(i)
    BY <1>2, <1>3, OthersAlike
  <1>5. f \in StoredFiles' <=> f \in StoredFiles
    BY <1>3 DEF StoredFiles, Inodes, Alters
  <1>6. /\ Store!Running("write") /\ StoreCall.arg = loc.buf
        /\ IF f \in StoredFiles THEN Store!Served.file = f /\ ~Store!Adrift ELSE Store!Adrift
        /\ StoreHandles # <<>>
    BY <1>1, WritingCall, HeadIs
  <1>7. CASE loc.count + 1 # loc.want
    <2>1. /\ pc' = "writeData" /\ loc'.then = loc.then /\ loc'.buf = loc.buf
          /\ ret' = ret /\ LL' = LL
      BY <1>7, LocalFields DEF WriteData, Goto, Locals
    <2>2. StoreCall' = StoreCall
      BY <1>1, <2>1, SameCall
    <2>3. CASE f \in StoredFiles
      <3>1. ContentOf(f)' = Torn
        BY <1>7, DataTorn
      <3>2. StoreFiles' = FilesFilled(f, Torn)
        BY <1>3, <1>4, <1>5, <2>3, <3>1, FileFilled
      <3>3. Store!WriteGoesOn
        BY <1>1, <1>6, <2>1, <2>2, <2>3, <3>2, HandlesSame
           DEF FilesFilled, Store!WriteGoesOn, Store!SetContent
      <3> QED
        BY <3>3 DEF Maps, Store!Next
    <2>4. CASE f \notin StoredFiles
      BY <1>1, <1>4, <1>5, <2>1, <2>2, <2>4, NoFile, Unseen
    <2> QED
      BY <2>3, <2>4
  <1>8. CASE loc.count + 1 = loc.want
    <2>1. Store!SetOffset(0) /\ Store!Succeed
      <3>1. SetOffset(0) /\ Return(0)
        BY <1>8 DEF WriteData
      <3> QED
        BY <1>1, <3>1, Moves, Succeeds
    <2>2. CASE f \in StoredFiles
      <3>1. f \in Indices /\ \A b \in Buffers : b = loc.buf => Holds(f, b)'
        BY <1>8, OnDiskFacts, LastDataStores
      <3> PICK b \in Buffers : b = loc.buf
        BY <1>1
      <3>2. ContentOf(f)' = b
        BY <3>1, ContentIsThen DEF ContentShape
      <3>3. StoreFiles' = FilesFilled(f, b)
        BY <1>3, <1>4, <1>5, <2>2, <3>2, FileFilled
      <3>4. Store!WriteReturns
        BY <1>1, <1>6, <2>1, <2>2, <3>3 DEF FilesFilled, Store!WriteReturns, Store!SetContent
      <3> QED
        BY <3>4 DEF Maps, Store!Next
    <2>3. CASE f \notin StoredFiles
      <3>1. StoreFiles' = StoreFiles
        BY <1>4, <1>5, <2>3, NoFile
      <3>2. Store!Astray
        BY <1>1, <1>6, <2>1, <2>3, <3>1 DEF Store!Astray, Store!Succeed, Store!Answer
      <3> QED
        BY <3>2 DEF Maps, Store!Next
    <2> QED
      BY <2>2, <2>3
  <1> QED
    BY <1>7, <1>8

(* With no blocks to be had the file is left torn. *)
LEMMA WriteFailsMaps ==
  ASSUME Careful, MayFail, TypeOK, CallOK, OwnersInv, WriteDataFails
  PROVE  Maps
  <1>1. /\ pc = "writeData" /\ LL # <<>> /\ HasFS /\ fte.inodeIdx \in OnDisk
        /\ diskFd = Mounted /\ Readable(fte.inodeIdx)
        /\ loc.then = "tfs_writeFile" /\ loc.buf \in Buffers
    BY WorkOwners DEF Working, Writing, WriteDataFails, CallOK
  <1> PICK f \in OnDisk : f = fte.inodeIdx
    BY <1>1
  <1>2. PICK o \in [Indices -> Int], r \in [Indices -> Int], h \in Nat : Owned(o, r, h)
    BY <1>1 DEF OwnersInv
  <1>3. /\ Store!Running("write") /\ Store!Fail /\ StoreCall' = None
        /\ IF f \in StoredFiles THEN Store!Served.file = f /\ ~Store!Adrift ELSE Store!Adrift
        /\ StoreHandles # <<>> /\ StoreFiles' = StoreFiles /\ StoreHandles' = StoreHandles
        /\ currentFD' = currentFD
    <2>1. Return(TFS_ERROR_DISK_READ) /\ UNCHANGED <<storage, session>>
      BY DEF WriteDataFails
    <2>2. pc' = "idle" /\ LL' = LL /\ currentFD' = currentFD /\ UNCHANGED storage
      BY <2>1 DEF Return, ReturnByte, session
    <2> QED
      BY <1>1, <2>1, <2>2, WritingCall, HeadIs, CallNone, Codes, Fails, StorageSame, HandlesSame
  <1>4. CASE f \notin StoredFiles
    <2>1. Store!Astray
      BY <1>3, <1>4 DEF Store!Astray
    <2> QED
      BY <2>1 DEF Maps, Store!Next
  <1>5. CASE f \in StoredFiles
    <2>1. disk[f].nextIdx \notin OnDisk
      <3>1. loc.cur \notin OnDisk /\ loc.want - loc.count # 0
        <4>1. size \in Int /\ loc.count \in Nat /\ loc.want \in Nat /\ loc.count < loc.want
          BY <1>1, <1>2, LocalFields DEF TypeOK, Owned, Storing
        <4> QED
          BY <1>1, <4>1 DEF WriteDataFails, Readable, OnDisk
      <3>2. r[f] = 1
        BY <1>1, <1>2, <3>1 DEF Owned, Storing, Begins
      <3>3. o[f] = f /\ f \notin {Nobody, Held}
        BY <1>1, <1>2, HeadOwned, OnDiskFacts DEF Nobody, Held
      <3> QED
        BY <1>2, <3>2, <3>3 DEF Owned, Linked, Begins
    <2>2. \A b \in Buffers : ~Holds(f, b)
      <3>1. size \in -1..NBlocks
        BY DEF TypeOK
      <3> QED
        BY <2>1, <3>1, FirstBlock
    <2>3. FileSize(disk[f]) # 0
      BY <1>1, <1>2, ClientAssumption DEF Owned, Storing, Careful
    <2>4. ContentOf(f) = Torn
      BY <2>2, <2>3, ContentIs DEF ContentShape
    <2>5. StoreFiles = [StoreFiles EXCEPT ![f].content = Torn]
      BY <1>5, <2>4 DEF StoreFiles
    <2>6. Store!WriteFails
      BY <1>3, <1>5, <2>5 DEF Store!WriteFails, Store!SetContent
    <2> QED
      BY <2>6 DEF Maps, Store!Next
  <1> QED
    BY <1>4, <1>5

-----------------------------------------------------------------------------
(* Every behaviour *)

LEMMA StepMaps ==
  ASSUME Careful, MayFail, EmptyName \notin NewNames,
         TypeOK, TypeOK', CallOK, OwnersInv, ReadInv, StoreInv, [Next]_vars
  PROVE  Maps
  <1>1. CASE Client \/ Mounts \/ Lookup \/ CreateInode
    BY <1>1, ClientMaps, MountsMap, LookupMaps, CreateMaps
  <1>2. CASE \/ AllocWalk \/ AllocSuper \/ AllocLast
             \/ Truncs \/ WriteAlloc \/ WriteInode \/ WriteData \/ WriteDataFails
    BY <1>2, AllocMaps, TruncMaps, WriteInodeMaps, WriteDataMaps, WriteFailsMaps
  <1>3. CASE DeleteBlock \/ DeleteLast
    BY <1>3, DeleteMaps
  <1>4. CASE DeleteBlockFails
    BY <1>4, DeleteFails DEF Maps, Store!Next
  <1>5. CASE DeleteSuper
    BY <1>5, DeleteEnds DEF Maps, Store!Next
  <1>6. CASE ReadWalk \/ ReadWalkFails
    BY <1>6, ReadMaps
  <1>7. CASE Crash
    BY <1>7, Dies DEF Crash, Maps, Store!Next
  <1>8. CASE UNCHANGED vars
    <2>1. UNCHANGED storage /\ LL' = LL /\ currentFD' = currentFD /\ ret' = ret
      BY <1>8 DEF vars, storage
    <2>2. StoreCall' = StoreCall
      BY <1>8 DEF vars, StoreCall, StoreOp, StoreArg
    <2> QED
      BY <2>1, <2>2, StorageSame, Unseen
  <1> QED
    BY <1>1, <1>2, <1>3, <1>4, <1>5, <1>6, <1>7, <1>8, StepKinds

LEMMA StoreStarts ==
  ASSUME Init
  PROVE  Store!Init
  <1>1. StoredFiles = {}
    BY DEF Init, StoredFiles, Inodes, OnDisk
  <1>2. StoreFiles = << >>
    <2>1. StoreFiles \in [1..0 -> {}]
      BY <1>1 DEF StoreFiles
    <2> QED
      BY <2>1, EmptySeq
  <1>3. StoreHandles = << >> /\ StoreCall = None
    BY HandlesEmpty, CallNone DEF Init
  <1> QED
    BY <1>2, <1>3 DEF Init, Store!Init, NoRet, Store!NoRet

(* At every point of every call the invariant behind the refinement holds: *)
(* a call that runs still knows what it found out about the files, and a   *)
(* file half deleted has no name but one it was given since.               *)
THEOREM StoreKnown ==
  ASSUME Careful
  PROVE  Spec => []StoreInv
  <1>1. Init => StoreInv
    BY StoreInit
  <1>2. TypeOK /\ TypeOK' /\ CallOK /\ OwnersInv /\ StoreInv /\ [Next]_vars => StoreInv'
    BY StoreInvNext
  <1> QED
    BY <1>1, <1>2, TypeCorrect, CallsConsistent, OwnersKept, PTL DEF Spec

(* The library implements the store of files: whatever a call does block   *)
(* by block, and wherever it is killed, the client sees one file opened,   *)
(* written, read, renamed or deleted, and no other file touched.           *)
THEOREM StoreImplemented ==
  ASSUME Careful, MayFail, EmptyName \notin NewNames
  PROVE  Spec => ImplementsStore
  <1>1. Init => Store!Init /\ ReadInv
    BY StoreStarts DEF Init, ReadInv
  <1>2. TypeOK /\ CallOK /\ ReadInv /\ [Next]_vars => ReadInv'
    BY ReadInvNext
  <1>3. TypeOK /\ TypeOK' /\ CallOK /\ OwnersInv /\ ReadInv /\ StoreInv /\ [Next]_vars =>
          [Store!Next]_(Store!vars)
    BY StepMaps DEF Maps
  <1> QED
    BY <1>1, <1>2, <1>3, TypeCorrect, CallsConsistent, OwnersKept, StoreKnown, PTL
       DEF Spec, ImplementsStore, Store!Spec

(* The effect of a call is the one its name promises: a close takes the    *)
(* handle, a seek moves it, a rename renames the file, a write cuts it and *)
(* a delete that returns 0 has removed file and handle.                    *)
THEOREM CallsEffective ==
  ASSUME Careful, EmptyName \notin NewNames
  PROVE  Spec => CallsHaveEffect
  <1>1. TypeOK /\ TypeOK' /\ CallOK /\ OwnersInv /\ StoreInv /\ [Next]_vars =>
          /\ \A FD \in Descriptors :
               /\ CloseFile(FD) => Store!Close
               /\ \A o \in Offsets : Seek(FD, o) => Store!Seek
               /\ \A n \in NewNames :
                    Rename(FD, n) /\ ~Store!Adrift => Store!Rename
               /\ \A b \in Buffers :
                    WriteFile(FD, b) /\ ~Store!Adrift => Store!WriteBegins
          /\ DeleteSuper => Store!DeleteReturns
    <2> SUFFICES ASSUME TypeOK, TypeOK', CallOK, OwnersInv, StoreInv
                 PROVE  /\ \A FD \in Descriptors :
                             /\ CloseFile(FD) => Store!Close
                             /\ \A o \in Offsets : Seek(FD, o) => Store!Seek
                             /\ \A n \in NewNames :
                                  Rename(FD, n) /\ ~Store!Adrift => Store!Rename
                             /\ \A b \in Buffers :
                                  WriteFile(FD, b) /\ ~Store!Adrift => Store!WriteBegins
                        /\ DeleteSuper => Store!DeleteReturns
      OBVIOUS
    <2>1. ASSUME NEW FD, Served(FD), ~Store!Adrift
          PROVE  fte.inodeIdx \in StoredFiles /\ Readable(fte.inodeIdx)
      <3>1. fte.inodeIdx \in StoredFiles /\ diskFd = Mounted /\ size \in Int
        BY <2>1, HeadIs DEF Served, StoreInv, FilesMounted, TypeOK
      <3> QED
        BY <3>1 DEF StoredFiles, Inodes, OnDisk, Readable
    <2>2. ASSUME NEW FD, NEW n \in NewNames, Rename(FD, n), ~Store!Adrift
          PROVE  Store!Rename
      BY <2>1, <2>2, RenameMaps DEF Rename
    <2>3. ASSUME NEW FD, NEW b \in Buffers, WriteFile(FD, b), ~Store!Adrift
          PROVE  Store!WriteBegins
      <3>1. Readable(fte.inodeIdx)
        BY <2>1, <2>3 DEF WriteFile
      <3> QED
        BY <2>3, <3>1, WriteBegins
    <2> QED
      BY <2>2, <2>3, Closes, Seeks, DeleteEnds
  <1> QED
    BY <1>1, TypeCorrect, CallsConsistent, OwnersKept, StoreKnown, PTL
       DEF Spec, CallsHaveEffect
=============================================================================
