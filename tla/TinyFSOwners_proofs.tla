------------------------ MODULE TinyFSOwners_proofs ------------------------
(***************************************************************************)
(* The blocks of a TinyFS image have owners, whatever the library and its  *)
(* client do and wherever the process is killed, short of what Careful of  *)
(* TinyFSOwners excludes.  So the free list is a list of erased blocks, no *)
(* block is in two files, and no file holds two buffers mixed.             *)
(***************************************************************************)
EXTENDS TinyFSOwners, TinyFS_proofs, FiniteSetTheorems

-----------------------------------------------------------------------------
(* The chains of an image whose blocks have owners: what Trail, Chain and  *)
(* Ends of TinyFS are when TinyFSOwners!Linked and Apart hold, and what    *)
(* follows for the free list and the files.                                *)
(*                                                                         *)
(* Trail is a recursive function.  That it is defined, and what is on it,  *)
(* is proved by induction, in the form of a least counterexample: a set of *)
(* naturals that is not empty has a least element.                         *)

(* Of the intervals 1..n for the n of a set there is a minimal one. *)
LEMMA LeastNat ==
  ASSUME NEW T, T \subseteq Nat, T # {}
  PROVE  \E m \in T : \A k \in T : m <= k
  <1> DEFINE U == {1..n : n \in T}
  <1>1. U \subseteq FiniteSubsetsOf(Nat)
    <2>1. ASSUME NEW n \in T PROVE 1..n \in FiniteSubsetsOf(Nat)
      BY FS_Interval DEF FiniteSubsetsOf
    <2> QED
      BY <2>1
  <1>2. U # {}
    OBVIOUS
  <1>3. \E x \in U : \A y \in U : ~ (<<y, x>> \in StrictSubsetOrdering(Nat))
    <2> HIDE DEF U
    <2> QED
      BY <1>1, <1>2, FS_StrictSubsetOrderingWellFounded, WFMin
  <1>4. PICK m \in T : \A k \in T : ~ (<<1..k, 1..m>> \in StrictSubsetOrdering(Nat))
    BY <1>3
  <1>5. ASSUME NEW k \in T, k < m PROVE FALSE
    <2>1. 1..k \subseteq 1..m /\ m \notin 1..k /\ m \in 1..m
      BY <1>5
    <2>2. 1..k \in SUBSET Nat /\ 1..m \in SUBSET Nat
      OBVIOUS
    <2> QED
      BY <1>4, <2>1, <2>2 DEF StrictSubsetOrdering
  <1> QED
    BY <1>5

LEMMA Induction ==
  ASSUME NEW T, 0 \in T, \A n \in Nat : n \in T => n + 1 \in T
  PROVE  Nat \subseteq T
  <1> SUFFICES ASSUME Nat \ T # {} PROVE FALSE
    OBVIOUS
  <1>1. PICK m \in Nat \ T : \A k \in Nat \ T : m <= k
    BY LeastNat
  <1>2. m # 0
    OBVIOUS
  <1>3. m - 1 \in Nat /\ m - 1 \in T
    BY <1>1, <1>2
  <1> QED
    BY <1>3

-----------------------------------------------------------------------------
(* Trails *)

(* The block after x; x itself where the trail has left the disk. *)
Succ(x) == IF x \in OnDisk THEN disk[x].nextIdx ELSE x

IsTrail(f, i, n) == f = [k \in 0..n |-> IF k = 0 THEN i ELSE Succ(f[k - 1])]

LEMMA TrailsExist ==
  ASSUME NEW i
  PROVE  \A n \in Nat : \E f : IsTrail(f, i, n)
  <1> DEFINE T == {n \in Nat : \E f : IsTrail(f, i, n)}
  <1>1. 0 \in T
    <2>1. IsTrail([k \in 0..0 |-> i], i, 0)
      BY DEF IsTrail
    <2> QED
      BY <2>1
  <1>2. ASSUME NEW n \in Nat, n \in T
        PROVE  n + 1 \in T
    <2>1. PICK f : IsTrail(f, i, n)
      BY <1>2
    <2> DEFINE g == [k \in 0..(n + 1) |-> IF k = n + 1 THEN Succ(f[n]) ELSE f[k]]
    <2>2. DOMAIN f = 0..n /\ \A k \in 0..n : f[k] = IF k = 0 THEN i ELSE Succ(f[k - 1])
      BY <2>1 DEF IsTrail
    <2>3. ASSUME NEW k \in 0..(n + 1)
          PROVE  g[k] = IF k = 0 THEN i ELSE Succ(g[k - 1])
      <3>1. CASE k = n + 1
        <4>1. k - 1 = n /\ n \in 0..(n + 1) /\ n # n + 1 /\ k # 0
          BY <3>1
        <4> QED
          BY <4>1, <3>1
      <3>2. CASE k = 0
        BY <3>2, <2>2
      <3>3. CASE k \in 1..n
        <4>1. k - 1 \in 0..n /\ k \in 0..n /\ k # n + 1 /\ k - 1 # n + 1 /\ k # 0
              /\ k - 1 \in 0..(n + 1)
          BY <3>3
        <4>2. g[k] = f[k] /\ g[k - 1] = f[k - 1]
          BY <4>1
        <4> HIDE DEF g
        <4> QED
          BY <4>1, <4>2, <2>2
      <3> QED
        BY <3>1, <3>2, <3>3
    <2>4. g = [k \in 0..(n + 1) |-> IF k = 0 THEN i ELSE Succ(g[k - 1])]
      <3>1. g = [k \in 0..(n + 1) |-> g[k]]
        OBVIOUS
      <3> HIDE DEF g
      <3> QED
        BY <3>1, <2>3
    <2>5. IsTrail(g, i, n + 1)
      <3> HIDE DEF g
      <3> QED
        BY <2>4 DEF IsTrail
    <2> QED
      BY <2>5
  <1>3. Nat \subseteq T
    <2> HIDE DEF T
    <2> QED
      BY <1>1, <1>2, Induction
  <1> QED
    BY <1>3

(* The function Trail(i) is what its definition says. *)
LEMMA TrailDef ==
  ASSUME NEW i
  PROVE  /\ Trail(i)[0] = i
         /\ \A k \in 1..NBlocks : Trail(i)[k] = Succ(Trail(i)[k - 1])
  <1>1. Trail(i) = CHOOSE f : IsTrail(f, i, NBlocks)
    BY DEF Trail, IsTrail, Succ
  <1>2. NBlocks \in Nat /\ NBlocks >= 2
    BY SizesAssumption
  <1>3. IsTrail(Trail(i), i, NBlocks)
    BY <1>1, <1>2, TrailsExist
  <1> QED
    BY <1>2, <1>3 DEF IsTrail

-----------------------------------------------------------------------------
(* Trails through owned blocks *)

(* A trail that begins n blocks from the end of its owner's chain stays in *)
(* that chain, one block nearer to the end at each step, and leaves it     *)
(* after n.                                                                *)
LEMMA TrailOwned ==
  ASSUME NEW o, NEW r, Linked(o, r),
         NEW w, w \notin {Nobody, Held},
         NEW i, NEW n \in Nat, Begins(o, r, w, i, n)
  PROVE  \A k \in 0..NBlocks :
           Begins(o, r, w, Trail(i)[k], IF k < n THEN n - k ELSE 0)
  <1> DEFINE At(k) == Begins(o, r, w, Trail(i)[k], IF k < n THEN n - k ELSE 0)
             T == {k \in Nat : k <= NBlocks => At(k)}
  <1>0. NBlocks \in Nat
    BY SizesAssumption
  <1>1. 0 \in T
    BY TrailDef
  <1>2. ASSUME NEW k \in Nat, k \in T
        PROVE  k + 1 \in T
    <2> SUFFICES ASSUME k + 1 <= NBlocks
                 PROVE  At(k + 1)
      OBVIOUS
    <2>1. At(k)
      BY <1>0, <1>2
    <2>2. Trail(i)[k + 1] = Succ(Trail(i)[k])
      <3>1. k + 1 \in 1..NBlocks /\ (k + 1) - 1 = k
        BY <1>0
      <3> QED
        BY <3>1, TrailDef
    <2>3. CASE k < n
      <3>1. /\ Trail(i)[k] \in OnDisk
            /\ o[Trail(i)[k]] = w
            /\ r[Trail(i)[k]] = n - k
        BY <2>1, <2>3 DEF Begins
      <3>2. Begins(o, r, w, disk[Trail(i)[k]].nextIdx, (n - k) - 1)
        BY <3>1 DEF Linked
      <3>3. (n - k) - 1 = IF k + 1 < n THEN n - (k + 1) ELSE 0
        BY <2>3
      <3> QED
        BY <2>2, <3>1, <3>2, <3>3 DEF Succ
    <2>4. CASE ~ (k < n)
      BY <2>1, <2>2, <2>4 DEF Begins, Succ
    <2> QED
      BY <2>3, <2>4
  <1>3. Nat \subseteq T
    <2> HIDE DEF T
    <2> QED
      BY <1>1, <1>2, Induction
  <1> QED
    BY <1>0, <1>3

(* No chain is longer than the disk. *)
LEMMA ChainFits ==
  ASSUME NEW o, NEW r, Linked(o, r), size \in -1..NBlocks,
         NEW w, w \notin {Nobody, Held},
         NEW i, NEW n \in Nat, Begins(o, r, w, i, n)
  PROVE  n < NBlocks
  <1>1. NBlocks \in Nat /\ NBlocks >= 2
    BY SizesAssumption
  <1> SUFFICES ASSUME n >= NBlocks
               PROVE  FALSE
    BY <1>1
  <1> DEFINE S == 0..(NBlocks - 1)
             f == [k \in S |-> Trail(i)[k]]
  <1>2. ASSUME NEW k \in S
        PROVE  f[k] \in OnDisk /\ r[f[k]] = n - k
    <2>1. k \in 0..NBlocks /\ k < n /\ n - k # 0
      BY <1>1
    <2>2. Begins(o, r, w, Trail(i)[k], n - k)
      BY <2>1, TrailOwned
    <2> QED
      BY <2>1, <2>2 DEF Begins
  <1>3. IsFiniteSet(S) /\ Cardinality(S) = NBlocks
    BY <1>1, FS_Interval
  <1>4. IsFiniteSet(OnDisk) /\ Cardinality(OnDisk) < NBlocks
    <2>1. /\ IsFiniteSet(1..(size - 1))
          /\ Cardinality(1..(size - 1)) = IF 1 > size - 1 THEN 0 ELSE (size - 1) - 1 + 1
      BY <1>1, FS_Interval
    <2> QED
      BY <1>1, <2>1 DEF OnDisk
  <1>5. f \in [S -> OnDisk]
    BY <1>2
  <1>6. PICK x, y \in S : x # y /\ f[x] = f[y]
    <2> HIDE DEF f, S
    <2> QED
      BY <1>3, <1>4, <1>5, FS_PigeonHole
  <1>7. n - x = n - y
    BY <1>2, <1>6
  <1> QED
    BY <1>1, <1>6, <1>7

(* So it ends, and is exactly what its owner has from there on. *)
LEMMA ChainOwned ==
  ASSUME NEW o, NEW r, Linked(o, r), Apart(o, r), size \in -1..NBlocks,
         r \in [Indices -> Int],
         NEW w, w \notin {Nobody, Held},
         NEW i, NEW n \in Nat, Begins(o, r, w, i, n)
  PROVE  /\ Ends(i)
         /\ \A j : j \in Chain(i) <=> j \in OnDisk /\ o[j] = w /\ r[j] <= n
  <1>1. NBlocks \in Nat /\ n < NBlocks /\ OnDisk \subseteq Indices
    BY SizesAssumption, ChainFits DEF OnDisk, Indices
  <1>2. ASSUME NEW k \in 0..NBlocks
        PROVE  IF k < n THEN /\ Trail(i)[k] \in OnDisk
                             /\ o[Trail(i)[k]] = w
                             /\ r[Trail(i)[k]] = n - k
                        ELSE Trail(i)[k] \notin OnDisk
    <2>1. Begins(o, r, w, Trail(i)[k], IF k < n THEN n - k ELSE 0)
      BY TrailOwned
    <2>2. k < n => n - k # 0
      BY <1>1
    <2> QED
      BY <2>1, <2>2 DEF Begins
  <1>3. Ends(i)
    BY <1>1, <1>2 DEF Ends
  <1>4. ASSUME NEW j \in Chain(i)
        PROVE  j \in OnDisk /\ o[j] = w /\ r[j] <= n
    <2>1. PICK k \in 0..NBlocks : j = Trail(i)[k]
      BY DEF Chain
    <2>2. j \in OnDisk
      BY DEF Chain
    <2> QED
      BY <1>1, <1>2, <2>1, <2>2
  <1>5. ASSUME NEW j \in OnDisk, o[j] = w, r[j] <= n
        PROVE  j \in Chain(i)
    <2>1. r[j] \in Int /\ r[j] >= 1
      BY <1>1, <1>5 DEF Linked
    <2> DEFINE k == n - r[j]
    <2>2. k \in 0..NBlocks /\ k < n /\ n - k = r[j]
      BY <1>1, <1>5, <2>1
    <2>3. Trail(i)[k] \in OnDisk /\ o[Trail(i)[k]] = w /\ r[Trail(i)[k]] = r[j]
      <3> HIDE DEF k
      <3> QED
        BY <1>2, <2>2
    <2>4. Trail(i)[k] = j
      <3> HIDE DEF k
      <3> QED
        BY <1>5, <2>3 DEF Apart
    <2>5. j \in {Trail(i)[x] : x \in 0..NBlocks}
      <3> HIDE DEF k
      <3> QED
        BY <2>2, <2>4
    <2> QED
      BY <2>5 DEF Chain
  <1> QED
    BY <1>3, <1>4, <1>5

(* There are as many blocks in a chain as the place it begins at says. *)
LEMMA ChainCount ==
  ASSUME NEW o, NEW r, Linked(o, r), Apart(o, r), size \in -1..NBlocks,
         r \in [Indices -> Int],
         NEW w, w \notin {Nobody, Held},
         NEW i, NEW n \in Nat, Begins(o, r, w, i, n)
  PROVE  Cardinality(Chain(i)) = n
  <1>1. NBlocks \in Nat /\ n < NBlocks /\ OnDisk \subseteq Indices
    BY SizesAssumption, ChainFits DEF OnDisk, Indices
  <1> DEFINE S == Chain(i)
             f == [m \in 1..n |-> Trail(i)[n - m]]
  <1>2. \A j : j \in S <=> j \in OnDisk /\ o[j] = w /\ r[j] <= n
    BY ChainOwned
  <1>3. ASSUME NEW m \in 1..n
        PROVE  f[m] \in S /\ r[f[m]] = m /\ f[m] \in OnDisk /\ o[f[m]] = w
    <2>1. n - m \in 0..NBlocks /\ n - m < n /\ n - (n - m) = m /\ m # 0 /\ m <= n
      BY <1>1
    <2>2. Begins(o, r, w, Trail(i)[n - m], m)
      BY <2>1, TrailOwned
    <2>3. f[m] = Trail(i)[n - m]
      OBVIOUS
    <2> HIDE DEF f, S
    <2> QED
      BY <1>2, <2>1, <2>2, <2>3 DEF Begins
  <1>4. ASSUME NEW j \in S
        PROVE  \E m \in 1..n : f[m] = j
    <2>1. j \in OnDisk /\ o[j] = w /\ r[j] <= n
      BY <1>2
    <2>2. r[j] \in 1..n
      BY <1>1, <2>1 DEF Linked
    <2>3. f[r[j]] \in OnDisk /\ o[f[r[j]]] = w /\ r[f[r[j]]] = r[j]
      <3> HIDE DEF f
      <3> QED
        BY <1>3, <2>2
    <2>4. f[r[j]] = j
      <3> HIDE DEF f
      <3> QED
        BY <2>1, <2>3 DEF Apart
    <2> QED
      BY <2>2, <2>4
  <1>5. f \in Bijection(1..n, S)
    <2>1. f \in [1..n -> S]
      <3> HIDE DEF S
      <3> QED
        BY <1>3
    <2>2. \A a, b \in 1..n : f[a] = f[b] => a = b
      <3> HIDE DEF f, S
      <3> QED
        BY <1>3
    <2>3. \A t \in S : \E a \in 1..n : f[a] = t
      <3> HIDE DEF f, S
      <3> QED
        BY <1>4
    <2> HIDE DEF f, S
    <2> QED
      BY <2>1, <2>2, <2>3 DEF Bijection, Injection, Surjection, IsInjective
  <1> QED
    <2> HIDE DEF f, S
    <2>1. ExistsBijection(1..n, S)
      BY <1>5 DEF ExistsBijection
    <2>2. Cardinality(S) = n
      BY <2>1, FS_CountingElements
    <2> QED
      BY <2>2 DEF S

-----------------------------------------------------------------------------
(* What the owners show of the image *)

LEMMA HeadCount ==
  ASSUME NEW o, NEW r \in [Indices -> Int],
         Linked(o, r), FreeOwned(o, r),
         disk \in [Indices -> Block], size \in -1..NBlocks
  PROVE  FreeCount(disk[0]) \in Nat
  <1>1. disk[0] \in Block /\ OnDisk \subseteq Indices
    BY SizesAssumption DEF Indices, OnDisk
  <1>2. FreeCount(disk[0]) \in Int
    BY <1>1 DEF Block, Body, FreeCount, ZeroBody, TextWord
  <1>3. FreeCount(disk[0]) # 0 => FreeCount(disk[0]) >= 1
    <2> DEFINE x == FirstFree(disk[0])
    <2>1. FreeCount(disk[0]) # 0 =>
            x \in OnDisk /\ o[x] = Free /\ r[x] = FreeCount(disk[0])
      BY DEF FreeOwned, Begins
    <2> HIDE DEF x
    <2> QED
      BY <2>1 DEF Linked, Free, Nobody, Held
  <1> QED
    BY <1>2, <1>3

LEMMA FreeListOwned ==
  ASSUME NEW o, NEW r \in [Indices -> Int],
         Linked(o, r), Apart(o, r), FreeOwned(o, r),
         disk \in [Indices -> Block], size \in -1..NBlocks
  PROVE  /\ Ends(FirstFree(disk[0]))
         /\ \A j : j \in FreeChain <=> j \in OnDisk /\ o[j] = Free
         /\ Cardinality(FreeChain) = FreeCount(disk[0])
  <1> DEFINE x == FirstFree(disk[0])
             n == FreeCount(disk[0])
  <1>1. n \in Nat
    BY HeadCount
  <1>2. Begins(o, r, Free, x, n) /\ Free \notin {Nobody, Held}
    BY DEF FreeOwned, Free, Nobody, Held
  <1>3. \A j \in OnDisk : o[j] = Free => r[j] <= n
    BY DEF FreeOwned
  <1> HIDE DEF x, n
  <1>4. /\ Ends(x)
        /\ \A j : j \in Chain(x) <=> j \in OnDisk /\ o[j] = Free /\ r[j] <= n
    BY <1>1, <1>2, ChainOwned
  <1>5. Cardinality(Chain(x)) = n
    BY <1>1, <1>2, ChainCount
  <1>6. FreeChain = Chain(x)
    BY DEF FreeChain, x
  <1> QED
    BY <1>3, <1>4, <1>5, <1>6 DEF x, n

(* A file's chain is in the file. *)
LEMMA FileOwned ==
  ASSUME NEW o, NEW r \in [Indices -> Int],
         Linked(o, r), Apart(o, r), size \in -1..NBlocks,
         NEW i \in OnDisk, o[i] = i
  PROVE  /\ Ends(i)
         /\ \A j : j \in Chain(i) <=> j \in OnDisk /\ o[j] = i /\ r[j] <= r[i]
         /\ r[i] \in Nat /\ r[i] >= 1
         /\ Begins(o, r, i, i, r[i])
  <1>1. i \in Indices /\ i \notin {Nobody, Held}
    BY SizesAssumption DEF OnDisk, Indices, Nobody, Held
  <1>2. r[i] \in Nat /\ r[i] >= 1
    BY <1>1 DEF Linked
  <1>3. Begins(o, r, i, i, r[i])
    BY <1>2 DEF Begins
  <1>4. /\ Ends(i)
        /\ \A j : j \in Chain(i) <=> j \in OnDisk /\ o[j] = i /\ r[j] <= r[i]
    <2>1. PICK n \in Nat : n = r[i]
      BY <1>2
    <2>2. Begins(o, r, i, i, n)
      BY <1>3, <2>1
    <2>3. /\ Ends(i)
          /\ \A j : j \in Chain(i) <=> j \in OnDisk /\ o[j] = i /\ r[j] <= n
      BY <1>1, <2>2, ChainOwned
    <2> QED
      BY <2>1, <2>3
  <1> QED
    BY <1>2, <1>3, <1>4

(* FreeListSound, FreeBlocksErased and NoCrossLink in one state. *)
LEMMA OwnersShow ==
  ASSUME OwnersInv, disk \in [Indices -> Block], size \in -1..NBlocks
  PROVE  FreeListSound /\ FreeBlocksErased /\ NoCrossLink
  <1> SUFFICES ASSUME HasFS
               PROVE  FreeListSound /\ FreeBlocksErased /\ NoCrossLink
    BY DEF FreeListSound, FreeBlocksErased, NoCrossLink
  <1>1. PICK o, r \in [Indices -> Int], h \in Nat : Owned(o, r, h)
    BY DEF OwnersInv
  <1>2. Linked(o, r) /\ Apart(o, r) /\ FreeOwned(o, r) /\ FilesOwned(o, r)
    BY <1>1 DEF Owned
  <1>3. /\ Ends(FirstFree(disk[0]))
        /\ \A j : j \in FreeChain <=> j \in OnDisk /\ o[j] = Free
        /\ Cardinality(FreeChain) = FreeCount(disk[0])
    BY <1>2, FreeListOwned
  <1>4. FreeListSound
    BY <1>3 DEF FreeListSound
  <1>5. FreeBlocksErased
    BY <1>2, <1>3 DEF FreeBlocksErased, FreeOwned, IsErased
  <1>6. NoCrossLink
    <2> DEFINE files == (Inodes \cup OpenInodes)
                          \ IF pc = "deleteSuper" THEN {fte.inodeIdx} ELSE {}
    <2>1. ASSUME NEW i \in files
          PROVE  /\ i \in OnDisk /\ o[i] = i
                 /\ Ends(i) /\ \A j \in Chain(i) : o[j] = i
      <3>1. i \in OnDisk
        BY DEF Inodes, OpenInodes
      <3>2. o[i] = i
        BY <1>2, <3>1 DEF FilesOwned
      <3> QED
        BY <1>2, <3>1, <3>2, FileOwned
    <2>2. ASSUME NEW i \in files
          PROVE  Chain(i) \cap FreeChain = {}
      <3>1. i # Free
        BY <2>1 DEF OnDisk, Free
      <3> QED
        BY <1>3, <2>1, <3>1
    <2>3. ASSUME NEW i \in files, NEW j \in files \ {i}
          PROVE  Chain(i) \cap Chain(j) = {}
      <3>1. (\A x \in Chain(i) : o[x] = i) /\ (\A x \in Chain(j) : o[x] = j)
        BY <2>1
      <3> QED
        BY <3>1
    <2> HIDE DEF files
    <2>4. \A i \in files :
            /\ Ends(i)
            /\ Chain(i) \cap FreeChain = {}
            /\ \A j \in files \ {i} : Chain(i) \cap Chain(j) = {}
      BY <2>1, <2>2, <2>3
    <2> QED
      BY <2>4 DEF NoCrossLink, files
  <1> QED
    BY <1>4, <1>5, <1>6

(* OneBuffer in one state. *)
LEMMA OwnersKeepData ==
  ASSUME OwnersInv, size \in -1..NBlocks, Buffers # {}
  PROVE  OneBuffer
  <1> SUFFICES ASSUME HasFS, NEW i \in Inodes
               PROVE  \E b \in Buffers :
                        /\ FileSize(disk[i]) \in {0, Length[b]}
                        /\ \A k \in 1..NBlocks :
                             Trail(i)[k] \in OnDisk =>
                               disk[Trail(i)[k]].body \in {ZeroBody, DataBody(b, k - 1)}
    BY DEF OneBuffer
  <1>1. PICK o, r \in [Indices -> Int], h \in Nat : Owned(o, r, h)
    BY DEF OwnersInv
  <1>2. Linked(o, r) /\ Apart(o, r) /\ FilesOwned(o, r)
    BY <1>1 DEF Owned
  <1>3. i \in OnDisk /\ o[i] = i /\ \E b \in Buffers : DataOf(o, r, i, b)
    BY <1>2 DEF FilesOwned, Inodes
  <1>4. PICK b \in Buffers : DataOf(o, r, i, b)
    BY <1>3
  <1>5. r[i] \in Nat /\ Begins(o, r, i, i, r[i]) /\ i \notin {Nobody, Held}
    BY <1>2, <1>3, FileOwned DEF OnDisk, Nobody, Held
  <1>6. ASSUME NEW k \in 1..NBlocks, Trail(i)[k] \in OnDisk
        PROVE  disk[Trail(i)[k]].body \in {ZeroBody, DataBody(b, k - 1)}
    <2> DEFINE j == Trail(i)[k]
    <2>1. Begins(o, r, i, j, IF k < r[i] THEN r[i] - k ELSE 0)
      <3>1. k \in 0..NBlocks
        BY SizesAssumption
      <3> QED
        BY <1>2, <1>5, <3>1, TrailOwned
    <2>2. o[j] = i /\ r[j] = r[i] - k
      BY <1>5, <1>6, <2>1 DEF Begins
    <2>3. j # i /\ r[i] - r[j] - 1 = k - 1
      <3> HIDE DEF j
      <3> QED
        BY <1>5, <2>2
    <2>4. j \in OnDisk
      BY <1>6
    <2> HIDE DEF j
    <2>5. disk[j].body \in {ZeroBody, DataBody(b, r[i] - r[j] - 1)}
      BY <1>4, <2>2, <2>3, <2>4 DEF DataOf
    <2> QED
      BY <2>3, <2>5 DEF j
  <1> QED
    BY <1>4, <1>6 DEF DataOf

-----------------------------------------------------------------------------
(* What every step relies on *)

(* Where the running call owns nothing and knows nothing of the image. *)
Quiet == {"idle", "lookup", "readWalk"} \cup Mounting

LEMMA OnDiskFacts ==
  ASSUME TypeOK
  PROVE  /\ NBlocks \in Nat /\ OnDisk \subseteq Indices /\ 0 \in Indices
         /\ OnDisk \subseteq Nat /\ 0 \notin OnDisk /\ OnDisk \subseteq 1..242
         /\ disk \in [Indices -> Block] /\ size \in -1..NBlocks
         /\ disk[0] \in Block
         /\ \A j \in OnDisk :
              j \in Indices /\ disk[j] \in Block /\ disk[j].nextIdx \in 0..255
  <1>1. NBlocks \in 2..243 /\ disk \in [Indices -> Block] /\ size \in -1..NBlocks
    BY SizesAssumption DEF TypeOK
  <1>2. /\ OnDisk \subseteq Indices /\ 0 \in Indices /\ OnDisk \subseteq Nat
        /\ 0 \notin OnDisk /\ OnDisk \subseteq 1..242
    BY <1>1 DEF OnDisk, Indices
  <1>3. \A j \in OnDisk : disk[j] \in Block /\ disk[j].nextIdx \in 0..255
    BY <1>1, <1>2, FieldsRead
  <1> QED
    BY <1>1, <1>2, <1>3

(* The open files of a state whose list is not longer. *)
LEMMA OpenSame ==
  ASSUME TypeOK, LL # <<>>, NEW x, SetOffset(x)
  PROVE  DOMAIN LL' = DOMAIN LL /\ \A k \in DOMAIN LL : LL'[k].inodeIdx = LL[k].inodeIdx
  <1>1. LL \in Seq(FTE)
    BY DEF TypeOK
  <1>2. \A k \in DOMAIN LL : LL[k] \in FTE
    BY <1>1, ElementOfSeq, LenProperties
  <1>3. LL' = [LL EXCEPT ![1] = [LL[1] EXCEPT !.offset = x]]
    BY DEF SetOffset
  <1>4. DOMAIN LL' = DOMAIN LL
    BY <1>3
  <1>5. ASSUME NEW k \in DOMAIN LL PROVE LL'[k].inodeIdx = LL[k].inodeIdx
    <2>1. CASE k = 1
      <3>1. LL'[k] = [LL[1] EXCEPT !.offset = x] /\ LL[1] \in FTE
        BY <1>2, <1>3, <2>1
      <3> QED
        BY <2>1, <3>1 DEF FTE
    <2>2. CASE k # 1
      BY <1>3, <2>2
    <2> QED
      BY <2>1, <2>2
  <1> QED
    BY <1>4, <1>5

LEMMA OpenTail ==
  ASSUME TypeOK, LL # <<>>, LL' = Tail(LL)
  PROVE  /\ \A k \in DOMAIN LL' : k + 1 \in DOMAIN LL /\ LL'[k] = LL[k + 1]
         /\ \A k \in DOMAIN LL' : k \in Nat /\ k >= 1
         /\ 1 \in DOMAIN LL /\ fte = LL[1]
  <1>1. LL \in Seq(FTE) /\ Len(LL) \in Nat /\ DOMAIN LL = 1..Len(LL)
    BY LenProperties DEF TypeOK
  <1>2. Tail(LL) \in Seq(FTE) /\ Len(Tail(LL)) = Len(LL) - 1
        /\ \A k \in 1..Len(Tail(LL)) : Tail(LL)[k] = LL[k + 1]
    BY <1>1, HeadTailProperties
  <1>3. DOMAIN LL' = 1..(Len(LL) - 1)
    BY <1>2, LenProperties
  <1>4. 1 \in DOMAIN LL /\ fte = LL[1]
    BY <1>1, ListKept DEF TypeOK
  <1> QED
    BY <1>1, <1>2, <1>3, <1>4

LEMMA OpenAppend ==
  ASSUME TypeOK, NEW e \in FTE, LL' = Append(LL, e)
  PROVE  \A k \in DOMAIN LL' : \/ k \in DOMAIN LL /\ LL'[k] = LL[k]
                               \/ k \notin DOMAIN LL /\ k = Len(LL) + 1 /\ LL'[k] = e
  <1>1. LL \in Seq(FTE) /\ Len(LL) \in Nat /\ DOMAIN LL = 1..Len(LL)
    BY LenProperties DEF TypeOK
  <1>2. /\ Append(LL, e) \in Seq(FTE) /\ Len(Append(LL, e)) = Len(LL) + 1
        /\ \A k \in 1..Len(LL) : Append(LL, e)[k] = LL[k]
        /\ Append(LL, e)[Len(LL) + 1] = e
    BY <1>1, AppendProperties
  <1>3. DOMAIN LL' = 1..(Len(LL) + 1)
    BY <1>2, LenProperties
  <1> QED
    BY <1>1, <1>2, <1>3

-----------------------------------------------------------------------------
(* The open files *)

EntriesOnce ==
  /\ \A k \in DOMAIN LL :
       LL[k].inodeIdx < 0 \/ (HasFS /\ LL[k].inodeIdx \in OnDisk)
  /\ \A j, k \in DOMAIN LL :
       j # k /\ LL[j].inodeIdx >= 0 => LL[j].inodeIdx # LL[k].inodeIdx

(* The file about to be opened is not. *)
Unopened ==
  pc \in Mounting \cup {"lookup"} /\ loc.then = "tfs_openFile" =>
    \A k \in DOMAIN LL : LL[k].inodeIdx < 0 \/ LL[k].inodeIdx # FindByName(loc.name)

HasOwners == \E o, r \in [Indices -> Int], h \in Nat : Owned(o, r, h)

HasPlaces(L) ==
  \E o, r \in [Indices -> Int], h \in Nat : Owned(o, r, h) /\ Placed(o, r, h, L)

LEMMA InvParts ==
  OwnersInv <=> EntriesOnce /\ Unopened /\ MakingOK /\ (HasFS => HasOwners)
  BY DEF OwnersInv, EntriesApart, EntriesOnce, Unopened, HasOwners

LEMMA PlaceParts ==
  ASSUME NEW L
  PROVE  OwnersBut(L) <=> EntriesOnce /\ Unopened /\ MakingOK /\ (HasFS => HasPlaces(L))
  BY DEF OwnersBut, EntriesApart, EntriesOnce, Unopened, HasPlaces

LEMMA PlacePartsNext ==
  ASSUME NEW L
  PROVE  OwnersBut(L)' <=>
           EntriesOnce' /\ Unopened' /\ MakingOK' /\ (HasFS' => HasPlaces(L)')
  BY DEF OwnersBut, EntriesApart, EntriesOnce, Unopened, HasPlaces

(* OwnersInv is what is left when nothing is said of what is lost. *)
LEMMA NothingSaid ==
  ASSUME NEW L, OwnersBut(L)
  PROVE  OwnersInv
  BY DEF OwnersBut, OwnersInv

LEMMA EntryIndex ==
  ASSUME TypeOK
  PROVE  \A k \in DOMAIN LL : LL[k].inodeIdx \in Int /\ k \in Nat
  <1>1. LL \in Seq(FTE) /\ DOMAIN LL = 1..Len(LL)
    BY LenProperties DEF TypeOK
  <1>2. \A k \in DOMAIN LL : LL[k] \in FTE
    BY <1>1, ElementOfSeq
  <1> QED
    BY <1>1, <1>2 DEF FTE

(* A file system that is there stays, with its size. *)
StoreStays == HasFS => HasFS' /\ size' = size

LEMMA EntriesStay ==
  ASSUME TypeOK, EntriesOnce, StoreStays,
         DOMAIN LL' = DOMAIN LL,
         \A k \in DOMAIN LL : LL'[k].inodeIdx = LL[k].inodeIdx
  PROVE  /\ EntriesOnce'
         /\ \A j \in OpenInodes' : HasFS /\ j \in OpenInodes
  <1>1. \A k \in DOMAIN LL' :
          LL'[k].inodeIdx < 0 \/ (HasFS /\ HasFS' /\ LL'[k].inodeIdx \in OnDisk
                                  /\ OnDisk' = OnDisk)
    BY DEF EntriesOnce, StoreStays, OnDisk
  <1>2. EntriesOnce'
    BY <1>1, EntryIndex DEF EntriesOnce
  <1>3. ASSUME NEW j \in OpenInodes'
        PROVE  HasFS /\ j \in OpenInodes
    <2>1. PICK k \in DOMAIN LL' : j = LL'[k].inodeIdx /\ j \in OnDisk'
      BY DEF OpenInodes
    <2>2. ~(j < 0)
      BY <2>1 DEF OnDisk
    <2> QED
      BY <1>1, <2>1, <2>2 DEF OpenInodes
  <1> QED
    BY <1>2, <1>3

LEMMA EntriesPop ==
  ASSUME TypeOK, EntriesOnce, StoreStays, LL # <<>>, LL' = Tail(LL)
  PROVE  /\ EntriesOnce'
         /\ \A j \in OpenInodes' : HasFS /\ j \in OpenInodes /\ j # fte.inodeIdx
  <1>1. /\ \A k \in DOMAIN LL' : k + 1 \in DOMAIN LL /\ LL'[k] = LL[k + 1]
        /\ \A k \in DOMAIN LL' : k \in Nat /\ k >= 1
        /\ 1 \in DOMAIN LL /\ fte = LL[1]
    BY OpenTail
  <1>2. \A k \in DOMAIN LL' :
          LL'[k].inodeIdx < 0 \/ (HasFS /\ HasFS' /\ LL'[k].inodeIdx \in OnDisk
                                  /\ OnDisk' = OnDisk)
    BY <1>1 DEF EntriesOnce, StoreStays, OnDisk
  <1>3. \A j, k \in DOMAIN LL' :
          j # k /\ LL'[j].inodeIdx >= 0 => LL'[j].inodeIdx # LL'[k].inodeIdx
    <2> SUFFICES ASSUME NEW j \in DOMAIN LL', NEW k \in DOMAIN LL', j # k,
                        LL'[j].inodeIdx >= 0
                 PROVE  LL'[j].inodeIdx # LL'[k].inodeIdx
      OBVIOUS
    <2>1. j + 1 # k + 1
      BY <1>1
    <2> QED
      BY <1>1, <2>1 DEF EntriesOnce
  <1>4. EntriesOnce'
    BY <1>2, <1>3 DEF EntriesOnce
  <1>5. ASSUME NEW j \in OpenInodes'
        PROVE  HasFS /\ j \in OpenInodes /\ j # fte.inodeIdx
    <2>1. PICK k \in DOMAIN LL' : j = LL'[k].inodeIdx /\ j \in OnDisk'
      BY DEF OpenInodes
    <2>2. j >= 0 /\ ~(j < 0) /\ k + 1 # 1
      BY <1>1, <2>1 DEF OnDisk
    <2>3. j = LL[k + 1].inodeIdx /\ k + 1 \in DOMAIN LL
      BY <1>1, <2>1
    <2>4. j # LL[1].inodeIdx
      BY <1>1, <2>2, <2>3 DEF EntriesOnce
    <2> QED
      BY <1>1, <1>2, <2>1, <2>2, <2>3, <2>4 DEF OpenInodes
  <1> QED
    BY <1>4, <1>5

LEMMA EntriesGrow ==
  ASSUME TypeOK, EntriesOnce, StoreStays,
         NEW e \in FTE, LL' = Append(LL, e),
         \/ e.inodeIdx < 0
         \/ /\ HasFS' /\ e.inodeIdx \in OnDisk'
            /\ \A k \in DOMAIN LL : LL[k].inodeIdx # e.inodeIdx
  PROVE  /\ EntriesOnce'
         /\ \A j \in OpenInodes' : (HasFS /\ j \in OpenInodes) \/ j = e.inodeIdx
  <1>1. \A k \in DOMAIN LL' : \/ k \in DOMAIN LL /\ LL'[k] = LL[k]
                              \/ k \notin DOMAIN LL /\ k = Len(LL) + 1 /\ LL'[k] = e
    BY OpenAppend
  <1>2. e.inodeIdx \in Int
    BY DEF FTE
  <1>3. \A k \in DOMAIN LL :
          LL[k].inodeIdx < 0 \/ (HasFS /\ HasFS' /\ LL[k].inodeIdx \in OnDisk
                                 /\ OnDisk' = OnDisk)
    BY DEF EntriesOnce, StoreStays, OnDisk
  <1>4. \A k \in DOMAIN LL' :
          LL'[k].inodeIdx < 0 \/ (HasFS' /\ LL'[k].inodeIdx \in OnDisk')
    BY <1>1, <1>3
  <1>5. \A j, k \in DOMAIN LL' :
          j # k /\ LL'[j].inodeIdx >= 0 => LL'[j].inodeIdx # LL'[k].inodeIdx
    <2> SUFFICES ASSUME NEW j \in DOMAIN LL', NEW k \in DOMAIN LL', j # k,
                        LL'[j].inodeIdx >= 0
                 PROVE  LL'[j].inodeIdx # LL'[k].inodeIdx
      OBVIOUS
    <2>1. CASE j \in DOMAIN LL /\ k \in DOMAIN LL
      BY <1>1, <2>1 DEF EntriesOnce
    <2>2. CASE j \in DOMAIN LL /\ k \notin DOMAIN LL
      <3>1. LL'[j] = LL[j] /\ LL'[k] = e
        BY <1>1, <2>2
      <3>2. LL[j].inodeIdx \in Int
        BY <2>2, EntryIndex
      <3> QED
        BY <1>2, <2>2, <3>1, <3>2
    <2>3. CASE j \notin DOMAIN LL /\ k \in DOMAIN LL
      <3>1. LL'[k] = LL[k] /\ LL'[j] = e
        BY <1>1, <2>3
      <3>2. ~(e.inodeIdx < 0)
        BY <1>2, <3>1
      <3> QED
        BY <2>3, <3>1, <3>2
    <2> QED
      BY <1>1, <2>1, <2>2, <2>3
  <1>6. EntriesOnce'
    BY <1>4, <1>5 DEF EntriesOnce
  <1>7. ASSUME NEW j \in OpenInodes'
        PROVE  (HasFS /\ j \in OpenInodes) \/ j = e.inodeIdx
    <2>1. PICK k \in DOMAIN LL' : j = LL'[k].inodeIdx /\ j \in OnDisk'
      BY DEF OpenInodes
    <2>2. ~(j < 0)
      BY <2>1 DEF OnDisk
    <2> QED
      BY <1>1, <1>3, <2>1, <2>2 DEF OpenInodes
  <1> QED
    BY <1>6, <1>7

LEMMA EntriesGone ==
  ASSUME LL' = <<>>
  PROVE  EntriesOnce' /\ OpenInodes' = {} /\ Unopened'
  <1>1. DOMAIN LL' = {}
    OBVIOUS
  <1> QED
    BY <1>1 DEF EntriesOnce, OpenInodes, Unopened

(* A call on the head of the list works on a file. *)
LEMMA HeadOpen ==
  ASSUME TypeOK, EntriesOnce, LL # <<>>, Readable(fte.inodeIdx)
  PROVE  HasFS /\ fte.inodeIdx \in OnDisk /\ fte.inodeIdx \in OpenInodes
  <1>1. fte = LL[1] /\ 1 \in DOMAIN LL
    BY ListKept, LenProperties DEF TypeOK
  <1>2. ~(LL[1].inodeIdx < 0)
    BY <1>1, EntryIndex DEF Readable
  <1> QED
    BY <1>1, <1>2 DEF EntriesOnce, OpenInodes

LEMMA NotMaking ==
  ASSUME \/ pc' \notin {"create", "validate", "format", "formatBlock", "formatEnd",
                        "allocWalk", "allocSuper", "allocLast", "createInode"}
         \/ pc' \notin Mounting /\ HasSuperblock'
  PROVE  MakingOK'
  BY DEF MakingOK, Allocating, Mounting

LEMMA NotOpening ==
  ASSUME pc' \notin Mounting \cup {"lookup"}
  PROVE  Unopened'
  BY DEF Unopened

-----------------------------------------------------------------------------
(* Owners when nothing is written *)

(* Where a call leaves nothing behind.                                     *)
Settled(L) == L = Indices \/ pc \notin Holding \cup {"deleteBlock", "deleteLast"}

(* What it leaves behind is in L.                                          *)
Dropped(o, L) ==
  \/ L = Indices
  \/ pc \notin {"deleteBlock", "deleteLast"} /\ \A j \in OnDisk \ L : o[j] # Held

LEMMA SettledDrops ==
  ASSUME NEW L, NEW o, NEW r, NEW h, Owned(o, r, h), Settled(L)
  PROVE  Dropped(o, L)
  BY DEF Settled, Dropped, Owned, HeldOwned

(* When the call returns, or has only begun, what it held is nobody's.     *)
LEMMA QuietOwners ==
  ASSUME NEW L, TypeOK, NEW o \in [Indices -> Int], NEW r \in [Indices -> Int], NEW h \in Nat,
         Owned(o, r, h), Placed(o, r, h, L), Dropped(o, L), UNCHANGED storage,
         \/ pc' \in Quiet
         \/ pc' = "writeAlloc" /\ (r[fte.inodeIdx] = 1)',
         \A j \in OpenInodes' : o[j] = j
  PROVE  HasPlaces(L)'
  <1> PICK q \in [Indices -> Int] :
        q = [j \in Indices |-> IF o[j] = Held THEN Nobody ELSE o[j]]
    <2>1. [j \in Indices |-> IF o[j] = Held THEN Nobody ELSE o[j]] \in [Indices -> Int]
      BY DEF Nobody
    <2> QED
      BY <2>1
  <1>1. /\ OnDisk' = OnDisk /\ disk' = disk /\ OnDisk \subseteq Indices
        /\ \A j \in OnDisk : q[j] = IF o[j] = Held THEN Nobody ELSE o[j]
        /\ Inodes' = Inodes
    BY OnDiskFacts DEF OnDisk, storage, Inodes
  <1>2. Linked(q, r)'
    BY <1>1 DEF Owned, Linked, Begins, Nobody, Held
  <1>3. Apart(q, r)'
    BY <1>1 DEF Owned, Apart, Nobody, Held
  <1>4. FreeOwned(q, r)'
    BY <1>1 DEF Owned, FreeOwned, Begins, Nobody, Held, Free, IsErased
  <1>5. FilesOwned(q, r)'
    <2>1. \A j \in OnDisk : j # Nobody /\ j # Held
      BY OnDiskFacts DEF Nobody, Held
    <2>2. ASSUME NEW i \in OnDisk, NEW b
          PROVE  DataOf(o, r, i, b) => DataOf(q, r, i, b)'
      BY <1>1, <2>1 DEF DataOf
    <2>3. \A j \in OnDisk : q[j] \in OnDisk => q[q[j]] = q[j] /\ r[j] <= r[q[j]]
      BY <1>1, <2>1 DEF Owned, FilesOwned
    <2>4. \A j \in Inodes :
            q[j] = j /\ (Buffers # {} => \E b \in Buffers : DataOf(q, r, j, b)')
      BY <1>1, <2>1, <2>2 DEF Owned, FilesOwned, Inodes
    <2>5. \A j \in OpenInodes' : q[j] = j
      BY <1>1, <2>1 DEF OpenInodes
    <2> QED
      BY <1>1, <2>3, <2>4, <2>5 DEF Owned, FilesOwned
  <1>6. HeldOwned(q, r, 0)'
    BY <1>1 DEF HeldOwned, Nobody, Held
  <1>7. Taking(q, r, 0)' /\ Giving(q, r, 0)' /\ Storing(q, r, 0)'
    BY DEF Taking, Giving, Storing, Bare, Wanting, Quiet, Mounting, Allocating
  <1>8. Placed(q, r, 0, L)'
    <2> SUFFICES ASSUME L # Indices
                 PROVE  (InUse(q, L) /\ ChainsEnd(q, r) /\ ChainsFit(r) /\ InHand(r, 0))'
      BY DEF Placed
    <2>1. InUse(o, L) /\ ChainsEnd(o, r) /\ ChainsFit(r)
      BY DEF Placed
    <2>2. pc \notin {"deleteBlock", "deleteLast"} /\ \A j \in OnDisk \ L : q[j] = o[j]
      BY <1>1 DEF Dropped
    <2>3. \A j \in OnDisk : q[j] # Held /\ (q[j] \in OnDisk => q[j] = o[j])
      BY <1>1, OnDiskFacts DEF Nobody, Held
    <2>4. InUse(q, L)' /\ ChainsEnd(q, r)'
      BY <1>1, <2>1, <2>2, <2>3 DEF InUse, ChainsEnd
    <2>5. ChainsFit(r)'
      BY <1>1, <2>1 DEF ChainsFit
    <2>6. InHand(r, 0)'
      BY DEF InHand, Quiet, Mounting
    <2> QED
      BY <2>4, <2>5, <2>6
  <1> QED
    BY <1>2, <1>3, <1>4, <1>5, <1>6, <1>7, <1>8 DEF HasPlaces, Owned

LEMMA StorageKept ==
  ASSUME UNCHANGED storage,
         pc \notin {"format", "formatBlock", "formatEnd"},
         pc' \notin {"format", "formatBlock", "formatEnd"}
  PROVE  StoreStays /\ (HasFS' => HasFS)
  BY DEF StoreStays, HasFS, HasSuperblock, storage

LEMMA QuietKept ==
  ASSUME NEW L, TypeOK, OwnersBut(L), Settled(L), UNCHANGED storage, pc' \in Quiet,
         HasFS' => HasFS,
         \A j \in OpenInodes' : j \in OpenInodes /\ pc # "deleteSuper"
  PROVE  HasFS' => HasPlaces(L)'
  <1> SUFFICES ASSUME HasFS, HasFS'
               PROVE  HasPlaces(L)'
    OBVIOUS
  <1>1. PICK o \in [Indices -> Int], r \in [Indices -> Int], h \in Nat :
          Owned(o, r, h) /\ Placed(o, r, h, L)
    BY PlaceParts DEF HasPlaces
  <1>2. \A j \in OpenInodes' : o[j] = j
    BY <1>1 DEF Owned, FilesOwned
  <1> QED
    BY <1>1, <1>2, QuietOwners, SettledDrops

(* A call that writes nothing returns or reads on; the open files are the  *)
(* same, a file is closed, or an offset moves.                             *)
LEMMA ReturnOwners ==
  ASSUME NEW L, TypeOK, OwnersBut(L), Settled(L), UNCHANGED storage,
         pc' \in {"idle", "readWalk"},
         pc \notin {"format", "formatBlock", "formatEnd", "deleteSuper"},
         \/ LL' = LL
         \/ LL # <<>> /\ LL' = Tail(LL)
         \/ LL # <<>> /\ \E x : SetOffset(x)
  PROVE  OwnersBut(L)'
  <1>1. StoreStays /\ (HasFS' => HasFS) /\ EntriesOnce
    BY StorageKept, PlaceParts
  <1>2. EntriesOnce' /\ \A j \in OpenInodes' : j \in OpenInodes
    BY <1>1, EntriesStay, EntriesPop, OpenSame
  <1>3. Unopened' /\ MakingOK'
    BY NotMaking, NotOpening DEF Mounting
  <1>4. HasFS' => HasPlaces(L)'
    BY <1>1, <1>2, QuietKept DEF Quiet
  <1> QED
    BY <1>2, <1>3, <1>4, PlacePartsNext

(* An image of one block is the superblock's. *)
LEMMA NoBlocks ==
  ASSUME NEW L, size' = 1, pc' \in Quiet,
         disk'[0].body.kind = "super", disk'[0].body.freeCount = 0,
         disk'[0].body.firstFree \in {0, 1}
  PROVE  HasPlaces(L)'
  <1> DEFINE z == [j \in Indices |-> 0]
  <1>1. OnDisk' = {} /\ z \in [Indices -> Int]
    BY DEF OnDisk
  <1> HIDE DEF z
  <1>2. Linked(z, z)' /\ Apart(z, z)' /\ FilesOwned(z, z)' /\ HeldOwned(z, z, 0)'
    BY <1>1 DEF Linked, Apart, FilesOwned, HeldOwned, Inodes, OpenInodes
  <1>3. FreeOwned(z, z)'
    BY <1>1 DEF FreeOwned, Begins, FreeCount, FirstFree
  <1>4. Taking(z, z, 0)' /\ Giving(z, z, 0)' /\ Storing(z, z, 0)'
    BY DEF Taking, Giving, Storing, Bare, Wanting, Quiet, Mounting, Allocating
  <1>5. Placed(z, z, 0, L)'
    BY <1>1 DEF Placed, InUse, ChainsEnd, ChainsFit, InHand, Inodes, Quiet, Mounting
  <1> QED
    BY <1>1, <1>2, <1>3, <1>4, <1>5 DEF HasPlaces, Owned

(* The end of the process, anywhere but in the loop of tfs_format. *)
LEMMA DieOwners ==
  ASSUME NEW L, TypeOK, OwnersBut(L), Settled(L), Die, pc # "formatBlock"
  PROVE  OwnersBut(L)'
  <1>1. LL' = <<>> /\ pc' = "idle" /\ UNCHANGED storage
    BY DEF Die
  <1>2. EntriesOnce' /\ Unopened' /\ OpenInodes' = {}
    BY <1>1, EntriesGone
  <1>3. MakingOK'
    BY <1>1, NotMaking
  <1>4. CASE pc = "formatEnd"
    <2>1. size' = 1 /\ disk'[0].body = SuperBody(0, 1)
      BY <1>1, <1>4 DEF OwnersBut, MakingOK, storage
    <2>2. HasPlaces(L)'
      BY <1>1, <2>1, NoBlocks DEF SuperBody, Quiet
    <2> QED
      BY <1>2, <1>3, <2>2, PlacePartsNext
  <1>5. CASE pc = "format"
    <2>1. ~HasFS'
      BY <1>1, <1>5 DEF OwnersBut, MakingOK, HasFS, HasSuperblock, storage
    <2> QED
      BY <1>2, <1>3, <2>1, PlacePartsNext
  <1>6. CASE pc \notin {"format", "formatEnd"}
    <2>1. HasFS' => HasFS
      BY <1>1, <1>6, StorageKept
    <2>2. HasFS' => HasPlaces(L)'
      BY <1>1, <1>2, <2>1, QuietKept DEF Quiet
    <2> QED
      BY <1>2, <1>3, <2>2, PlacePartsNext
  <1> QED
    BY <1>4, <1>5, <1>6

-----------------------------------------------------------------------------
(* tfs_mount, tfs_mkfs *)

LEMMA UnopenedStays ==
  ASSUME TypeOK, EntriesOnce, Unopened, pc \in Mounting, LL' = LL,
         loc'.then = loc.then, loc'.name = loc.name,
         UNCHANGED storage \/ ~HasFS
  PROVE  Unopened'
  <1>1. CASE ~HasFS
    BY <1>1 DEF EntriesOnce, Unopened
  <1>2. CASE UNCHANGED storage
    <2>1. FindByName(loc.name)' = FindByName(loc.name)
      <3>1. Hits(loc.name)' = Hits(loc.name)
        BY <1>2 DEF Hits, storage
      <3> QED
        BY <3>1 DEF FindByName
    <2> QED
      BY <1>2, <2>1 DEF Unopened
  <1> QED
    BY <1>1, <1>2

LEMMA MountLocals ==
  ASSUME NEW L, TypeOK, CallOK, pc \in Mounting, NEW fd, MountReturns(fd),
         OwnersBut(L), UNCHANGED storage \/ ~HasFS
  PROVE  LL' = LL /\ pc' \in {"idle", "lookup"} /\ Unopened' /\ MakingOK'
  <1>1. LL' = LL /\ pc' \in {"idle", "lookup"}
    BY DEF MountReturns, Return, ReturnByte, Goto
  <1>2. pc' = "lookup" => loc'.then = loc.then /\ loc'.name = loc.name
    BY DEF MountReturns, Return, ReturnByte, Goto, TypeOK, Locals
  <1>3. Unopened'
    <2>1. CASE pc' = "lookup"
      BY <1>1, <1>2, <2>1, UnopenedStays, PlaceParts
    <2>2. CASE pc' = "idle"
      BY <2>2, NotOpening DEF Mounting
    <2> QED
      BY <1>1, <2>1, <2>2
  <1>4. MakingOK'
    BY <1>1, NotMaking
  <1> QED
    BY <1>1, <1>3, <1>4

LEMMA ClientMountOwners ==
  ASSUME NEW L, TypeOK, OwnersBut(L), ClientMount
  PROVE  OwnersBut(L)'
  <1>1. /\ pc = "idle" /\ pc' = "mount" /\ UNCHANGED storage /\ LL' = LL
        /\ loc' = [NoCall EXCEPT !.then = "client"]
    BY DEF ClientMount, Call, session
  <1>2. loc'.then = "client"
    BY <1>1 DEF NoCall
  <1>3. Unopened' /\ MakingOK'
    BY <1>1, <1>2, NotMaking DEF Unopened
  <1>4. StoreStays /\ (HasFS' => HasFS)
    BY <1>1, StorageKept
  <1>5. EntriesOnce' /\ \A j \in OpenInodes' : j \in OpenInodes
    BY <1>1, <1>4, EntriesStay, PlaceParts
  <1>6. HasFS' => HasPlaces(L)'
    BY <1>1, <1>4, <1>5, QuietKept DEF Quiet, Mounting, Settled, Holding
  <1> QED
    BY <1>3, <1>5, <1>6, PlacePartsNext

LEMMA OpenFileOwners ==
  ASSUME NEW L, TypeOK, OwnersBut(L), Careful, NEW n \in Names, OpenFile(n)
  PROVE  OwnersBut(L)'
  <1>1. /\ pc = "idle" /\ pc' \in {"mount", "lookup"} /\ UNCHANGED storage /\ LL' = LL
        /\ loc' = [NoCall EXCEPT !.then = "tfs_openFile", !.name = n]
    BY DEF OpenFile, Call, session
  <1>2. loc'.name = n
    BY <1>1 DEF NoCall
  <1>3. \A k \in DOMAIN LL : LL[k].inodeIdx # FindByName(n)
    BY DEF OpenFile, MayOpen, Careful
  <1>4. FindByName(loc.name)' = FindByName(n)
    <2>1. Hits(loc.name)' = Hits(n)
      BY <1>1, <1>2 DEF Hits, storage
    <2> QED
      BY <2>1 DEF FindByName
  <1>5. Unopened' /\ MakingOK'
    BY <1>1, <1>3, <1>4, NotMaking DEF Unopened
  <1>6. StoreStays /\ (HasFS' => HasFS)
    BY <1>1, StorageKept
  <1>7. EntriesOnce' /\ \A j \in OpenInodes' : j \in OpenInodes
    BY <1>1, <1>6, EntriesStay, PlaceParts
  <1>8. HasFS' => HasPlaces(L)'
    BY <1>1, <1>6, <1>7, QuietKept DEF Quiet, Mounting, Settled, Holding
  <1> QED
    BY <1>5, <1>7, <1>8, PlacePartsNext

LEMMA MountOpensOwners ==
  ASSUME NEW L, TypeOK, CallOK, OwnersBut(L), Careful, MountOpens
  PROVE  OwnersBut(L)'
  <1>1. pc = "mount" /\ LL' = LL /\ loc' = loc
    BY DEF MountOpens, Goto, session
  <1>2. CASE size >= 0 /\ Goto("validate", loc) /\ UNCHANGED size
    <2>1. pc' = "validate" /\ UNCHANGED storage /\ size' >= 0
      BY <1>2 DEF MountOpens, Goto, storage
    <2>2. MakingOK'
      BY <2>1 DEF MakingOK, Allocating
    <2>3. Unopened'
      BY <1>1, <2>1, UnopenedStays, PlaceParts DEF Mounting
    <2>4. StoreStays /\ (HasFS' => HasFS)
      BY <1>1, <2>1, StorageKept
    <2>5. EntriesOnce' /\ \A j \in OpenInodes' : j \in OpenInodes
      BY <1>1, <2>4, EntriesStay, PlaceParts
    <2>6. HasFS' => HasPlaces(L)'
      BY <1>1, <2>1, <2>4, <2>5, QuietKept DEF Quiet, Mounting, Settled, Holding
    <2> QED
      BY <2>2, <2>3, <2>5, <2>6, PlacePartsNext
  <1>3. CASE size = -1 /\ Goto("create", loc) /\ size' = 0
    <2>1. ~HasFS /\ ~HasFS' /\ ~HasSuperblock' /\ pc' = "create"
      BY <1>3 DEF HasFS, HasSuperblock, Goto
    <2>2. MakingOK'
      BY <2>1 DEF MakingOK, Allocating
    <2>3. Unopened'
      BY <1>1, <2>1, UnopenedStays, PlaceParts DEF Mounting
    <2>4. EntriesOnce'
      BY <1>1, <2>1, EntriesStay, PlaceParts DEF StoreStays
    <2> QED
      BY <2>1, <2>2, <2>3, <2>4, PlacePartsNext
  <1> QED
    BY <1>2, <1>3 DEF MountOpens, Careful

LEMMA CreateBlockOwners ==
  ASSUME NEW L, TypeOK, CallOK, OwnersBut(L), CreateBlock
  PROVE  OwnersBut(L)'
  <1>1. /\ pc = "create" /\ LL' = LL /\ loc' = loc /\ pc' \in {"create", "validate"}
        /\ size' = size + 1 /\ size \in 0..(NBlocks - 1) /\ ~HasSuperblock
        /\ disk' = [disk EXCEPT ![size] = RawBlock]
    BY DEF CreateBlock, Goto, session, CallOK, OwnersBut, MakingOK
  <1>2. size \in Indices /\ 0 \in Indices /\ disk \in [Indices -> Block]
    BY <1>1, OnDiskFacts DEF Indices
  <1>3. ~HasSuperblock'
    <2>1. disk'[0] = IF size = 0 THEN RawBlock ELSE disk[0]
      BY <1>1, <1>2
    <2>2. RawBlock.type # sb
      BY DEF RawBlock, sb
    <2> QED
      BY <1>1, <2>1, <2>2 DEF HasSuperblock
  <1>4. ~HasFS /\ ~HasFS'
    BY <1>1, <1>3 DEF HasFS
  <1>5. MakingOK'
    BY <1>1, <1>3 DEF MakingOK, Allocating
  <1>6. Unopened'
    BY <1>1, <1>4, UnopenedStays, PlaceParts DEF Mounting
  <1>7. EntriesOnce'
    BY <1>1, <1>4, EntriesStay, PlaceParts DEF StoreStays
  <1> QED
    BY <1>4, <1>5, <1>6, <1>7, PlacePartsNext

LEMMA ValidateOwners ==
  ASSUME NEW L, TypeOK, CallOK, OwnersBut(L), Validate
  PROVE  OwnersBut(L)'
  <1>1. pc = "validate" /\ UNCHANGED storage /\ pc \in Mounting /\ size >= 0
    BY DEF Validate, Mounting, OwnersBut, MakingOK
  <1>2. CASE MountReturns(Mounted)
    <2>1. LL' = LL /\ pc' \in {"idle", "lookup"} /\ Unopened' /\ MakingOK'
      BY <1>1, <1>2, MountLocals
    <2>2. StoreStays /\ (HasFS' => HasFS)
      BY <1>1, <2>1, StorageKept
    <2>3. EntriesOnce' /\ \A j \in OpenInodes' : j \in OpenInodes
      BY <2>1, <2>2, EntriesStay, PlaceParts
    <2>4. HasFS' => HasPlaces(L)'
      BY <1>1, <2>1, <2>2, <2>3, QuietKept DEF Quiet, Settled, Holding
    <2> QED
      BY <2>1, <2>3, <2>4, PlacePartsNext
  <1>3. CASE ~(size = 0 \/ HasSuperblock) /\ Goto("format", loc) /\ UNCHANGED session
    <2>1. /\ pc' = "format" /\ LL' = LL /\ loc' = loc /\ ~HasFS /\ ~HasFS'
          /\ ~HasSuperblock' /\ size' >= 1
      BY <1>1, <1>3 DEF HasFS, HasSuperblock, Goto, session, storage, TypeOK
    <2>2. MakingOK'
      BY <2>1 DEF MakingOK, Allocating
    <2>3. Unopened'
      BY <1>1, <2>1, UnopenedStays, PlaceParts
    <2>4. EntriesOnce'
      BY <2>1, EntriesStay, PlaceParts DEF StoreStays
    <2> QED
      BY <2>1, <2>2, <2>3, <2>4, PlacePartsNext
  <1> QED
    BY <1>2, <1>3 DEF Validate

LEMMA FormatSuperOwners ==
  ASSUME NEW L, TypeOK, OwnersBut(L), FormatSuper
  PROVE  OwnersBut(L)'
  <1>1. /\ pc = "format" /\ LL' = LL /\ size' = size /\ size >= 1
        /\ pc' = IF size = 1 THEN "formatEnd" ELSE "formatBlock"
        /\ loc' = [loc EXCEPT !.cur = 1]
        /\ disk' = [disk EXCEPT ![0] = [type |-> sb, nextIdx |-> 0,
                                        body |-> SuperBody(size - 1, 1)]]
    BY DEF FormatSuper, WriteBlock, Goto, session, OwnersBut, MakingOK
  <1>2. loc'.cur = 1 /\ loc'.then = loc.then /\ loc'.name = loc.name
    BY <1>1 DEF TypeOK, Locals
  <1>3. disk'[0] = [type |-> sb, nextIdx |-> 0, body |-> SuperBody(size' - 1, 1)]
    BY <1>1, OnDiskFacts
  <1>4. ~HasFS /\ ~HasFS'
    BY <1>1 DEF HasFS
  <1>5. MakingOK'
    <2>1. HasSuperblock' /\ disk'[0].body = SuperBody(size' - 1, 1)
      BY <1>1, <1>3 DEF HasSuperblock
    <2> QED
      BY <1>1, <1>2, <2>1, OnDiskFacts DEF MakingOK, Allocating
  <1>6. Unopened'
    BY <1>1, <1>2, <1>4, UnopenedStays, PlaceParts DEF Mounting
  <1>7. EntriesOnce'
    BY <1>1, <1>4, EntriesStay, PlaceParts DEF StoreStays
  <1> QED
    BY <1>4, <1>5, <1>6, <1>7, PlacePartsNext

(* A disk just formatted: every block is free, and before the next one. *)
LEMMA AllFree ==
  ASSUME NEW L, TypeOK, size >= 1, pc' \in Quiet, UNCHANGED storage, OpenInodes' = {},
         disk[0].body = SuperBody(size - 1, 1),
         \A j \in 1..(size - 1) : disk[j] = FreshBlock(j)
  PROVE  HasPlaces(L)'
  <1> PICK z \in [Indices -> Int] : z = [j \in Indices |-> Free]
    <2>1. [j \in Indices |-> Free] \in [Indices -> Int]
      BY DEF Free
    <2> QED
      BY <2>1
  <1> PICK n \in Int : n = size
    BY DEF TypeOK
  <1> PICK r \in [Indices -> Int] : r = [j \in Indices |-> n - j]
    <2>1. [j \in Indices |-> n - j] \in [Indices -> Int]
      BY DEF Indices
    <2> QED
      BY <2>1
  <1>1. /\ OnDisk' = 1..(n - 1) /\ n >= 1
        /\ \A j \in OnDisk' : z[j] = Free /\ r[j] = n - j /\ j \in Int
        /\ \A j \in OnDisk' : disk'[j] = FreshBlock(j)
        /\ disk'[0].body = SuperBody(n - 1, 1)
    BY OnDiskFacts DEF OnDisk, storage
  <1>2. \A j \in OnDisk' : /\ disk'[j].nextIdx = j + 1 /\ disk'[j].type = FB
                           /\ disk'[j].body = ZeroBody
    <2> SUFFICES ASSUME NEW j \in OnDisk'
                 PROVE  /\ disk'[j].nextIdx = j + 1 /\ disk'[j].type = FB
                        /\ disk'[j].body = ZeroBody
      OBVIOUS
    <2>1. disk'[j] = FreshBlock(j)
      BY <1>1
    <2>2. disk'[j] = [type |-> FB, nextIdx |-> j + 1, body |-> ZeroBody]
      BY <2>1 DEF FreshBlock
    <2> QED
      BY <2>2
  <1>3. Linked(z, r)'
    <2> SUFFICES ASSUME NEW j \in OnDisk'
                 PROVE  r[j] >= 1 /\ Begins(z, r, z[j], disk[j].nextIdx, r[j] - 1)'
      BY DEF Linked
    <2>1. j \in 1..(n - 1) /\ z[j] = Free /\ r[j] = n - j /\ disk'[j].nextIdx = j + 1
      BY <1>1, <1>2
    <2>2. j + 1 \in OnDisk' => z[j + 1] = Free /\ r[j + 1] = n - (j + 1)
      BY <1>1
    <2>3. j + 1 \in OnDisk' <=> n - j - 1 # 0
      BY <1>1, <2>1
    <2> QED
      <3>1. r[j] - 1 = n - j - 1 /\ r[j] >= 1 /\ n - j - 1 \in Int
        BY <2>1
      <3>2. CASE n - j - 1 = 0
        <4>1. j + 1 \notin OnDisk'
          BY <2>3, <3>2
        <4> QED
          BY <2>1, <3>1, <3>2, <4>1 DEF Begins
      <3>3. CASE n - j - 1 # 0
        <4>1. j + 1 \in OnDisk' /\ z[j + 1] = z[j] /\ r[j + 1] = r[j] - 1
          BY <2>1, <2>2, <2>3, <3>1, <3>3
        <4> QED
          BY <2>1, <3>1, <3>3, <4>1 DEF Begins
      <3> QED
        BY <3>2, <3>3
  <1>4. Apart(z, r)'
    BY <1>1 DEF Apart
  <1>5. FreeOwned(z, r)'
    <2>1. disk'[0].body.kind = "super" /\ FirstFree(disk[0])' = 1 /\ FreeCount(disk[0])' = n - 1
      BY <1>1 DEF FirstFree, FreeCount, SuperBody
    <2>2. Begins(z, r, Free, 1, n - 1)'
      BY <1>1 DEF Begins
    <2>3. \A j \in OnDisk' : r[j] <= n - 1 /\ IsErased(j)'
      BY <1>1, <1>2 DEF IsErased
    <2> QED
      BY <2>1, <2>2, <2>3 DEF FreeOwned
  <1>6. FilesOwned(z, r)'
    <2>1. Inodes' = {}
      BY <1>2 DEF Inodes, FB, inode
    <2>2. \A j \in OnDisk' : z[j] \notin OnDisk' /\ disk'[j].body.kind # "super"
      <3>1. Free \notin OnDisk'
        BY <1>1 DEF Free
      <3>2. ZeroBody.kind # "super"
        BY DEF ZeroBody
      <3> QED
        BY <1>1, <1>2, <3>1, <3>2
    <2> QED
      BY <2>1, <2>2 DEF FilesOwned
  <1>7. HeldOwned(z, r, 0)'
    BY <1>1 DEF HeldOwned, Held, Free
  <1>8. Taking(z, r, 0)' /\ Giving(z, r, 0)' /\ Storing(z, r, 0)'
    BY DEF Taking, Giving, Storing, Bare, Wanting, Quiet, Mounting, Allocating
  <1>9. Placed(z, r, 0, L)'
    <2>1. Inodes' = {}
      BY <1>2 DEF Inodes, FB, inode
    <2>2. \A j \in OnDisk' : z[j] = Free /\ z[j] \notin OnDisk' /\ z[j] # Held
      <3>1. Free \notin OnDisk' /\ Free # Held
        BY <1>1 DEF Free, Held
      <3> QED
        BY <1>1, <3>1
    <2> QED
      BY <2>1, <2>2 DEF Placed, InUse, ChainsEnd, ChainsFit, InHand, Quiet, Mounting
  <1> QED
    BY <1>3, <1>4, <1>5, <1>6, <1>7, <1>8, <1>9 DEF HasPlaces, Owned

LEMMA NoEntries ==
  ASSUME EntriesOnce, ~HasFS, LL' = LL
  PROVE  EntriesOnce' /\ OpenInodes' = {}
  <1>1. \A k \in DOMAIN LL' : LL'[k].inodeIdx < 0
    BY DEF EntriesOnce
  <1>2. \A k \in DOMAIN LL' : LL'[k].inodeIdx \notin OnDisk'
    BY <1>1 DEF OnDisk
  <1> QED
    BY <1>1, <1>2 DEF EntriesOnce, OpenInodes

LEMMA FormatBlockOwners ==
  ASSUME NEW L, TypeOK, CallOK, OwnersBut(L), FormatBlock
  PROVE  OwnersBut(L)'
  <1>1. /\ pc = "formatBlock" /\ pc \in Mounting /\ size >= 1 /\ HasSuperblock /\ ~HasFS
        /\ disk[0].body = SuperBody(size - 1, 1) /\ size \in 1..NBlocks
        /\ loc.cur \in 1..size /\ \A j \in 1..(loc.cur - 1) : disk[j] = FreshBlock(j)
    BY DEF FormatBlock, Mounting, OwnersBut, MakingOK, HasFS, HasSuperblock, TypeOK
  <1>2. CASE loc.cur < size
    <2> DEFINE x == loc.cur
               b == [type |-> FB, nextIdx |-> ToIdx(x + 1), body |-> ZeroBody]
    <2>1. /\ disk' = [disk EXCEPT ![x] = b] /\ size' = size /\ LL' = LL
          /\ pc' = "formatBlock" /\ loc' = [loc EXCEPT !.cur = x + 1]
      BY <1>2 DEF FormatBlock, WriteBlock, Goto, session
    <2>2. loc'.cur = x + 1 /\ loc'.then = loc.then /\ loc'.name = loc.name
      BY <2>1 DEF TypeOK, Locals
    <2>3. b = FreshBlock(x)
      BY <1>1, <1>2, SizesAssumption DEF FreshBlock, ToIdx
    <2>4. /\ disk'[0] = disk[0] /\ \A j \in 1..(x - 1) : disk'[j] = disk[j]
          /\ disk'[x] = FreshBlock(x)
      <3>1. x \in Indices /\ x # 0 /\ 0 \in Indices /\ 1..(x - 1) \subseteq Indices
            /\ x \notin 1..(x - 1) /\ disk \in [Indices -> Block]
        BY <1>1, <1>2, OnDiskFacts DEF Indices
      <3> HIDE DEF x, b
      <3> QED
        BY <2>1, <2>3, <3>1
    <2>5. \A j \in 1..(loc'.cur - 1) : disk'[j] = FreshBlock(j)
      <3>1. \A j \in 1..((x + 1) - 1) : j \in 1..(x - 1) \/ j = x
        BY <1>1
      <3> HIDE DEF x, b
      <3> QED
        BY <1>1, <2>2, <2>4, <3>1 DEF x
    <2>6. ~HasFS'
      BY <2>1 DEF HasFS
    <2>7. MakingOK'
      BY <1>1, <1>2, <2>1, <2>2, <2>4, <2>5 DEF MakingOK, HasSuperblock, FreshBlock, Allocating
    <2>8. Unopened'
      BY <1>1, <2>1, <2>2, UnopenedStays, PlaceParts
    <2> QED
      BY <1>1, <2>1, <2>6, <2>7, <2>8, NoEntries, PlaceParts, PlacePartsNext
  <1>3. CASE ~(loc.cur < size)
    <2>1. MountReturns(Mounted) /\ UNCHANGED storage
      BY <1>3 DEF FormatBlock
    <2>2. LL' = LL /\ pc' \in {"idle", "lookup"} /\ Unopened' /\ MakingOK'
      BY <1>1, <2>1, MountLocals
    <2>3. EntriesOnce' /\ OpenInodes' = {}
      BY <1>1, <2>2, NoEntries, PlaceParts
    <2>4. \A j \in 1..(size - 1) : disk[j] = FreshBlock(j)
      BY <1>1, <1>3
    <2>5. HasPlaces(L)'
      BY <1>1, <2>1, <2>2, <2>3, <2>4, AllFree DEF Quiet
    <2> QED
      BY <2>2, <2>3, <2>5, PlacePartsNext
  <1> QED
    BY <1>2, <1>3

LEMMA FormatEndOwners ==
  ASSUME NEW L, TypeOK, CallOK, OwnersBut(L), FormatEnd
  PROVE  OwnersBut(L)'
  <1>1. /\ pc = "formatEnd" /\ pc \in Mounting /\ size = 1 /\ ~HasFS
        /\ MountReturns(Mounted) /\ size' = size
        /\ disk' = [disk EXCEPT ![0] = [type |-> sb, nextIdx |-> 0,
                                        body |-> SuperBody(0, 0)]]
    BY DEF FormatEnd, WriteBlock, Mounting, OwnersBut, MakingOK, HasFS
  <1>2. LL' = LL /\ pc' \in {"idle", "lookup"} /\ Unopened' /\ MakingOK'
    BY <1>1, MountLocals
  <1>3. EntriesOnce'
    BY <1>1, <1>2, NoEntries, PlaceParts
  <1>4. disk'[0] = [type |-> sb, nextIdx |-> 0, body |-> SuperBody(0, 0)]
    BY <1>1, OnDiskFacts
  <1>5. HasPlaces(L)'
    BY <1>1, <1>2, <1>4, NoBlocks DEF SuperBody, Quiet
  <1> QED
    BY <1>2, <1>3, <1>5, PlacePartsNext

-----------------------------------------------------------------------------
(* Steps that only look *)

LEMMA QuietClient ==
  ASSUME NEW L, TypeOK, OwnersBut(L), Unmount \/ Refused \/ ListMissing
  PROVE  OwnersBut(L)'
  <1>1. CASE Unmount
    <2>1. UNCHANGED storage /\ pc' = "idle" /\ pc = "idle" /\ LL' = LL
      BY <1>1 DEF Unmount, Return, ReturnByte
    <2> QED
      BY <2>1, ReturnOwners DEF Settled, Holding
  <1>2. CASE Refused
    <2>1. UNCHANGED storage /\ pc' = "idle" /\ pc = "idle" /\ LL' = LL
      BY <1>2 DEF Refused, Return, ReturnByte, session
    <2> QED
      BY <2>1, ReturnOwners DEF Settled, Holding
  <1>3. CASE ListMissing
    BY <1>3, DieOwners DEF ListMissing, Settled, Holding
  <1> QED
    BY <1>1, <1>2, <1>3

LEMMA QuietServed ==
  ASSUME NEW L, TypeOK, OwnersBut(L), NEW FD,
         \/ CloseFile(FD) \/ ReadByte(FD) \/ GetTimeStamp(FD) \/ DeleteFileDies(FD)
         \/ IndexHit(FD)
         \/ \E x \in Offsets : Seek(FD, x)
  PROVE  OwnersBut(L)'
  <1>1. CASE CloseFile(FD)
    <2>1. /\ UNCHANGED storage /\ pc' = "idle" /\ pc = "idle"
          /\ LL # <<>> /\ LL' = Tail(LL)
      BY <1>1 DEF CloseFile, CloseHead, Return, ReturnByte, Served
    <2> QED
      BY <2>1, ReturnOwners DEF Settled, Holding
  <1>2. CASE ReadByte(FD)
    <2>1. /\ UNCHANGED storage /\ pc' \in {"idle", "readWalk"} /\ pc = "idle" /\ LL' = LL
      BY <1>2 DEF ReadByte, Return, ReturnByte, Call, Served, session
    <2> QED
      BY <2>1, ReturnOwners DEF Settled, Holding
  <1>3. CASE GetTimeStamp(FD)
    <2>1. UNCHANGED storage /\ pc' = "idle" /\ pc = "idle" /\ LL' = LL
      BY <1>3 DEF GetTimeStamp, Return, ReturnByte, Served, session
    <2> QED
      BY <2>1, ReturnOwners DEF Settled, Holding
  <1>4. CASE DeleteFileDies(FD)
    BY <1>4, DieOwners DEF DeleteFileDies, Served, Settled, Holding
  <1>5. CASE IndexHit(FD)
    <2>1. pc = "idle"
      BY <1>5 DEF IndexHit
    <2>2. Die \/ (UNCHANGED storage /\ pc' = "idle" /\ LL' = LL)
      BY <1>5 DEF IndexHit, Return, ReturnByte, session
    <2> QED
      BY <2>1, <2>2, DieOwners, ReturnOwners DEF Settled, Holding
  <1>6. CASE \E x \in Offsets : Seek(FD, x)
    <2>1. /\ UNCHANGED storage /\ pc' = "idle" /\ pc = "idle"
          /\ LL # <<>> /\ \E x : SetOffset(x)
      BY <1>6 DEF Seek, Return, ReturnByte, Served
    <2> QED
      BY <2>1, ReturnOwners DEF Settled, Holding
  <1> QED
    BY <1>1, <1>2, <1>3, <1>4, <1>5, <1>6

(* A call in the middle of its work on the file at the head. *)
LEMMA WorkPlaced ==
  ASSUME NEW L, TypeOK, CallOK, OwnersBut(L),
         pc \in Working \/ (pc \in Allocating /\ loc.then = "tfs_writeFile")
  PROVE  /\ HasFS /\ fte.inodeIdx \in OnDisk /\ fte.inodeIdx \in OpenInodes
         /\ LL # <<>> /\ diskFd = Mounted /\ Readable(fte.inodeIdx)
         /\ \E o, r \in [Indices -> Int], h \in Nat : Owned(o, r, h) /\ Placed(o, r, h, L)
  <1>1. LL # <<>> /\ Readable(fte.inodeIdx)
    BY DEF CallOK
  <1>2. HasFS /\ fte.inodeIdx \in OnDisk /\ fte.inodeIdx \in OpenInodes
    BY <1>1, HeadOpen, PlaceParts
  <1> QED
    BY <1>1, <1>2, PlaceParts DEF HasPlaces, Readable

LEMMA WorkOwners ==
  ASSUME TypeOK, CallOK, OwnersInv,
         pc \in Working \/ (pc \in Allocating /\ loc.then = "tfs_writeFile")
  PROVE  /\ HasFS /\ fte.inodeIdx \in OnDisk /\ fte.inodeIdx \in OpenInodes
         /\ LL # <<>> /\ diskFd = Mounted /\ Readable(fte.inodeIdx)
         /\ \E o, r \in [Indices -> Int], h \in Nat : Owned(o, r, h)
  <1>1. LL # <<>> /\ Readable(fte.inodeIdx)
    BY DEF CallOK
  <1>2. HasFS /\ fte.inodeIdx \in OnDisk /\ fte.inodeIdx \in OpenInodes
    BY <1>1, HeadOpen, InvParts
  <1> QED
    BY <1>1, <1>2, InvParts DEF HasOwners, Readable

LEMMA OnDiskReadable ==
  ASSUME TypeOK, diskFd = Mounted, NEW x \in OnDisk
  PROVE  Readable(x)
  <1>1. x \in 1..(size - 1) /\ size \in Int
    BY OnDiskFacts DEF OnDisk
  <1>2. 0 <= x /\ x < size
    BY <1>1
  <1> QED
    BY <1>2 DEF Readable

(* A deletion fails in its loop only if something was lost. *)
LEMMA DeleteGoesOn ==
  ASSUME NEW L, TypeOK, CallOK, OwnersBut(L), L # Indices
  PROVE  ~DeleteBlockFails
  <1> SUFFICES ASSUME DeleteBlockFails
               PROVE  FALSE
    OBVIOUS
  <1>1. pc = "deleteBlock" /\ ~Readable(loc.cur)
    BY DEF DeleteBlockFails
  <1>2. /\ fte.inodeIdx \in OnDisk /\ diskFd = Mounted
        /\ \E o, r \in [Indices -> Int], h \in Nat : Owned(o, r, h) /\ Placed(o, r, h, L)
    BY <1>1, WorkPlaced DEF Working
  <1>3. PICK o \in [Indices -> Int], r \in [Indices -> Int], h \in Nat :
          Owned(o, r, h) /\ Placed(o, r, h, L)
    BY <1>2
  <1> PICK x \in Int, c \in Nat : x = loc.cur /\ c = loc.count
    BY LocalFields
  <1> PICK i \in OnDisk : i = fte.inodeIdx
    BY <1>2
  <1>4. c < r[i] /\ r[i] \in Int
    BY <1>1, <1>3, OnDiskFacts DEF Placed, InHand
  <1>5. Begins(o, r, i, x, r[i] - c)
    BY <1>1, <1>3 DEF Owned, Giving
  <1>6. x \in OnDisk
    BY <1>4, <1>5 DEF Begins
  <1> QED
    BY <1>1, <1>2, <1>6, OnDiskReadable

LEMMA QuietSteps ==
  ASSUME NEW L, TypeOK, CallOK, OwnersBut(L),
         WriteDataFails \/ DeleteBlockFails \/ ReadWalk \/ ReadWalkFails
  PROVE  OwnersBut(L)'
  <1>1. CASE WriteDataFails \/ DeleteBlockFails \/ ReadWalkFails
    <2>1. /\ UNCHANGED storage /\ pc' = "idle" /\ LL' = LL
          /\ pc \in {"writeData", "deleteBlock", "readWalk"}
      BY <1>1 DEF WriteDataFails, DeleteBlockFails, ReadWalkFails, Return,
                  ReturnByte, session
    <2>2. Settled(L)
      BY <1>1, <2>1, DeleteGoesOn DEF WriteDataFails, ReadWalkFails, Settled, Holding
    <2> QED
      BY <2>1, <2>2, ReturnOwners
  <1>2. CASE ReadWalk
    <2>1. /\ UNCHANGED storage /\ pc' \in {"idle", "readWalk"} /\ pc = "readWalk"
          /\ LL' = LL \/ \E x : SetOffset(x)
      BY <1>2 DEF ReadWalk, ReturnByte, Goto
    <2>2. LL # <<>>
      BY <2>1 DEF CallOK, Working
    <2> QED
      BY <2>1, <2>2, ReturnOwners DEF Settled, Holding
  <1> QED
    BY <1>1, <1>2

-----------------------------------------------------------------------------
(* Steps that write nothing, and know more *)

(* All that speaks of the image alone stays. *)
LEMMA ImageSame ==
  ASSUME TypeOK, NEW o \in [Indices -> Int], NEW r \in [Indices -> Int], NEW h \in Nat,
         Owned(o, r, h), UNCHANGED storage, LL' = LL, pc # "deleteSuper"
  PROVE  /\ Linked(o, r)' /\ Apart(o, r)' /\ FreeOwned(o, r)' /\ FilesOwned(o, r)'
         /\ pc \notin Holding => h = 0 /\ HeldOwned(o, r, 0)'
         /\ OnDisk' = OnDisk /\ disk' = disk
  <1>1. OnDisk' = OnDisk /\ disk' = disk /\ Inodes' = Inodes /\ OpenInodes' = OpenInodes
    BY DEF OnDisk, storage, Inodes, OpenInodes
  <1>2. Linked(o, r)' /\ Apart(o, r)' /\ FreeOwned(o, r)'
    BY <1>1 DEF Owned, Linked, Begins, Apart, FreeOwned, IsErased
  <1>3. FilesOwned(o, r)'
    BY <1>1 DEF Owned, FilesOwned, DataOf
  <1>4. pc \notin Holding => h = 0 /\ HeldOwned(o, r, 0)'
    BY <1>1 DEF Owned, HeldOwned
  <1> QED
    BY <1>1, <1>2, <1>3, <1>4

LEMMA PlacesSame ==
  ASSUME NEW L, NEW o, NEW r, NEW h, NEW g, Placed(o, r, h, L), UNCHANGED storage,
         pc \notin {"deleteBlock", "deleteLast"},
         pc' \notin {"truncBlock", "truncLast"}, InHand(r, g)'
  PROVE  Placed(o, r, g, L)'
  <1>1. OnDisk' = OnDisk /\ disk' = disk /\ Inodes' = Inodes
    BY DEF OnDisk, storage, Inodes
  <1>2. CASE L = Indices
    BY <1>2 DEF Placed
  <1>3. CASE L # Indices
    <2>1. InUse(o, L)'
      BY <1>1, <1>3 DEF Placed, InUse
    <2>2. ChainsEnd(o, r)'
      BY <1>1, <1>3 DEF Placed, ChainsEnd
    <2>3. ChainsFit(r)'
      BY <1>1, <1>3 DEF Placed, ChainsFit
    <2> QED
      BY <2>1, <2>2, <2>3 DEF Placed
  <1> QED
    BY <1>2, <1>3

(* A step that leaves image and open files alone and opens nothing.        *)
LEMMA StepOwners ==
  ASSUME NEW L, TypeOK, OwnersBut(L), UNCHANGED storage, LL' = LL,
         pc \notin {"format", "formatBlock", "formatEnd"},
         pc' \notin {"lookup"} \cup Mounting, HasFS, HasPlaces(L)'
  PROVE  OwnersBut(L)'
  <1>1. StoreStays /\ (HasFS' => HasFS)
    BY StorageKept DEF Mounting
  <1>2. EntriesOnce'
    BY <1>1, EntriesStay, PlaceParts
  <1>3. HasSuperblock'
    BY DEF HasFS, HasSuperblock, storage
  <1>4. Unopened' /\ MakingOK'
    BY <1>3, NotMaking, NotOpening DEF Mounting
  <1> QED
    BY <1>1, <1>2, <1>4, PlacePartsNext

LEMMA BlocksForPositive ==
  ASSUME NEW n \in Nat, n > 0
  PROVE  BlocksFor(n) \in Nat /\ BlocksFor(n) > 0
  <1>1. DataSize \in Nat /\ DataSize > 0
    BY SizesAssumption
  <1>2. PICK m \in Nat : m = n + DataSize - 1 /\ m >= DataSize
    BY <1>1
  <1>3. m \div DataSize \in Int /\ m \div DataSize >= 1
    BY <1>1, <1>2
  <1> QED
    BY <1>2, <1>3 DEF BlocksFor

LEMMA TakeLocals ==
  ASSUME TypeOK, NEW l \in Locals, NEW n \in Nat, TakeBlocks(n, l)
  PROVE  /\ loc'.then = l.then /\ loc'.buf = l.buf /\ loc'.want = n /\ loc'.inb = l.inb
         /\ loc'.name = l.name
         /\ loc'.count = 0
         /\ IF FreeCount(disk[0]) < n
              THEN /\ pc' = IF l.then = "createFile" THEN "createInode" ELSE "writeInode"
                   /\ loc'.cur = TFS_ERROR_INVALID_PARAMETER
              ELSE /\ pc' = "allocWalk" /\ loc'.count = 0
                   /\ loc'.cur = FirstFree(disk[0]) /\ loc'.first = FirstFree(disk[0])
  <1>1. FirstFree(disk[0]) \in Int
    BY OnDiskFacts, FieldsRead
  <1>2. CASE FreeCount(disk[0]) < n
    <2>1. /\ pc' = IF l.then = "createFile" THEN "createInode" ELSE "writeInode"
          /\ loc' = [[l EXCEPT !.want = n] EXCEPT
                       !.cur = TFS_ERROR_INVALID_PARAMETER, !.last = 0, !.first = 0,
                       !.count = 0, !.blk = RawBlock]
      BY <1>2 DEF TakeBlocks, GotBlocks, Goto, Locals
    <2> QED
      BY <1>2, <2>1 DEF Locals
  <1>3. CASE ~(FreeCount(disk[0]) < n)
    <2>1. /\ pc' = "allocWalk"
          /\ loc' = [l EXCEPT !.cur = FirstFree(disk[0]), !.first = FirstFree(disk[0]),
                              !.count = 0, !.want = n]
      BY <1>3 DEF TakeBlocks, Goto
    <2> QED
      BY <1>3, <2>1 DEF Locals
  <1> QED
    BY <1>2, <1>3

(* A served call works on a file. *)
LEMMA ServedPlaced ==
  ASSUME NEW L, TypeOK, OwnersBut(L), NEW FD, Served(FD), Readable(fte.inodeIdx)
  PROVE  /\ HasFS /\ fte.inodeIdx \in OnDisk /\ pc = "idle"
         /\ \E o, r \in [Indices -> Int], h \in Nat :
              /\ Owned(o, r, h) /\ Placed(o, r, h, L)
              /\ h = 0 /\ o[fte.inodeIdx] = fte.inodeIdx
  <1>1. HasFS /\ fte.inodeIdx \in OnDisk /\ fte.inodeIdx \in OpenInodes /\ pc = "idle"
    BY HeadOpen, PlaceParts DEF Served
  <1>2. PICK o \in [Indices -> Int], r \in [Indices -> Int], h \in Nat :
          Owned(o, r, h) /\ Placed(o, r, h, L)
    BY <1>1, PlaceParts DEF HasPlaces
  <1>3. h = 0
    BY <1>1, <1>2 DEF Owned, HeldOwned, Holding
  <1>4. o[fte.inodeIdx] = fte.inodeIdx
    BY <1>1, <1>2 DEF Owned, FilesOwned
  <1> QED
    BY <1>1, <1>2, <1>3, <1>4

LEMMA ServedOwners ==
  ASSUME TypeOK, OwnersInv, NEW FD, Served(FD), Readable(fte.inodeIdx)
  PROVE  /\ HasFS /\ fte.inodeIdx \in OnDisk /\ pc = "idle"
         /\ \E o, r \in [Indices -> Int], h \in Nat :
              Owned(o, r, h) /\ h = 0 /\ o[fte.inodeIdx] = fte.inodeIdx
  <1>1. HasFS /\ fte.inodeIdx \in OnDisk /\ fte.inodeIdx \in OpenInodes /\ pc = "idle"
    BY HeadOpen, InvParts DEF Served
  <1>2. PICK o \in [Indices -> Int], r \in [Indices -> Int], h \in Nat : Owned(o, r, h)
    BY <1>1, InvParts DEF HasOwners
  <1>3. h = 0
    BY <1>1, <1>2 DEF Owned, HeldOwned, Holding
  <1>4. o[fte.inodeIdx] = fte.inodeIdx
    BY <1>1, <1>2 DEF Owned, FilesOwned
  <1> QED
    BY <1>1, <1>2, <1>3, <1>4

LEMMA DeleteFileOwners ==
  ASSUME NEW L, TypeOK, OwnersBut(L), NEW FD, DeleteFile(FD)
  PROVE  OwnersBut(L)'
  <1> DEFINE i == fte.inodeIdx
  <1>1. UNCHANGED storage /\ LL' = LL /\ Served(FD) /\ pc = "idle"
    BY DEF DeleteFile, session, Served
  <1>2. CASE Return(TFS_ERROR_DISK_READ)
    BY <1>1, <1>2, ReturnOwners DEF Return, ReturnByte, Settled, Holding
  <1>3. CASE /\ Readable(i)
             /\ Call("deleteBlock", [NoCall EXCEPT !.cur = i, !.first = i])
    <2>1. /\ pc' = "deleteBlock" /\ loc'.cur = i /\ loc'.first = i /\ loc'.count = 0
          /\ loc'.then = "none"
      BY <1>3 DEF Call, NoCall
    <2>2. /\ HasFS /\ i \in OnDisk
          /\ \E o, r \in [Indices -> Int], h \in Nat :
               Owned(o, r, h) /\ Placed(o, r, h, L) /\ h = 0 /\ o[i] = i
      BY <1>1, <1>3, ServedPlaced
    <2>3. PICK o \in [Indices -> Int], r \in [Indices -> Int] :
            Owned(o, r, 0) /\ Placed(o, r, 0, L) /\ o[i] = i
      BY <2>2
    <2>4. /\ Linked(o, r)' /\ Apart(o, r)' /\ FreeOwned(o, r)' /\ FilesOwned(o, r)'
          /\ HeldOwned(o, r, 0)' /\ OnDisk' = OnDisk
      BY <1>1, <2>3, ImageSame DEF Holding
    <2>5. r[i] \in Nat /\ r[i] >= 1 /\ Begins(o, r, i, i, r[i])
      BY <2>2, <2>3, FileOwned, OnDiskFacts DEF Owned
    <2>6. fte' = fte
      BY <1>1 DEF fte
    <2>7. Taking(o, r, 0)' /\ Storing(o, r, 0)'
      BY <2>1 DEF Taking, Storing, Bare, Wanting, Allocating
    <2>8. Giving(o, r, 0)'
      <3>1. \A j \in OnDisk : o[j] = i => r[j] <= r[i]
        BY <2>2, <2>3 DEF Owned, FilesOwned
      <3>2. WipedTo(o, r, i, r[i])'
        BY <2>4, <2>5, <2>6, <3>1, OnDiskFacts DEF WipedTo
      <3>3. Begins(o, r, i, i, r[i])' /\ i # 0
        BY <2>2, <2>4, <2>5, <2>6, OnDiskFacts DEF Begins
      <3>4. r[i] - 0 = r[i]
        BY <2>5
      <3> QED
        BY <2>1, <2>6, <3>2, <3>3, <3>4 DEF Giving
    <2>10. Placed(o, r, 0, L)'
      <3>1. InHand(r, 0)'
        BY <2>1, <2>5, <2>6 DEF InHand
      <3> QED
        BY <1>1, <2>1, <2>3, <3>1, PlacesSame
    <2>9. HasPlaces(L)'
      BY <2>4, <2>7, <2>8, <2>10 DEF HasPlaces, Owned
    <2> QED
      BY <1>1, <2>1, <2>2, <2>9, StepOwners DEF Mounting
  <1> QED
    BY <1>2, <1>3 DEF DeleteFile

(* tfs_writeFile on a file that has no blocks, or none that can be read.   *)
LEMMA WriteFileStays ==
  ASSUME NEW L, TypeOK, OwnersBut(L), NEW FD, NEW b, WriteFile(FD, b),
         Readable(fte.inodeIdx) => disk[fte.inodeIdx].nextIdx = 0
  PROVE  OwnersBut(L)'
  <1> DEFINE i == fte.inodeIdx
             l == [NoCall EXCEPT !.then = "tfs_writeFile", !.buf = b]
  <1>1. LL' = LL /\ Served(FD) /\ pc = "idle" /\ UNCHANGED storage
    BY DEF WriteFile, session, Served
  <1>2. CASE ~Readable(i)
    BY <1>1, <1>2, ReturnOwners DEF WriteFile, Return, ReturnByte, Settled, Holding
  <1>3. CASE Readable(i)
    <2>1. pc' = "writeAlloc"
      BY <1>3 DEF WriteFile, Call
    <2>2. /\ HasFS /\ i \in OnDisk
          /\ \E o, r \in [Indices -> Int], h \in Nat :
               Owned(o, r, h) /\ Placed(o, r, h, L) /\ h = 0 /\ o[i] = i
      BY <1>1, <1>3, ServedPlaced
    <2>3. PICK o \in [Indices -> Int], r \in [Indices -> Int] :
            Owned(o, r, 0) /\ Placed(o, r, 0, L) /\ o[i] = i
      BY <2>2
    <2>4. r[i] = 1
      <3>1. r[i] >= 1 /\ Begins(o, r, i, 0, r[i] - 1) /\ r[i] \in Int
        BY <1>3, <2>2, <2>3, OnDiskFacts DEF Owned, Linked, Nobody, Held
      <3> QED
        BY <3>1, OnDiskFacts DEF Begins
    <2>5. (r[fte.inodeIdx] = 1)'
      BY <1>1, <2>4 DEF fte
    <2>6. \A j \in OpenInodes' : o[j] = j
      BY <1>1, <2>3 DEF OpenInodes, OnDisk, storage, Owned, FilesOwned
    <2>7. HasPlaces(L)'
      BY <1>1, <2>1, <2>3, <2>5, <2>6, QuietOwners, SettledDrops DEF Settled, Holding
    <2> QED
      BY <1>1, <2>1, <2>2, <2>7, StepOwners DEF Mounting
  <1> QED
    BY <1>2, <1>3

LEMMA TruncGoesOn ==
  ASSUME NEW L, TypeOK, CallOK, OwnersBut(L), L # Indices
  PROVE  ~TruncBlockFails
  <1> SUFFICES ASSUME TruncBlockFails
               PROVE  FALSE
    OBVIOUS
  <1>1. pc = "truncBlock" /\ ~Readable(loc.cur)
    BY DEF TruncBlockFails
  <1>2. /\ diskFd = Mounted
        /\ \E o, r \in [Indices -> Int], h \in Nat : Owned(o, r, h) /\ Placed(o, r, h, L)
    BY <1>1, WorkPlaced DEF Working, Writing
  <1>3. PICK o \in [Indices -> Int], r \in [Indices -> Int], h \in Nat :
          Owned(o, r, h) /\ Placed(o, r, h, L)
    BY <1>2
  <1> PICK x \in Int, c \in Nat : x = loc.cur /\ c = loc.count
    BY LocalFields
  <1>4. c < h
    BY <1>1, <1>3 DEF Placed, InHand
  <1>5. Begins(o, r, Held, x, h - c)
    BY <1>1, <1>3 DEF Owned, Giving
  <1>6. x \in OnDisk
    BY <1>4, <1>5 DEF Begins
  <1> QED
    BY <1>1, <1>2, <1>6, OnDiskReadable

LEMMA TruncBlockFailsOwners ==
  ASSUME NEW L, TypeOK, CallOK, OwnersBut(L), TruncBlockFails
  PROVE  OwnersBut(L)'
  <1>1. /\ pc = "truncBlock" /\ pc' = "writeAlloc" /\ UNCHANGED storage /\ LL' = LL
    BY DEF TruncBlockFails, Goto, session
  <1>0. HasFS
    BY <1>1, WorkPlaced DEF Working, Writing
  <1>2. PICK o \in [Indices -> Int], r \in [Indices -> Int], h \in Nat :
          Owned(o, r, h) /\ Placed(o, r, h, L)
    BY <1>1, WorkPlaced DEF Working, Writing
  <1>3. (r[fte.inodeIdx] = 1)'
    BY <1>1, <1>2 DEF fte, Owned, Storing, Bare
  <1>4. \A j \in OpenInodes' : o[j] = j
    BY <1>1, <1>2 DEF OpenInodes, OnDisk, storage, Owned, FilesOwned
  <1>6. Settled(L)
    BY TruncGoesOn DEF Settled
  <1>5. HasPlaces(L)'
    BY <1>1, <1>2, <1>3, <1>4, <1>6, QuietOwners, SettledDrops
  <1> QED
    BY <1>0, <1>1, <1>5, StepOwners DEF Mounting

(* The head of the free list, its length, and a list of n to take from it. *)
LEMMA FreeHead ==
  ASSUME TypeOK, NEW o \in [Indices -> Int], NEW r \in [Indices -> Int], NEW h \in Nat,
         Owned(o, r, h)
  PROVE  /\ FreeCount(disk[0]) \in Nat
         /\ FirstFree(disk[0]) \in 0..255
         /\ Begins(o, r, Free, FirstFree(disk[0]), FreeCount(disk[0]))
         /\ \A j \in OnDisk : o[j] = Free => r[j] <= FreeCount(disk[0]) /\ IsErased(j)
         /\ disk[0].body.kind = "super"
  <1>1. FreeOwned(o, r) /\ Linked(o, r)
    BY DEF Owned
  <1>2. FreeCount(disk[0]) \in Nat
    BY <1>1, HeadCount DEF TypeOK
  <1> QED
    BY <1>1, <1>2 DEF FreeOwned

(* A write finds room, or what it cannot store may be lost. *)
RoomToWrite(L) ==
  pc = "writeAlloc" =>
    L = Indices \/ FreeCount(disk[0]) >= BlocksFor(Length[loc.buf])

LEMMA WriteAllocOwners ==
  ASSUME NEW L, TypeOK, CallOK, OwnersBut(L), Careful, WriteAlloc, RoomToWrite(L)
  PROVE  OwnersBut(L)'
  <1> DEFINE i == fte.inodeIdx
             l == [loc EXCEPT !.inb = disk[i]]
             n == BlocksFor(Length[loc.buf])
  <1>1. pc = "writeAlloc" /\ UNCHANGED storage /\ UNCHANGED session /\ TakeBlocks(n, l)
        /\ LL' = LL /\ diskFd' = diskFd
    BY DEF WriteAlloc, session
  <1>2. loc.then = "tfs_writeFile" /\ loc.buf \in Buffers
    BY <1>1 DEF CallOK, Writing
  <1>3. /\ i \in OnDisk /\ diskFd = Mounted /\ HasFS
        /\ \E o, r \in [Indices -> Int], h \in Nat : Owned(o, r, h) /\ Placed(o, r, h, L)
    BY <1>1, WorkPlaced DEF Working, Writing
  <1>4. n \in Nat /\ n > 0
    BY <1>2, BlocksForPositive, ClientAssumption DEF Careful
  <1>5. l \in Locals /\ l.then = "tfs_writeFile" /\ l.buf = loc.buf /\ l.inb = disk[i]
    <2>1. loc \in Locals /\ disk[i] \in Block
      BY <1>3, OnDiskFacts DEF TypeOK
    <2>2. /\ l \in Locals /\ l.then = loc.then /\ l.buf = loc.buf
          /\ l.inb = disk[i]
      BY <2>1 DEF Locals
    <2> QED
      BY <1>2, <2>2
  <1>6. PICK o \in [Indices -> Int], r \in [Indices -> Int], h \in Nat :
          Owned(o, r, h) /\ Placed(o, r, h, L)
    BY <1>3
  <1>7. /\ Linked(o, r)' /\ Apart(o, r)' /\ FreeOwned(o, r)' /\ FilesOwned(o, r)'
        /\ HeldOwned(o, r, 0)' /\ OnDisk' = OnDisk /\ disk' = disk
    BY <1>1, <1>6, ImageSame DEF Holding
  <1>8. fte' = fte /\ r[i] = 1 /\ disk[i].body.kind # "super"
    BY <1>1, <1>3, <1>6 DEF fte, Owned, Storing, Bare, FilesOwned
  <1> HIDE DEF l, n
  <1>9. /\ loc'.then = "tfs_writeFile" /\ loc'.buf = loc.buf /\ loc'.want = n
        /\ loc'.inb = disk[i] /\ loc'.count = 0
        /\ IF FreeCount(disk[0]) < n
             THEN pc' = "writeInode" /\ loc'.cur = TFS_ERROR_INVALID_PARAMETER
             ELSE /\ pc' = "allocWalk" /\ loc'.count = 0
                  /\ loc'.cur = FirstFree(disk[0]) /\ loc'.first = FirstFree(disk[0])
    BY <1>1, <1>4, <1>5, TakeLocals
  <1>10. Storing(o, r, 0)'
    BY <1>8, <1>9, <1>4 DEF Storing, Bare, Wanting, Allocating, n
  <1>11. Giving(o, r, 0)'
    BY <1>9 DEF Giving
  <1>12. Taking(o, r, 0)'
    <2>1. CASE FreeCount(disk[0]) < n
      <3>1. \A j \in OnDisk : o[j] # Held
        BY <1>7 DEF HeldOwned, Holding
      <3> QED
        BY <1>7, <1>9, <2>1, <3>1 DEF Taking, Allocating, WipedTo
    <2>2. CASE ~(FreeCount(disk[0]) < n)
      <3>1. /\ pc' = "allocWalk" /\ loc'.count = 0 /\ loc'.want = n
            /\ loc'.cur = FirstFree(disk[0]) /\ loc'.first = FirstFree(disk[0])
        BY <1>9, <2>2
      <3>2. /\ FreeCount(disk[0]) \in Nat /\ n <= FreeCount(disk[0])
            /\ Begins(o, r, Free, FirstFree(disk[0]), FreeCount(disk[0]) - 0)
        BY <1>4, <1>6, <2>2, FreeHead
      <3>3. Begins(o, r, Free, FirstFree(disk[0]), FreeCount(disk[0]) - 0)'
        BY <1>7, <3>2 DEF Begins
      <3> QED
        BY <1>1, <1>3, <1>4, <1>7, <1>9, <3>1, <3>2, <3>3 DEF Taking, Allocating
    <2> QED
      BY <2>1, <2>2
  <1>15. Placed(o, r, 0, L)'
    <2>1. CASE L = Indices
      BY <2>1 DEF Placed
    <2>2. CASE L # Indices
      <3>1. pc' = "allocWalk"
        BY <1>1, <1>9, <1>6, <1>4, <2>2, FreeHead DEF RoomToWrite, n
      <3> QED
        BY <1>1, <1>6, <3>1, PlacesSame DEF InHand
    <2> QED
      BY <2>1, <2>2
  <1>13. HasPlaces(L)'
    BY <1>7, <1>10, <1>11, <1>12, <1>15 DEF HasPlaces, Owned
  <1>14. pc' \in {"writeInode", "allocWalk"}
    BY <1>9
  <1> QED
    BY <1>1, <1>3, <1>13, <1>14, StepOwners DEF Mounting

(* findByName finds an inode, or nothing. *)
LEMMA FoundInode ==
  ASSUME TypeOK, NEW n, FindByName(n) # 0
  PROVE  FindByName(n) \in Inodes
  <1>1. Hits(n) # {} /\ Hits(n) \subseteq Nat
    BY DEF FindByName, Hits
  <1>2. \E m \in Hits(n) : \A k \in Hits(n) : m <= k
    BY <1>1, LeastNat
  <1>3. FindByName(n) \in Hits(n)
    BY <1>1, <1>2 DEF FindByName
  <1> QED
    BY <1>3 DEF Hits, Inodes, OnDisk

(* A table entry, and nothing written: for an error code, or for a file    *)
(* that is not open.                                                       *)
LEMMA OpenedOwners ==
  ASSUME NEW L, TypeOK, OwnersBut(L), NEW x \in Int, Opened(x), UNCHANGED storage,
         pc \in {"lookup", "createInode"}, Settled(L),
         \/ x < 0
         \/ HasFS /\ x \in Inodes /\ \A k \in DOMAIN LL : LL[k].inodeIdx # x
  PROVE  OwnersBut(L)'
  <1> DEFINE e == [fd |-> currentFD, inodeIdx |-> x, offset |-> 0, fileName |-> loc.name]
  <1>1. LL' = Append(LL, e) /\ pc' = "idle"
    BY DEF Opened, Return, ReturnByte
  <1>2. e \in FTE /\ e.inodeIdx = x
    BY SizesAssumption DEF FTE, TypeOK, Locals
  <1>3. StoreStays /\ (HasFS' => HasFS)
    BY <1>1, StorageKept
  <1> HIDE DEF e
  <1>4. EntriesOnce' /\ \A j \in OpenInodes' : (HasFS /\ j \in OpenInodes) \/ j = x
    <2>1. x < 0 \/ (HasFS' /\ x \in OnDisk')
      BY <1>3 DEF StoreStays, Inodes, OnDisk, storage
    <2> QED
      BY <1>1, <1>2, <1>3, <2>1, EntriesGrow, PlaceParts
  <1>5. MakingOK' /\ Unopened'
    BY <1>1, NotMaking, NotOpening DEF Mounting
  <1>6. ASSUME HasFS'
        PROVE  HasPlaces(L)'
    <2>1. PICK o \in [Indices -> Int], r \in [Indices -> Int], h \in Nat :
            Owned(o, r, h) /\ Placed(o, r, h, L)
      BY <1>3, <1>6, PlaceParts DEF HasPlaces
    <2>2. \A j \in OpenInodes' : o[j] = j
      <3>1. \A j \in OpenInodes' : j >= 0
        BY DEF OpenInodes, OnDisk
      <3> QED
        BY <1>4, <2>1, <3>1 DEF Owned, FilesOwned
    <2> QED
      BY <1>1, <2>1, <2>2, QuietOwners, SettledDrops DEF Quiet
  <1> QED
    BY <1>4, <1>5, <1>6, PlacePartsNext

LEMMA LookupOwners ==
  ASSUME NEW L, TypeOK, CallOK, OwnersBut(L), Lookup
  PROVE  OwnersBut(L)'
  <1>1. pc = "lookup" /\ UNCHANGED storage /\ Settled(L)
    BY DEF Lookup, Settled, Holding
  <1>2. CASE Return(TFS_ERROR_BAD_ALLOC) /\ UNCHANGED session
    BY <1>1, <1>2, ReturnOwners DEF Return, ReturnByte, session
  <1>3. CASE Opened(TFS_ERROR_VALIDATE) \/ Opened(TFS_ERROR_INVALID_PARAMETER)
    BY <1>1, <1>3, OpenedOwners DEF TFS_ERROR_VALIDATE, TFS_ERROR_INVALID_PARAMETER
  <1>4. CASE HasSuperblock /\ FindByName(loc.name) # 0 /\ Opened(FindByName(loc.name))
    <2>1. HasFS /\ FindByName(loc.name) \in Inodes
      BY <1>1, <1>4, FoundInode DEF HasFS
    <2>2. FindByName(loc.name) \in Int /\ FindByName(loc.name) >= 1
      BY <2>1 DEF Inodes, OnDisk
    <2>3. \A k \in DOMAIN LL : LL[k].inodeIdx # FindByName(loc.name)
      BY <1>1, <2>2, PlaceParts DEF Unopened, CallOK
    <2> QED
      BY <1>1, <1>4, <2>1, <2>2, <2>3, OpenedOwners
  <1>5. CASE /\ diskFd = Mounted /\ HasSuperblock /\ ~(FreeCount(disk[0]) < 2)
             /\ TakeBlocks(1, [loc EXCEPT !.then = "createFile"]) /\ UNCHANGED session
    <2> DEFINE l == [loc EXCEPT !.then = "createFile"]
    <2>1. HasFS /\ LL' = LL /\ diskFd' = Mounted
      BY <1>1, <1>5 DEF HasFS, session
    <2>2. l \in Locals /\ l.then = "createFile"
      BY DEF TypeOK, Locals, Callers
    <2>3. PICK o \in [Indices -> Int], r \in [Indices -> Int], h \in Nat :
            Owned(o, r, h) /\ Placed(o, r, h, L)
      BY <2>1, PlaceParts DEF HasPlaces
    <2>4. /\ Linked(o, r)' /\ Apart(o, r)' /\ FreeOwned(o, r)' /\ FilesOwned(o, r)'
          /\ HeldOwned(o, r, 0)' /\ OnDisk' = OnDisk /\ disk' = disk
      BY <1>1, <2>1, <2>3, ImageSame DEF Holding
    <2>5. /\ FreeCount(disk[0]) \in Nat /\ FreeCount(disk[0]) >= 2
          /\ Begins(o, r, Free, FirstFree(disk[0]), FreeCount(disk[0]) - 0)
      BY <1>5, <2>3, FreeHead
    <2>6. Begins(o, r, Free, FirstFree(disk[0]), FreeCount(disk[0]) - 0)'
      BY <2>4, <2>5 DEF Begins
    <2>7. TakeBlocks(1, l)
      BY <1>5
    <2> HIDE DEF l
    <2>8. /\ loc'.then = "createFile" /\ loc'.want = 1 /\ pc' = "allocWalk"
          /\ loc'.count = 0
          /\ loc'.cur = FirstFree(disk[0]) /\ loc'.first = FirstFree(disk[0])
      <3>1. ~(FreeCount(disk[0]) < 1) /\ 1 \in Nat
        BY <2>5
      <3> QED
        BY <2>2, <2>7, <3>1, TakeLocals
    <2>9. Taking(o, r, 0)'
      BY <2>1, <2>4, <2>5, <2>6, <2>8 DEF Taking, Allocating
    <2>10. Giving(o, r, 0)' /\ Storing(o, r, 0)'
      BY <2>8 DEF Giving, Storing, Bare, Wanting, Allocating
    <2>12. Placed(o, r, 0, L)'
      BY <1>1, <2>3, <2>8, PlacesSame DEF InHand
    <2>11. HasPlaces(L)'
      BY <2>4, <2>9, <2>10, <2>12 DEF HasPlaces, Owned
    <2> QED
      BY <1>1, <2>1, <2>8, <2>11, StepOwners DEF Mounting
  <1> QED
    BY <1>2, <1>3, <1>4, <1>5 DEF Lookup

LEMMA AllocWalkOwners ==
  ASSUME NEW L, TypeOK, CallOK, OwnersBut(L), HasFS, AllocWalk
  PROVE  OwnersBut(L)'
  <1>1. /\ pc = "allocWalk" /\ pc \in Allocating /\ UNCHANGED storage /\ LL' = LL
        /\ diskFd' = diskFd
    BY DEF AllocWalk, session, Allocating
  <1>2. PICK o \in [Indices -> Int], r \in [Indices -> Int], h \in Nat :
          Owned(o, r, h) /\ Placed(o, r, h, L)
    BY PlaceParts DEF HasPlaces
  <1>3. /\ Linked(o, r)' /\ Apart(o, r)' /\ FreeOwned(o, r)' /\ FilesOwned(o, r)'
        /\ HeldOwned(o, r, 0)' /\ OnDisk' = OnDisk /\ disk' = disk
    BY <1>1, <1>2, ImageSame DEF Holding
  <1> PICK n \in Nat : n = FreeCount(disk[0])
    BY <1>2, FreeHead
  <1> PICK x \in Int, c \in Nat, w \in Nat : x = loc.cur /\ c = loc.count /\ w = loc.want
    BY LocalFields
  <1>4. /\ w <= n /\ c < w
        /\ loc.first = FirstFree(disk[0])
        /\ Begins(o, r, Free, x, n - c)
        /\ diskFd = Mounted /\ w > 0 /\ (loc.then = "createFile" => w = 1)
    BY <1>1, <1>2 DEF Owned, Taking
  <1>5. x \in OnDisk /\ o[x] = Free /\ r[x] = n - c
    <2>1. n - c # 0
      BY <1>4
    <2> QED
      BY <1>4, <2>1 DEF Begins
  <1> PICK y \in 0..255 : y = disk[x].nextIdx
    <2>1. disk[x].nextIdx \in 0..255
      BY <1>5, OnDiskFacts
    <2> QED
      BY <2>1
  <1>6. Readable(x)
    <2>1. x \in 1..(size - 1) /\ size \in Int
      BY <1>5, OnDiskFacts DEF OnDisk
    <2>2. 0 <= x /\ x < size
      BY <2>1
    <2> QED
      BY <1>4, <2>2 DEF Readable
  <1>7. Goto(IF c + 1 < w THEN "allocWalk" ELSE "allocSuper",
             [loc EXCEPT !.blk = disk[x], !.last = x, !.cur = y, !.count = c + 1])
    BY <1>6 DEF AllocWalk
  <1>8. /\ loc'.blk = disk[x] /\ loc'.last = x /\ loc'.cur = y
        /\ loc'.count = c + 1 /\ loc'.want = w /\ loc'.first = loc.first
        /\ loc'.then = loc.then /\ loc'.buf = loc.buf /\ loc'.inb = loc.inb
    BY <1>7 DEF Goto, TypeOK, Locals
  <1>9. pc' = IF c + 1 < w THEN "allocWalk" ELSE "allocSuper"
    BY <1>7 DEF Goto
  <1>10. Begins(o, r, Free, y, n - (c + 1))
    <2>1. Begins(o, r, Free, y, (n - c) - 1)
      BY <1>2, <1>5 DEF Owned, Linked, Free, Nobody, Held
    <2>2. (n - c) - 1 = n - (c + 1)
      BY <1>4
    <2> QED
      BY <2>1, <2>2
  <1>11. Begins(o, r, Free, y, n - (c + 1))'
    BY <1>3, <1>10 DEF Begins
  <1>12. Taking(o, r, 0)'
    <2>1. loc'.want <= FreeCount(disk[0])' /\ loc'.first = FirstFree(disk[0])'
          /\ Begins(o, r, Free, loc.cur, FreeCount(disk[0]) - loc.count)'
      BY <1>3, <1>4, <1>8, <1>11
    <2>2. pc' = "allocWalk" => loc'.count < loc'.want
      BY <1>8, <1>9
    <2>3. pc' = "allocSuper" =>
            /\ loc'.count = loc'.want
            /\ r[x] = FreeCount(disk[0])' - loc'.want + 1
      BY <1>3, <1>4, <1>5, <1>8, <1>9
    <2> QED
      BY <1>1, <1>3, <1>4, <1>5, <1>8, <1>9, <2>1, <2>2, <2>3 DEF Taking, Allocating
  <1>13. Giving(o, r, 0)'
    BY <1>9 DEF Giving
  <1>14. Storing(o, r, 0)'
    <2>1. fte' = fte
      BY <1>1 DEF fte
    <2>2. Storing(o, r, h)
      BY <1>2 DEF Owned
    <2> QED
      BY <1>1, <1>8, <1>9, <2>1, <2>2 DEF Storing, Bare, Wanting, Allocating
  <1>16. Placed(o, r, 0, L)'
    BY <1>1, <1>2, <1>9, PlacesSame DEF InHand
  <1>15. HasPlaces(L)'
    BY <1>3, <1>12, <1>13, <1>14, <1>16 DEF HasPlaces, Owned
  <1> QED
    BY <1>1, <1>9, <1>15, StepOwners DEF Mounting

-----------------------------------------------------------------------------
(* Steps that write a block *)

LEMMA Written ==
  ASSUME TypeOK, NEW x \in Indices, NEW b, WriteBlock(x, b)
  PROVE  /\ disk'[x] = b /\ \A j \in Indices : j # x => disk'[j] = disk[j]
         /\ size' = size /\ OnDisk' = OnDisk
  BY DEF WriteBlock, TypeOK, OnDisk

(* What is left of the invariant after a step that keeps the superblock. *)
LEMMA WriteStepOwners ==
  ASSUME NEW L, TypeOK, OwnersBut(L), HasFS, size' = size, disk'[0].type = disk[0].type,
         pc' \notin {"lookup"} \cup Mounting, HasPlaces(L)', StoreStays => EntriesOnce'
  PROVE  OwnersBut(L)'
  <1>1. HasSuperblock'
    BY DEF HasFS, HasSuperblock
  <1>2. StoreStays
    BY <1>1 DEF StoreStays, HasFS, Mounting
  <1>3. Unopened' /\ MakingOK'
    BY <1>1, NotMaking, NotOpening DEF Mounting
  <1> QED
    BY <1>2, <1>3, PlacePartsNext

LEMMA SameEntries ==
  ASSUME NEW L, TypeOK, OwnersBut(L), LL' = LL
  PROVE  StoreStays => EntriesOnce'
  BY EntriesStay, PlaceParts

(* The parts of FilesOwned that are about the image. *)
FilesSound(o, r) ==
  /\ \A j \in OnDisk : o[j] \in OnDisk => o[o[j]] = o[j] /\ r[j] <= r[o[j]]
  /\ \A j \in OnDisk : disk[j].body.kind # "super"
  /\ \A j \in Inodes :
       o[j] = j /\ (Buffers # {} => \E b \in Buffers : DataOf(o, r, j, b))

(* A block off the free list is written, and its successor is the next one *)
(* of its owner.                                                           *)
LEMMA ChainsWritten ==
  ASSUME TypeOK, NEW o \in [Indices -> Int], NEW r \in [Indices -> Int],
         Linked(o, r), Apart(o, r), FreeOwned(o, r),
         NEW x \in OnDisk, NEW b, WriteBlock(x, b), o[x] # Free,
         o[x] \notin {Nobody, Held} => Begins(o, r, o[x], b.nextIdx, r[x] - 1)
  PROVE  /\ disk'[x] = b /\ \A j \in OnDisk : j # x => disk'[j] = disk[j]
         /\ disk'[0] = disk[0] /\ size' = size /\ OnDisk' = OnDisk
         /\ Linked(o, r)' /\ Apart(o, r)' /\ FreeOwned(o, r)'
  <1>1. /\ disk'[x] = b /\ \A j \in OnDisk : j # x => disk'[j] = disk[j]
        /\ disk'[0] = disk[0] /\ size' = size /\ OnDisk' = OnDisk
    BY Written, OnDiskFacts
  <1>2. Linked(o, r)'
    <2> SUFFICES ASSUME NEW j \in OnDisk, o[j] \notin {Nobody, Held}
                 PROVE  r[j] >= 1 /\ Begins(o, r, o[j], disk[j].nextIdx, r[j] - 1)'
      BY <1>1 DEF Linked
    <2>1. CASE j = x
      BY <1>1, <2>1 DEF Linked, Begins
    <2>2. CASE j # x
      BY <1>1, <2>2 DEF Linked, Begins
    <2> QED
      BY <2>1, <2>2
  <1>3. Apart(o, r)'
    BY <1>1 DEF Apart
  <1>4. FreeOwned(o, r)'
    BY <1>1 DEF FreeOwned, Begins, IsErased
  <1> QED
    BY <1>1, <1>2, <1>3, <1>4

(* It is a block the running call holds, or one of a file whose contents   *)
(* go. *)
LEMMA FilesWritten ==
  ASSUME TypeOK, NEW o \in [Indices -> Int], NEW r \in [Indices -> Int], FilesSound(o, r),
         NEW x \in OnDisk, OnDisk' = OnDisk,
         \A j \in OnDisk : j # x => disk'[j] = disk[j],
         disk'[x].type # inode, disk'[x].body.kind # "super",
         o[x] = Held \/ disk'[x].body = ZeroBody
  PROVE  FilesSound(o, r)'
  <1>1. \A j \in OnDisk : o[j] \in OnDisk => o[o[j]] = o[j] /\ r[j] <= r[o[j]]
    BY DEF FilesSound
  <1>2. \A j \in OnDisk : disk'[j].body.kind # "super"
    BY DEF FilesSound
  <1>3. ASSUME NEW i \in Inodes'
        PROVE  o[i] = i /\ (Buffers # {} => \E b \in Buffers : DataOf(o, r, i, b)')
    <2>1. i # x /\ i \in Inodes /\ i \in OnDisk /\ disk'[i] = disk[i]
      BY DEF Inodes
    <2>2. i # Held
      BY <2>1, OnDiskFacts DEF Held
    <2>3. ASSUME NEW b, DataOf(o, r, i, b)
          PROVE  DataOf(o, r, i, b)'
      BY <2>1, <2>2, <2>3 DEF DataOf
    <2> QED
      BY <2>1, <2>3 DEF FilesSound
  <1> QED
    BY <1>1, <1>2, <1>3 DEF FilesSound

LEMMA FilesBack ==
  ASSUME NEW o, NEW r, FilesSound(o, r)',
         \A j \in OpenInodes' : o[j] = j \/ (pc' = "deleteSuper" /\ j = fte'.inodeIdx)
  PROVE  FilesOwned(o, r)'
  BY DEF FilesSound, FilesOwned

LEMMA OpenKept ==
  ASSUME NEW o, NEW r, FilesOwned(o, r), pc # "deleteSuper", LL' = LL, OnDisk' = OnDisk
  PROVE  \A j \in OpenInodes' : o[j] = j
  BY DEF FilesOwned, OpenInodes

LEMMA ErasedFields ==
  ASSUME NEW b \in Block
  PROVE  /\ Erased(b).nextIdx = b.nextIdx /\ Erased(b).type = FB
         /\ Erased(b).body = ZeroBody /\ Erased(b).type # inode
         /\ ZeroBody.kind # "super"
  BY DEF Erased, FB, inode, ZeroBody

(* What the superblock holds once its counter and head are stored. *)
LEMMA SuperFields ==
  ASSUME NEW b \in Block, NEW fc, NEW ff
  PROVE  /\ SetSuper(b, fc, ff).body.kind = "super"
         /\ SetSuper(b, fc, ff).type = b.type
         /\ FirstFree(SetSuper(b, fc, ff)) = ff
         /\ FreeCount(SetSuper(b, fc, ff)) = fc
  <1>1. SetSuper(b, fc, ff).body = SuperBody(fc, ff) /\ SetSuper(b, fc, ff).type = b.type
    BY DEF SetSuper, Block
  <1>2. /\ SuperBody(fc, ff).kind = "super"
        /\ SuperBody(fc, ff).freeCount = fc
        /\ SuperBody(fc, ff).firstFree = ff
    BY DEF SuperBody
  <1> QED
    BY <1>1, <1>2 DEF FirstFree, FreeCount

(* A block is written that is no inode, or no more: what is placed stays so *)
(* when the block keeps its successor.                                     *)
LEMMA PlacedWritten ==
  ASSUME TypeOK, NEW L, NEW o \in [Indices -> Int], NEW r \in [Indices -> Int],
         NEW h, NEW g, Placed(o, r, h, L), FilesOwned(o, r),
         NEW x \in OnDisk, OnDisk' = OnDisk, disk'[x].type # inode,
         \A j \in OnDisk : j # x => disk'[j] = disk[j],
         o[x] # x \/ (pc' \in {"deleteBlock", "deleteLast"} /\ x = fte'.inodeIdx),
         pc \in {"deleteBlock", "deleteLast"} =>
           pc' \in {"deleteBlock", "deleteLast"} /\ fte' = fte,
         pc' \in {"truncBlock", "truncLast"} => pc \in {"truncBlock", "truncLast"},
         \/ disk'[x].nextIdx = disk[x].nextIdx
         \/ o[x] \notin OnDisk /\ pc' \notin {"truncBlock", "truncLast"},
         L # Indices => InHand(r, g)'
  PROVE  Placed(o, r, g, L)'
  <1> SUFFICES ASSUME L # Indices
               PROVE  InUse(o, L)' /\ ChainsEnd(o, r)' /\ ChainsFit(r)'
    BY DEF Placed
  <1>1. InUse(o, L) /\ ChainsEnd(o, r) /\ ChainsFit(r)
    BY DEF Placed
  <1>2. /\ \A i \in Inodes' : i \in Inodes
        /\ \A i \in Inodes : i # x => i \in Inodes'
    BY DEF Inodes
  <1>3. InUse(o, L)'
    <2> SUFFICES ASSUME NEW j \in OnDisk \ L
                 PROVE  \/ o[j] \in {Free, Held} \cup Inodes'
                        \/ /\ pc' \in {"deleteBlock", "deleteLast"}
                           /\ o[j] = fte'.inodeIdx
      BY DEF InUse
    <2>1. \/ o[j] \in {Free, Held} \cup Inodes
          \/ pc \in {"deleteBlock", "deleteLast"} /\ o[j] = fte.inodeIdx
      BY <1>1 DEF InUse
    <2>2. CASE o[j] # x
      BY <1>2, <2>1, <2>2
    <2>3. CASE o[j] = x
      <3>1. o[x] = x
        BY <2>3 DEF FilesOwned
      <3> QED
        BY <2>3, <3>1
    <2> QED
      BY <2>2, <2>3
  <1>4. ChainsEnd(o, r)'
    <2> SUFFICES ASSUME NEW j \in OnDisk, r[j] = 1,
                        o[j] \in OnDisk \/ (o[j] = Held /\ pc' \in {"truncBlock", "truncLast"})
                 PROVE  disk'[j].nextIdx = 0
      BY DEF ChainsEnd
    <2>1. disk[j].nextIdx = 0
      BY <1>1 DEF ChainsEnd
    <2> QED
      BY <2>1
  <1>5. ChainsFit(r)'
    BY <1>1, <1>2 DEF ChainsFit
  <1> QED
    BY <1>3, <1>4, <1>5

(* One turn of the loop of tfs_truncate. *)
LEMMA TruncBlockOwners ==
  ASSUME NEW L, TypeOK, CallOK, OwnersBut(L), TruncBlock
  PROVE  OwnersBut(L)'
  <1>1. pc = "truncBlock" /\ Readable(loc.cur) /\ LL' = LL /\ fte' = fte
    BY DEF TruncBlock, FreeOne, session, fte
  <1>2. /\ HasFS
        /\ \E o, r \in [Indices -> Int], h \in Nat : Owned(o, r, h) /\ Placed(o, r, h, L)
    BY <1>1, WorkPlaced DEF Working, Writing
  <1>3. PICK o \in [Indices -> Int], r \in [Indices -> Int], h \in Nat :
          Owned(o, r, h) /\ Placed(o, r, h, L)
    BY <1>2
  <1>4. /\ Linked(o, r) /\ Apart(o, r) /\ FreeOwned(o, r) /\ FilesOwned(o, r)
        /\ HeldOwned(o, r, h) /\ Giving(o, r, h) /\ Storing(o, r, h)
    BY <1>3 DEF Owned
  <1> PICK x \in Int, c \in Nat, f \in Int : x = loc.cur /\ c = loc.count /\ f = loc.first
    BY LocalFields
  <1>5. x \in OnDisk /\ o[x] = Held /\ r[x] = h - c /\ r[x] # 0
    <2>1. x # 0 /\ Begins(o, r, Held, x, h - c) /\ Readable(x)
      BY <1>1, <1>4 DEF Giving
    <2>2. x \in OnDisk
      BY <2>1 DEF Readable, OnDisk, TypeOK
    <2> QED
      BY <2>1, <2>2 DEF Begins
  <1> PICK y \in 0..255 : y = disk[x].nextIdx
    <2>1. disk[x].nextIdx \in 0..255
      BY <1>5, OnDiskFacts
    <2> QED
      BY <2>1
  <1>6. /\ WriteBlock(x, Erased(disk[x]))
        /\ pc' = IF y = 0 THEN "truncLast" ELSE "truncBlock"
        /\ loc' = [loc EXCEPT !.last = x, !.cur = y, !.count = c + 1]
    BY DEF TruncBlock, FreeOne, Goto
  <1>7. /\ loc'.last = x /\ loc'.cur = y /\ loc'.count = c + 1 /\ loc'.first = f
    BY <1>6 DEF TypeOK, Locals
  <1>8. /\ disk'[x] = Erased(disk[x]) /\ \A j \in OnDisk : j # x => disk'[j] = disk[j]
        /\ disk'[0] = disk[0] /\ size' = size /\ OnDisk' = OnDisk
        /\ Linked(o, r)' /\ Apart(o, r)' /\ FreeOwned(o, r)'
    BY <1>4, <1>5, <1>6, ChainsWritten DEF Held, Free
  <1>9. /\ disk'[x].nextIdx = y /\ disk'[x].type = FB /\ disk'[x].body = ZeroBody
        /\ disk'[x].type # inode /\ disk'[x].body.kind # "super"
    BY <1>5, <1>8, OnDiskFacts, ErasedFields
  <1>10. FilesOwned(o, r)'
    <2>1. FilesSound(o, r)
      BY <1>4 DEF FilesSound, FilesOwned
    <2>2. FilesSound(o, r)'
      BY <1>5, <1>8, <1>9, <2>1, FilesWritten
    <2>3. \A j \in OpenInodes' : o[j] = j
      BY <1>1, <1>4, <1>8, OpenKept
    <2> QED
      BY <2>2, <2>3, FilesBack
  <1>11. \A j \in OnDisk : disk'[j].nextIdx = disk[j].nextIdx
    BY <1>8, <1>9
  <1>12. HeldOwned(o, r, h)'
    BY SMTT(30), <1>1, <1>4, <1>6, <1>8, <1>11 DEF HeldOwned, Holding, Begins
  <1>13. y = 0 => h = c + 1
    <2> SUFFICES ASSUME y = 0, r[x] > 1
                 PROVE  FALSE
      BY <1>4, <1>5 DEF HeldOwned
    <2>1. Begins(o, r, Held, 0, r[x] - 1)
      BY <1>4, <1>5 DEF HeldOwned
    <2> QED
      BY <1>5, <2>1, OnDiskFacts DEF Begins
  <1>14. Begins(o, r, Held, y, h - (c + 1))
    <2>1. CASE r[x] > 1
      <3>1. Begins(o, r, Held, y, r[x] - 1) /\ r[x] - 1 = h - (c + 1)
        BY <1>4, <1>5, <2>1 DEF HeldOwned
      <3> QED
        BY <3>1
    <2>2. CASE ~(r[x] > 1)
      <3>1. r[x] = 1 /\ h - (c + 1) = 0 /\ y \notin OnDisk
        BY <1>1, <1>4, <1>5, <2>2 DEF HeldOwned
      <3> QED
        BY <3>1 DEF Begins
    <2> QED
      BY <2>1, <2>2
  <1>15. WipedTo(o, r, Held, h - (c + 1))'
    <2> SUFFICES ASSUME NEW j \in OnDisk, o[j] = Held, r[j] > h - (c + 1)
                 PROVE  IsErased(j)'
      BY <1>8 DEF WipedTo
    <2>1. CASE j = x
      BY <1>9, <2>1 DEF IsErased
    <2>2. CASE j # x
      <3>1. r[j] # r[x]
        BY <1>4, <1>5, <2>2 DEF Apart, Held, Nobody
      <3>2. r[j] > h - c
        BY <1>4, <1>5, <3>1 DEF HeldOwned
      <3>3. IsErased(j)
        BY <1>1, <1>4, <3>2 DEF Giving, WipedTo
      <3> QED
        BY <1>8, <2>2, <3>3 DEF IsErased
    <2> QED
      BY <2>1, <2>2
  <1>16. Begins(o, r, Held, f, h)'
    BY <1>1, <1>4, <1>8 DEF Giving, Begins
  <1>17. Begins(o, r, Held, y, h - (c + 1))'
    BY <1>8, <1>14 DEF Begins
  <1>18. Giving(o, r, h)'
    BY SMTT(30), <1>5, <1>6, <1>7, <1>8, <1>13, <1>15, <1>16, <1>17 DEF Giving
  <1>19. Taking(o, r, h)'
    BY <1>6 DEF Taking, Allocating
  <1>20. Storing(o, r, h)'
    BY <1>1, <1>4, <1>6 DEF Storing, Bare, Wanting, Allocating
  <1>23. Placed(o, r, h, L)'
    <2>1. ASSUME L # Indices
          PROVE  InHand(r, h)'
      <3>1. y # 0 => r[x] # 1
        BY <1>1, <1>3, <1>5, <2>1 DEF Placed, ChainsEnd
      <3>2. y # 0 => c + 1 < h
        BY <1>4, <1>5, <3>1 DEF HeldOwned
      <3>3. \A i \in Inodes' : i \in Inodes
        BY <1>8, <1>9 DEF Inodes
      <3>4. fte.inodeIdx \in Inodes => \E b \in Buffers : h = BlocksFor(Length[b])
        BY <1>1, <1>3, <2>1 DEF Placed, InHand
      <3> QED
        BY <1>1, <1>6, <1>7, <3>2, <3>3, <3>4 DEF InHand
    <2>2. o[x] # x
      BY <1>5, OnDiskFacts DEF Held
    <2>3. /\ disk'[x].type # inode /\ disk'[x].nextIdx = disk[x].nextIdx /\ o[x] # x
          /\ pc \notin {"deleteBlock", "deleteLast"} /\ pc \in {"truncBlock", "truncLast"}
      BY <1>1, <1>9, <2>2
    <2> QED
      BY <1>3, <1>4, <1>5, <1>8, <2>1, <2>3, PlacedWritten
  <1>21. HasPlaces(L)'
    BY <1>8, <1>10, <1>12, <1>18, <1>19, <1>20, <1>23 DEF HasPlaces, Owned
  <1>22. StoreStays => EntriesOnce'
    BY <1>1, SameEntries
  <1> QED
    BY <1>2, <1>6, <1>8, <1>21, <1>22, WriteStepOwners DEF Mounting

(* The block FreeLast writes: its successor is the head of the free list.  *)
LEMMA LastFields ==
  ASSUME TypeOK, FirstFree(disk[0]) \in 0..255,
         NEW b, b = [type |-> FB, nextIdx |-> ToIdx(FirstFree(disk[0])), body |-> ZeroBody]
  PROVE  /\ b.nextIdx = FirstFree(disk[0]) /\ b.type = FB /\ b.body = ZeroBody
         /\ b.type # inode /\ b.body.kind # "super"
  <1>1. ToIdx(FirstFree(disk[0])) = FirstFree(disk[0])
    BY DEF ToIdx
  <1>2. ZeroBody.kind # "super" /\ FB # inode
    BY DEF ZeroBody, FB, inode
  <1> QED
    BY <1>1, <1>2

LEMMA TruncLastOwners ==
  ASSUME NEW L, TypeOK, CallOK, OwnersBut(L), TruncLast
  PROVE  OwnersBut(L)'
  <1>1. /\ pc = "truncLast" /\ pc' = "truncSuper" /\ LL' = LL /\ loc' = loc /\ fte' = fte
        /\ WriteBlock(loc.last, [type |-> FB, nextIdx |-> ToIdx(FirstFree(disk[0])),
                                 body |-> ZeroBody])
    BY DEF TruncLast, FreeLast, Goto, session, fte
  <1>2. /\ HasFS
        /\ \E o, r \in [Indices -> Int], h \in Nat : Owned(o, r, h) /\ Placed(o, r, h, L)
    BY <1>1, WorkPlaced DEF Working, Writing
  <1>3. PICK o \in [Indices -> Int], r \in [Indices -> Int], h \in Nat :
          Owned(o, r, h) /\ Placed(o, r, h, L)
    BY <1>2
  <1>4. /\ Linked(o, r) /\ Apart(o, r) /\ FreeOwned(o, r) /\ FilesOwned(o, r)
        /\ HeldOwned(o, r, h) /\ Giving(o, r, h) /\ Storing(o, r, h)
    BY <1>3 DEF Owned
  <1> PICK x \in Int, f \in Int : x = loc.last /\ f = loc.first
    BY LocalFields
  <1>5. x \in OnDisk /\ o[x] = Held /\ r[x] = 1 /\ loc.count = h
    BY <1>1, <1>4 DEF Giving
  <1> PICK y \in 0..255 : y = FirstFree(disk[0])
    BY <1>3, FreeHead
  <1> DEFINE b == [type |-> FB, nextIdx |-> ToIdx(FirstFree(disk[0])), body |-> ZeroBody]
  <1>6. /\ b.nextIdx = y /\ b.type = FB /\ b.body = ZeroBody
        /\ b.type # inode /\ b.body.kind # "super"
    BY LastFields
  <1>7. WriteBlock(x, b)
    BY <1>1
  <1> HIDE DEF b
  <1>8. /\ disk'[x] = b /\ \A j \in OnDisk : j # x => disk'[j] = disk[j]
        /\ disk'[0] = disk[0] /\ size' = size /\ OnDisk' = OnDisk
        /\ Linked(o, r)' /\ Apart(o, r)' /\ FreeOwned(o, r)'
    BY <1>4, <1>5, <1>7, ChainsWritten DEF Held, Free
  <1>9. FilesOwned(o, r)'
    <2>1. FilesSound(o, r)
      BY <1>4 DEF FilesSound, FilesOwned
    <2>2. FilesSound(o, r)'
      BY <1>5, <1>6, <1>8, <2>1, FilesWritten
    <2>3. \A j \in OpenInodes' : o[j] = j
      BY <1>1, <1>4, <1>8, OpenKept
    <2> QED
      BY <2>2, <2>3, FilesBack
  <1>10. \A j \in OnDisk : o[j] = Held /\ r[j] = 1 => j = x
    BY <1>4, <1>5 DEF Apart, Held, Nobody
  <1>11. HeldOwned(o, r, h)'
    <2> SUFFICES ASSUME NEW j \in OnDisk, o[j] = Held
                 PROVE  /\ r[j] \in 1..h
                        /\ r[j] > 1 => Begins(o, r, Held, disk[j].nextIdx, r[j] - 1)'
                        /\ r[j] = 1 => disk'[j].nextIdx = y
      BY <1>1, <1>8 DEF HeldOwned, Holding
    <2>1. CASE j = x
      BY <1>4, <1>5, <1>6, <1>8, <2>1 DEF HeldOwned
    <2>2. CASE j # x
      BY <1>4, <1>8, <1>10, <2>2 DEF HeldOwned, Begins
    <2> QED
      BY <2>1, <2>2
  <1>12. Giving(o, r, h)'
    <2>1. Begins(o, r, Held, f, h)'
      BY <1>1, <1>4, <1>8 DEF Giving, Begins
    <2>2. WipedTo(o, r, Held, h - h)'
      <3> SUFFICES ASSUME NEW j \in OnDisk, o[j] = Held, r[j] > h - h
                   PROVE  IsErased(j)'
        BY <1>8 DEF WipedTo
      <3>1. CASE j = x
        BY <1>6, <1>8, <3>1 DEF IsErased
      <3>2. CASE j # x
        <4>1. IsErased(j)
          BY <1>1, <1>4, <1>5 DEF Giving, WipedTo
        <4> QED
          BY <1>8, <3>2, <4>1 DEF IsErased
      <3> QED
        BY <3>1, <3>2
    <2>3. h > 0
      BY <1>4, <1>5 DEF HeldOwned
    <2> QED
      BY <1>1, <1>5, <2>1, <2>2, <2>3 DEF Giving
  <1>13. Taking(o, r, h)'
    BY <1>1 DEF Taking, Allocating
  <1>14. Storing(o, r, h)'
    BY <1>1, <1>4 DEF Storing, Bare, Wanting, Allocating
  <1>17. Placed(o, r, h, L)'
    <2>1. ASSUME L # Indices
          PROVE  InHand(r, h)'
      <3>1. \A i \in Inodes' : i \in Inodes
        BY <1>6, <1>8 DEF Inodes
      <3>2. fte.inodeIdx \in Inodes => \E d \in Buffers : h = BlocksFor(Length[d])
        BY <1>1, <1>3, <2>1 DEF Placed, InHand
      <3> QED
        BY <1>1, <3>1, <3>2 DEF InHand
    <2>2. o[x] # x /\ o[x] \notin OnDisk
      BY <1>5, OnDiskFacts DEF Held
    <2>3. /\ disk'[x].type # inode /\ o[x] # x /\ o[x] \notin OnDisk
          /\ pc \notin {"deleteBlock", "deleteLast"} /\ pc' \notin {"truncBlock", "truncLast"}
      BY <1>1, <1>6, <1>8, <2>2
    <2> QED
      BY <1>3, <1>4, <1>5, <1>8, <2>1, <2>3, PlacedWritten
  <1>15. HasPlaces(L)'
    BY <1>8, <1>9, <1>11, <1>12, <1>13, <1>14, <1>17 DEF HasPlaces, Owned
  <1>16. StoreStays => EntriesOnce'
    BY <1>1, SameEntries
  <1> QED
    BY <1>1, <1>2, <1>8, <1>15, <1>16, WriteStepOwners DEF Mounting

(* Blocks go from the free list to the running call, or back.              *)
LEMMA PlacedMoved ==
  ASSUME TypeOK, NEW L, NEW o \in [Indices -> Int], NEW r \in [Indices -> Int],
         NEW q \in [Indices -> Int], NEW s \in [Indices -> Int], NEW h, NEW g,
         Placed(o, r, h, L), FilesOwned(o, r), OnDisk' = OnDisk,
         \A j \in OnDisk : disk'[j] = disk[j],
         \A j \in OnDisk :
           (q[j] = o[j] /\ s[j] = r[j]) \/ (o[j] \in {Free, Held} /\ q[j] \in {Free, Held}),
         pc \notin {"deleteBlock", "deleteLast"}, pc' \notin {"truncBlock", "truncLast"},
         L # Indices => InHand(s, g)'
  PROVE  Placed(q, s, g, L)'
  <1> SUFFICES ASSUME L # Indices
               PROVE  InUse(q, L)' /\ ChainsEnd(q, s)' /\ ChainsFit(s)'
    BY DEF Placed
  <1>1. InUse(o, L) /\ ChainsEnd(o, r) /\ ChainsFit(r)
    BY DEF Placed
  <1>2. Inodes' = Inodes /\ Free \notin OnDisk /\ Held \notin OnDisk
        /\ Free # Nobody /\ Held # Nobody
    BY OnDiskFacts DEF Inodes, Free, Held, Nobody
  <1>3. InUse(q, L)'
    BY <1>1, <1>2 DEF InUse
  <1>4. ChainsEnd(q, s)'
    <2> SUFFICES ASSUME NEW j \in OnDisk, s[j] = 1, q[j] \in OnDisk
                 PROVE  disk[j].nextIdx = 0
      BY DEF ChainsEnd
    <2>1. q[j] = o[j] /\ s[j] = r[j]
      BY <1>2
    <2> QED
      BY <1>1, <2>1 DEF ChainsEnd
  <1>5. \A i \in Inodes : s[i] = r[i]
    <2>1. \A i \in Inodes : i \in OnDisk /\ o[i] = i
      BY DEF Inodes, FilesOwned
    <2> QED
      BY <1>2, <2>1
  <1>6. ChainsFit(s)'
    BY <1>1, <1>2, <1>5 DEF ChainsFit
  <1> QED
    BY <1>3, <1>4, <1>6

(* The superblock takes the held list in front of the free list. *)
LEMMA GiveSuper ==
  ASSUME TypeOK, NEW o \in [Indices -> Int], NEW r \in [Indices -> Int], NEW h \in Nat,
         Owned(o, r, h), pc \in {"truncSuper", "deleteSuper"}, FreeSuper
  PROVE  \E q, s \in [Indices -> Int] :
           /\ Linked(q, s)' /\ Apart(q, s)' /\ FreeOwned(q, s)' /\ FilesSound(q, s)'
           /\ \A j \in OnDisk : q[j] # Held /\ disk'[j] = disk[j]
           /\ \A j \in OnDisk : IF o[j] = Held THEN q[j] = Free
                                           ELSE q[j] = o[j] /\ s[j] = r[j]
           /\ size' = size /\ OnDisk' = OnDisk /\ disk'[0].type = disk[0].type
  <1> PICK n \in Nat : n = FreeCount(disk[0])
    BY FreeHead
  <1> PICK x \in 0..255 : x = FirstFree(disk[0])
    BY FreeHead
  <1> PICK f \in Int : f = loc.first
    BY LocalFields
  <1>1. /\ Linked(o, r) /\ Apart(o, r) /\ FilesOwned(o, r) /\ HeldOwned(o, r, h)
        /\ Giving(o, r, h) /\ Begins(o, r, Free, x, n)
        /\ \A j \in OnDisk : o[j] = Free => r[j] <= n /\ IsErased(j)
    BY FreeHead DEF Owned
  <1>2. loc.count = h /\ h > 0 /\ Begins(o, r, Held, f, h)
    BY <1>1 DEF Giving
  <1>3. WipedTo(o, r, Held, 0)
    BY <1>1, <1>2 DEF Giving
  <1>4. f \in OnDisk /\ o[f] = Held /\ r[f] = h /\ f \in 0..255
    BY <1>2, OnDiskFacts DEF Begins
  <1> PICK q \in [Indices -> Int] :
        q = [j \in Indices |-> IF o[j] = Held THEN Free ELSE o[j]]
    <2>1. [j \in Indices |-> IF o[j] = Held THEN Free ELSE o[j]] \in [Indices -> Int]
      BY DEF Free
    <2> QED
      BY <2>1
  <1> PICK s \in [Indices -> Int] :
        s = [j \in Indices |-> IF o[j] = Held THEN r[j] + n ELSE r[j]]
    <2>1. [j \in Indices |-> IF o[j] = Held THEN r[j] + n ELSE r[j]] \in [Indices -> Int]
      OBVIOUS
    <2> QED
      BY <2>1
  <1>5. \A j \in OnDisk : /\ q[j] = IF o[j] = Held THEN Free ELSE o[j]
                          /\ s[j] = IF o[j] = Held THEN r[j] + n ELSE r[j]
                          /\ r[j] \in Int /\ o[j] \in Int
    BY OnDiskFacts
  <1>6. /\ disk'[0] = SetSuper(disk[0], n + h, f) /\ size' = size /\ OnDisk' = OnDisk
        /\ \A j \in OnDisk : disk'[j] = disk[j]
    BY <1>2, OnDiskFacts, Written DEF FreeSuper
  <1>7. /\ disk'[0].body.kind = "super" /\ disk'[0].type = disk[0].type
        /\ FirstFree(disk[0])' = f /\ FreeCount(disk[0])' = n + h
    <2>1. /\ SetSuper(disk[0], n + h, f).body.kind = "super"
          /\ SetSuper(disk[0], n + h, f).type = disk[0].type
          /\ FirstFree(SetSuper(disk[0], n + h, f)) = f
          /\ FreeCount(SetSuper(disk[0], n + h, f)) = n + h
      BY SuperFields, OnDiskFacts
    <2>2. FirstFree(disk[0])' = FirstFree(disk'[0]) /\ FreeCount(disk[0])' = FreeCount(disk'[0])
      BY DEF FirstFree, FreeCount
    <2> QED
      BY <1>6, <2>1, <2>2
  <1>8. Inodes' = Inodes
    BY <1>6 DEF Inodes
  <1>9. Linked(q, s)'
    <2> SUFFICES ASSUME NEW j \in OnDisk, q[j] \notin {Nobody, Held}
                 PROVE  s[j] >= 1 /\ Begins(q, s, q[j], disk[j].nextIdx, s[j] - 1)'
      BY <1>6 DEF Linked
    <2>1. CASE o[j] = Held
      <3>1. q[j] = Free /\ s[j] = r[j] + n /\ r[j] >= 1
        BY <1>1, <1>5, <2>1 DEF HeldOwned
      <3>2. CASE r[j] > 1
        <4>1. Begins(o, r, Held, disk[j].nextIdx, r[j] - 1) /\ r[j] - 1 # 0
          BY <1>1, <1>5, <2>1, <3>2 DEF HeldOwned
        <4>2. s[j] - 1 = (r[j] - 1) + n /\ s[j] - 1 # 0
          BY <1>5, <3>1, <3>2
        <4> QED
          BY <1>5, <1>6, <3>1, <4>1, <4>2 DEF Begins
      <3>3. CASE r[j] = 1
        <4>1. disk[j].nextIdx = x /\ s[j] - 1 = n
          BY <1>1, <2>1, <3>1, <3>3 DEF HeldOwned
        <4> QED
          BY <1>1, <1>5, <1>6, <3>1, <4>1 DEF Begins, Free, Held
      <3> QED
        BY <1>5, <3>1, <3>2, <3>3
    <2>2. CASE o[j] # Held
      <3>1. q[j] = o[j] /\ s[j] = r[j]
        BY <1>5, <2>2
      <3>2. r[j] >= 1 /\ Begins(o, r, o[j], disk[j].nextIdx, r[j] - 1)
        BY <1>1, <2>2, <3>1 DEF Linked
      <3> QED
        BY <1>5, <1>6, <2>2, <3>1, <3>2 DEF Begins
    <2> QED
      BY <2>1, <2>2
  <1>10. Apart(q, s)'
    <2> SUFFICES ASSUME NEW j \in OnDisk, NEW k \in OnDisk,
                        q[j] = q[k], q[j] # Nobody, s[j] = s[k]
                 PROVE  j = k
      BY <1>6 DEF Apart
    <2>1. CASE o[j] = o[k]
      BY <1>1, <1>5, <2>1 DEF Apart, Held, Nobody
    <2>2. CASE o[j] # o[k]
      <3>1. (o[j] = Held /\ o[k] = Free) \/ (o[j] = Free /\ o[k] = Held)
        BY <1>5, <2>2
      <3>2. CASE o[j] = Held /\ o[k] = Free
        BY <1>1, <1>5, <3>2 DEF HeldOwned, Free, Held
      <3>3. CASE o[j] = Free /\ o[k] = Held
        BY <1>1, <1>5, <3>3 DEF HeldOwned, Free, Held
      <3> QED
        BY <3>1, <3>2, <3>3
    <2> QED
      BY <2>1, <2>2
  <1>11. FreeOwned(q, s)'
    <2>1. Begins(q, s, Free, f, n + h)'
      <3>1. q[f] = Free /\ s[f] = r[f] + n
        BY <1>4, <1>5
      <3>2. s[f] = n + h /\ n + h # 0
        BY <1>2, <1>4, <3>1
      <3>3. Begins(q, s, Free, f, n + h)
        BY <1>4, <3>1, <3>2 DEF Begins
      <3> QED
        BY <1>6, <3>3 DEF Begins
    <2>2. ASSUME NEW j \in OnDisk, q[j] = Free
          PROVE  s[j] <= n + h /\ IsErased(j)'
      <3>1. CASE o[j] = Held
        BY <1>1, <1>3, <1>5, <1>6, <3>1 DEF HeldOwned, WipedTo, IsErased
      <3>2. CASE o[j] # Held
        <4>1. o[j] = Free /\ s[j] = r[j] /\ r[j] \in Int
          BY <1>5, <2>2, <3>2
        <4>2. r[j] <= n /\ IsErased(j)
          BY <1>1, <4>1
        <4>3. disk'[j] = disk[j]
          BY <1>6
        <4> QED
          BY <4>1, <4>2, <4>3 DEF IsErased
      <3> QED
        BY <3>1, <3>2
    <2> QED
      BY <1>4, <1>6, <1>7, <2>1, <2>2 DEF FreeOwned
  <1>12. FilesSound(q, s)'
    <2>1. \A j \in OnDisk : j # Free /\ j # Held
      BY OnDiskFacts DEF Free, Held
    <2>2. ASSUME NEW i \in OnDisk, NEW b, o[i] = i
          PROVE  DataOf(o, r, i, b) => DataOf(q, s, i, b)'
      BY SMTT(30), <1>5, <1>6, <2>1, <2>2 DEF DataOf
    <2>3. ASSUME NEW j \in OnDisk, q[j] \in OnDisk
          PROVE  q[q[j]] = q[j] /\ s[j] <= s[q[j]]
      <3>1. o[j] # Held /\ q[j] = o[j] /\ s[j] = r[j]
        BY <1>5, <2>1, <2>3
      <3>2. o[o[j]] = o[j] /\ r[j] <= r[o[j]] /\ o[j] \in OnDisk
        BY <1>1, <2>3, <3>1 DEF FilesOwned
      <3>3. q[o[j]] = o[o[j]] /\ s[o[j]] = r[o[j]]
        BY <1>5, <3>1, <3>2
      <3> QED
        BY <3>1, <3>2, <3>3
    <2>4. \A j \in OnDisk : disk'[j].body.kind # "super"
      BY <1>1, <1>6 DEF FilesOwned
    <2>5. \A j \in Inodes :
            q[j] = j /\ (Buffers # {} => \E b \in Buffers : DataOf(q, s, j, b)')
      <3> SUFFICES ASSUME NEW j \in Inodes
                   PROVE  q[j] = j /\ (Buffers # {} => \E b \in Buffers : DataOf(q, s, j, b)')
        OBVIOUS
      <3>1. j \in OnDisk
        BY DEF Inodes
      <3>2. o[j] = j /\ (Buffers # {} => \E b \in Buffers : DataOf(o, r, j, b))
        BY <1>1 DEF FilesOwned
      <3>3. q[j] = j
        BY <1>5, <2>1, <3>1, <3>2
      <3>4. \A b \in Buffers : DataOf(o, r, j, b) => DataOf(q, s, j, b)'
        BY <2>2, <3>1, <3>2
      <3> QED
        BY <3>2, <3>3, <3>4
    <2>6. \A j \in OnDisk' : q[j] \in OnDisk' => q[q[j]] = q[j] /\ s[j] <= s[q[j]]
      <3>1. OnDisk' = OnDisk
        BY <1>6
      <3> QED
        BY <2>3, <3>1
    <2>7. \A j \in OnDisk' : disk'[j].body.kind # "super"
      BY <1>6, <2>4
    <2>8. \A j \in Inodes' :
            q[j] = j /\ (Buffers # {} => \E b \in Buffers : DataOf(q, s, j, b)')
      BY <1>8, <2>5
    <2> QED
      BY <2>6, <2>7, <2>8 DEF FilesSound
  <1>13. \A j \in OnDisk : q[j] # Held
    BY <1>5 DEF Held, Free
  <1>14. \A j \in OnDisk : IF o[j] = Held THEN q[j] = Free ELSE q[j] = o[j] /\ s[j] = r[j]
    BY <1>5
  <1> QED
    BY <1>6, <1>7, <1>9, <1>10, <1>11, <1>12, <1>13, <1>14

(* After it nobody holds blocks, and the files are whose they were. *)
LEMMA Given ==
  ASSUME TypeOK, NEW o \in [Indices -> Int], NEW r \in [Indices -> Int],
         NEW q \in [Indices -> Int], NEW s \in [Indices -> Int],
         \A j \in OnDisk : IF o[j] = Held THEN q[j] = Free ELSE q[j] = o[j] /\ s[j] = r[j],
         NEW j \in OnDisk, o[j] = j
  PROVE  q[j] = j /\ s[j] = r[j]
  BY OnDiskFacts DEF Held

LEMMA TruncSuperOwners ==
  ASSUME NEW L, TypeOK, CallOK, OwnersBut(L), TruncSuper
  PROVE  OwnersBut(L)'
  <1>1. /\ pc = "truncSuper" /\ pc' = "writeAlloc" /\ LL' = LL /\ fte' = fte /\ FreeSuper
    BY DEF TruncSuper, Goto, session, fte
  <1>2. /\ HasFS /\ fte.inodeIdx \in OnDisk /\ fte.inodeIdx \in OpenInodes
        /\ \E o, r \in [Indices -> Int], h \in Nat : Owned(o, r, h) /\ Placed(o, r, h, L)
    BY <1>1, WorkPlaced DEF Working, Writing
  <1>3. PICK o \in [Indices -> Int], r \in [Indices -> Int], h \in Nat :
          Owned(o, r, h) /\ Placed(o, r, h, L)
    BY <1>2
  <1>4. FilesOwned(o, r) /\ Storing(o, r, h)
    BY <1>3 DEF Owned
  <1>5. PICK q \in [Indices -> Int], s \in [Indices -> Int] :
          /\ Linked(q, s)' /\ Apart(q, s)' /\ FreeOwned(q, s)' /\ FilesSound(q, s)'
          /\ \A j \in OnDisk : q[j] # Held /\ disk'[j] = disk[j]
          /\ \A j \in OnDisk : IF o[j] = Held THEN q[j] = Free
                                          ELSE q[j] = o[j] /\ s[j] = r[j]
          /\ size' = size /\ OnDisk' = OnDisk /\ disk'[0].type = disk[0].type
    BY <1>1, <1>3, GiveSuper
  <1>6. \A j \in OpenInodes' : o[j] = j /\ j \in OnDisk
    BY <1>1, <1>4, <1>5, OpenKept DEF OpenInodes
  <1>7. FilesOwned(q, s)'
    <2>1. \A j \in OpenInodes' : q[j] = j
      BY <1>5, <1>6, Given
    <2> QED
      BY <1>5, <2>1, FilesBack
  <1>8. HeldOwned(q, s, 0)'
    BY <1>1, <1>5 DEF HeldOwned, Holding
  <1>9. Taking(q, s, 0)' /\ Giving(q, s, 0)'
    BY <1>1 DEF Taking, Giving, Allocating
  <1>10. Storing(q, s, 0)'
    <2>1. o[fte.inodeIdx] = fte.inodeIdx /\ r[fte.inodeIdx] = 1
      BY <1>1, <1>2, <1>4 DEF FilesOwned, Storing, Bare
    <2>2. s[fte.inodeIdx] = r[fte.inodeIdx]
      <3>1. fte.inodeIdx \in OnDisk /\ o[fte.inodeIdx] = fte.inodeIdx
        BY <1>2, <2>1
      <3>2. \A j \in OnDisk : IF o[j] = Held THEN q[j] = Free
                                            ELSE q[j] = o[j] /\ s[j] = r[j]
        BY <1>5
      <3> QED
        BY <3>1, <3>2, Given
    <2> QED
      BY <1>1, <2>1, <2>2 DEF Storing, Bare, Wanting, Allocating
  <1>13. Placed(q, s, 0, L)'
    <2>1. InHand(s, 0)'
      BY <1>1 DEF InHand
    <2>2. \A j \in OnDisk :
            (q[j] = o[j] /\ s[j] = r[j]) \/ (o[j] \in {Free, Held} /\ q[j] \in {Free, Held})
      BY <1>5
    <2>3. pc \notin {"deleteBlock", "deleteLast"} /\ pc' \notin {"truncBlock", "truncLast"}
      BY <1>1
    <2> QED
      BY <1>3, <1>4, <1>5, <2>1, <2>2, <2>3, PlacedMoved
  <1>11. HasPlaces(L)'
    <2>1. 0 \in Nat
      OBVIOUS
    <2> QED
      BY <1>5, <1>7, <1>8, <1>9, <1>10, <1>13, <2>1 DEF HasPlaces, Owned
  <1>12. StoreStays => EntriesOnce'
    BY <1>1, SameEntries
  <1> QED
    BY <1>1, <1>2, <1>5, <1>11, <1>12, WriteStepOwners DEF Mounting

LEMMA DeleteSuperOwners ==
  ASSUME NEW L, TypeOK, CallOK, OwnersBut(L), DeleteSuper
  PROVE  OwnersBut(L)'
  <1>1. /\ pc = "deleteSuper" /\ pc' = "idle" /\ LL' = Tail(LL) /\ FreeSuper
    BY DEF DeleteSuper, CloseHead, Return, ReturnByte
  <1>2. /\ HasFS /\ LL # <<>>
        /\ \E o, r \in [Indices -> Int], h \in Nat : Owned(o, r, h) /\ Placed(o, r, h, L)
    BY <1>1, WorkPlaced DEF Working
  <1>3. PICK o \in [Indices -> Int], r \in [Indices -> Int], h \in Nat :
          Owned(o, r, h) /\ Placed(o, r, h, L)
    BY <1>2
  <1>4. FilesOwned(o, r)
    BY <1>3 DEF Owned
  <1>5. PICK q \in [Indices -> Int], s \in [Indices -> Int] :
          /\ Linked(q, s)' /\ Apart(q, s)' /\ FreeOwned(q, s)' /\ FilesSound(q, s)'
          /\ \A j \in OnDisk : q[j] # Held /\ disk'[j] = disk[j]
          /\ \A j \in OnDisk : IF o[j] = Held THEN q[j] = Free
                                          ELSE q[j] = o[j] /\ s[j] = r[j]
          /\ size' = size /\ OnDisk' = OnDisk /\ disk'[0].type = disk[0].type
    BY <1>1, <1>3, GiveSuper
  <1>6. StoreStays
    BY <1>1, <1>5 DEF StoreStays, HasFS, HasSuperblock
  <1>7. /\ EntriesOnce'
        /\ \A j \in OpenInodes' : j \in OpenInodes /\ j # fte.inodeIdx
    BY <1>1, <1>2, <1>6, EntriesPop, PlaceParts
  <1>8. \A j \in OpenInodes' : o[j] = j /\ j \in OnDisk
    BY <1>4, <1>7 DEF FilesOwned, OpenInodes
  <1>9. FilesOwned(q, s)'
    <2>1. \A j \in OpenInodes' : q[j] = j
      BY <1>5, <1>8, Given
    <2> QED
      BY <1>5, <2>1, FilesBack
  <1>10. HeldOwned(q, s, 0)'
    BY <1>1, <1>5 DEF HeldOwned, Holding
  <1>11. Taking(q, s, 0)' /\ Giving(q, s, 0)' /\ Storing(q, s, 0)'
    BY <1>1 DEF Taking, Giving, Storing, Bare, Wanting, Allocating
  <1>13. Placed(q, s, 0, L)'
    <2>1. InHand(s, 0)'
      BY <1>1 DEF InHand
    <2>2. \A j \in OnDisk :
            (q[j] = o[j] /\ s[j] = r[j]) \/ (o[j] \in {Free, Held} /\ q[j] \in {Free, Held})
      BY <1>5
    <2>3. pc \notin {"deleteBlock", "deleteLast"} /\ pc' \notin {"truncBlock", "truncLast"}
      BY <1>1
    <2> QED
      BY <1>3, <1>4, <1>5, <2>1, <2>2, <2>3, PlacedMoved
  <1>12. HasPlaces(L)'
    <2>1. 0 \in Nat
      OBVIOUS
    <2> QED
      BY <1>5, <1>9, <1>10, <1>11, <1>13, <2>1 DEF HasPlaces, Owned
  <1> QED
    BY <1>1, <1>2, <1>5, <1>7, <1>12, WriteStepOwners DEF Mounting

-----------------------------------------------------------------------------
(* tfs_deleteFile *)

LEMMA DeleteBlockOwners ==
  ASSUME NEW L, TypeOK, CallOK, OwnersBut(L), DeleteBlock
  PROVE  OwnersBut(L)'
  <1>1. pc = "deleteBlock" /\ Readable(loc.cur) /\ LL' = LL /\ fte' = fte
    BY DEF DeleteBlock, FreeOne, session, fte
  <1>2. /\ HasFS /\ fte.inodeIdx \in OnDisk /\ fte.inodeIdx \in OpenInodes
        /\ \E o, r \in [Indices -> Int], h \in Nat : Owned(o, r, h) /\ Placed(o, r, h, L)
    BY <1>1, WorkPlaced DEF Working
  <1>3. PICK o \in [Indices -> Int], r \in [Indices -> Int], h \in Nat :
          Owned(o, r, h) /\ Placed(o, r, h, L)
    BY <1>2
  <1>4. /\ Linked(o, r) /\ Apart(o, r) /\ FreeOwned(o, r) /\ FilesOwned(o, r)
        /\ HeldOwned(o, r, h) /\ Giving(o, r, h)
    BY <1>3 DEF Owned
  <1> PICK x \in Int, c \in Nat, f \in Int : x = loc.cur /\ c = loc.count /\ f = loc.first
    BY LocalFields
  <1> PICK i \in 1..242 : i = fte.inodeIdx
    BY <1>2, OnDiskFacts
  <1>5. /\ i \in OnDisk /\ o[i] = i /\ f = i /\ i \notin {Free, Nobody, Held}
        /\ WipedTo(o, r, i, r[i] - c) /\ r[i] \in Int
    BY <1>1, <1>2, <1>4, OnDiskFacts DEF FilesOwned, Giving, Free, Nobody, Held
  <1>6. x \in OnDisk /\ o[x] = i /\ r[x] = r[i] - c
    <2>1. x # 0 /\ Begins(o, r, i, x, r[i] - c) /\ Readable(x)
      BY <1>1, <1>4 DEF Giving
    <2>2. x \in OnDisk
      BY <2>1 DEF Readable, OnDisk, TypeOK
    <2> QED
      BY <2>1, <2>2 DEF Begins
  <1> PICK y \in 0..255 : y = disk[x].nextIdx
    <2>1. disk[x].nextIdx \in 0..255
      BY <1>6, OnDiskFacts
    <2> QED
      BY <2>1
  <1>7. r[x] >= 1 /\ Begins(o, r, i, y, r[x] - 1) /\ r[x] - 1 = r[i] - (c + 1)
    BY <1>4, <1>5, <1>6 DEF Linked
  <1>8. /\ WriteBlock(x, Erased(disk[x]))
        /\ pc' = IF y = 0 THEN "deleteLast" ELSE "deleteBlock"
        /\ loc' = [loc EXCEPT !.last = x, !.cur = y, !.count = c + 1]
    BY DEF DeleteBlock, FreeOne, Goto
  <1>9. /\ loc'.last = x /\ loc'.cur = y /\ loc'.count = c + 1 /\ loc'.first = f
    BY <1>8 DEF TypeOK, Locals
  <1>10. /\ Erased(disk[x]).nextIdx = y /\ Erased(disk[x]).type = FB
         /\ Erased(disk[x]).body = ZeroBody
         /\ Erased(disk[x]).type # inode /\ Erased(disk[x]).body.kind # "super"
    BY <1>6, OnDiskFacts, ErasedFields
  <1>11. /\ disk'[x] = Erased(disk[x]) /\ \A j \in OnDisk : j # x => disk'[j] = disk[j]
         /\ disk'[0] = disk[0] /\ size' = size /\ OnDisk' = OnDisk
         /\ Linked(o, r)' /\ Apart(o, r)' /\ FreeOwned(o, r)'
    <2>1. o[x] # Free /\ Begins(o, r, o[x], Erased(disk[x]).nextIdx, r[x] - 1)
      BY <1>5, <1>6, <1>7, <1>10
    <2>2. Linked(o, r) /\ Apart(o, r) /\ FreeOwned(o, r)
      BY <1>4
    <2> QED
      BY <1>6, <1>8, <1>10, <2>1, <2>2, ChainsWritten
  <1>12. FilesOwned(o, r)'
    <2>1. FilesSound(o, r)
      BY <1>4 DEF FilesSound, FilesOwned
    <2>2. FilesSound(o, r)'
      BY <1>6, <1>10, <1>11, <2>1, FilesWritten
    <2>3. \A j \in OpenInodes' : o[j] = j
      BY <1>1, <1>4, <1>11, OpenKept
    <2> QED
      BY <2>2, <2>3, FilesBack
  <1>13. HeldOwned(o, r, 0)'
    <2>1. \A j \in OnDisk : o[j] # Held
      BY <1>1, <1>4 DEF HeldOwned, Holding
    <2> QED
      BY <1>11, <2>1 DEF HeldOwned
  <1>14. y = 0 => r[i] = c + 1
    BY <1>5, <1>7, OnDiskFacts DEF Begins
  <1>15. WipedTo(o, r, i, r[i] - (c + 1))'
    <2> SUFFICES ASSUME NEW j \in OnDisk, o[j] = i, r[j] > r[i] - (c + 1)
                 PROVE  IsErased(j)'
      BY <1>11 DEF WipedTo
    <2>1. CASE j = x
      BY <1>10, <1>11, <2>1 DEF IsErased
    <2>2. CASE j # x
      <3>1. r[j] # r[x] /\ r[j] \in Int
        BY <1>4, <1>5, <1>6, <2>2, OnDiskFacts DEF Apart
      <3>2. r[j] > r[i] - c
        BY <1>5, <1>6, <3>1
      <3>3. IsErased(j)
        BY <1>5, <3>2 DEF WipedTo
      <3> QED
        BY <1>11, <2>2, <3>3 DEF IsErased
    <2> QED
      BY <2>1, <2>2
  <1>16. Begins(o, r, i, y, r[i] - (c + 1))'
    BY <1>7, <1>11 DEF Begins
  <1>17. Giving(o, r, 0)'
    <2>1. fte'.inodeIdx = i
      BY <1>1
    <2>2. CASE y = 0
      <3>1. pc' = "deleteLast" /\ r[i] = c + 1 /\ r[x] = 1
        BY <1>6, <1>8, <1>14, <2>2
      <3>2. x \in OnDisk' /\ o[x] = i
        BY <1>6, <1>11
      <3> QED
        BY <1>5, <1>9, <1>15, <2>1, <3>1, <3>2 DEF Giving
    <2>3. CASE y # 0
      <3>1. pc' = "deleteBlock"
        BY <1>8, <2>3
      <3> QED
        BY <1>5, <1>9, <1>15, <1>16, <2>1, <2>3, <3>1 DEF Giving
    <2> QED
      BY <2>2, <2>3
  <1>18. Taking(o, r, 0)' /\ Storing(o, r, 0)'
    BY <1>8 DEF Taking, Storing, Bare, Wanting, Allocating
  <1>21. Placed(o, r, 0, L)'
    <2>1. ASSUME L # Indices
          PROVE  InHand(r, 0)'
      <3>1. r[x] # 1 \/ y = 0
        BY <1>3, <1>5, <1>6, <2>1 DEF Placed, ChainsEnd
      <3>2. y # 0 => c + 1 < r[i]
        BY <1>5, <1>6, <1>7, <3>1
      <3>3. pc' = "deleteBlock" => loc'.count < r[fte'.inodeIdx]
        BY <1>1, <1>8, <1>9, <3>2
      <3> QED
        BY <1>8, <3>3 DEF InHand
    <2>2. /\ disk'[x].type # inode /\ disk'[x].nextIdx = disk[x].nextIdx
          /\ pc' \in {"deleteBlock", "deleteLast"} /\ (o[x] # x \/ x = fte'.inodeIdx)
          /\ pc' \notin {"truncBlock", "truncLast"}
      BY <1>1, <1>6, <1>8, <1>10, <1>11
    <2> QED
      BY <1>1, <1>3, <1>4, <1>6, <1>11, <2>1, <2>2, PlacedWritten
  <1>19. HasPlaces(L)'
    <2>1. 0 \in Nat
      OBVIOUS
    <2> QED
      BY <1>11, <1>12, <1>13, <1>17, <1>18, <1>21, <2>1 DEF HasPlaces, Owned
  <1>20. StoreStays => EntriesOnce'
    BY <1>1, SameEntries
  <1> QED
    BY <1>2, <1>8, <1>11, <1>19, <1>20, WriteStepOwners DEF Mounting

(* The last block written, the file is nobody's but the call's.            *)
LEMMA DeleteLastOwners ==
  ASSUME NEW L, TypeOK, CallOK, OwnersBut(L), DeleteLast
  PROVE  OwnersBut(L)'
  <1>1. /\ pc = "deleteLast" /\ pc' = "deleteSuper" /\ LL' = LL /\ loc' = loc /\ fte' = fte
        /\ WriteBlock(loc.last, [type |-> FB, nextIdx |-> ToIdx(FirstFree(disk[0])),
                                 body |-> ZeroBody])
    BY DEF DeleteLast, FreeLast, Goto, session, fte
  <1>2. /\ HasFS /\ fte.inodeIdx \in OnDisk /\ fte.inodeIdx \in OpenInodes
        /\ \E o, r \in [Indices -> Int], h \in Nat : Owned(o, r, h) /\ Placed(o, r, h, L)
    BY <1>1, WorkPlaced DEF Working
  <1>3. PICK o \in [Indices -> Int], r \in [Indices -> Int], h \in Nat :
          Owned(o, r, h) /\ Placed(o, r, h, L)
    BY <1>2
  <1>4. /\ Linked(o, r) /\ Apart(o, r) /\ FreeOwned(o, r) /\ FilesOwned(o, r)
        /\ HeldOwned(o, r, h) /\ Giving(o, r, h)
    BY <1>3 DEF Owned
  <1> PICK x \in Int, f \in Int : x = loc.last /\ f = loc.first
    BY LocalFields
  <1> PICK i \in 1..242 : i = fte.inodeIdx
    BY <1>2, OnDiskFacts
  <1> PICK y \in 0..255 : y = FirstFree(disk[0])
    BY <1>3, FreeHead
  <1>5. /\ i \in OnDisk /\ o[i] = i /\ f = i /\ i \notin {Free, Nobody, Held}
        /\ loc.count = r[i] /\ WipedTo(o, r, i, r[i] - r[i]) /\ r[i] \in Int
        /\ x \in OnDisk /\ o[x] = i /\ r[x] = 1
    BY <1>1, <1>2, <1>4, OnDiskFacts DEF FilesOwned, Giving, Free, Nobody, Held
  <1>6. /\ \A j \in OnDisk : o[j] # Held
        /\ \A j \in OnDisk : o[j] \in Int /\ r[j] \in Int
    BY <1>1, <1>4, OnDiskFacts DEF HeldOwned, Holding
  <1>7. \A j \in OnDisk : o[j] = i => /\ r[j] \in 1..r[i] /\ IsErased(j)
                                      /\ Begins(o, r, i, disk[j].nextIdx, r[j] - 1)
    <2> SUFFICES ASSUME NEW j \in OnDisk, o[j] = i
                 PROVE  /\ r[j] \in 1..r[i] /\ IsErased(j)
                        /\ Begins(o, r, i, disk[j].nextIdx, r[j] - 1)
      OBVIOUS
    <2>1. r[j] >= 1 /\ Begins(o, r, i, disk[j].nextIdx, r[j] - 1)
      BY <1>4, <1>5 DEF Linked
    <2>2. r[j] <= r[i]
      BY <1>4, <1>5 DEF FilesOwned
    <2>3. IsErased(j)
      BY <1>5, <1>6, <2>1 DEF WipedTo
    <2> QED
      BY <1>6, <2>1, <2>2, <2>3
  <1> PICK q \in [Indices -> Int] :
        q = [j \in Indices |-> IF o[j] = i THEN Held ELSE o[j]]
    <2>1. [j \in Indices |-> IF o[j] = i THEN Held ELSE o[j]] \in [Indices -> Int]
      BY DEF Held
    <2> QED
      BY <2>1
  <1>8. \A j \in OnDisk : q[j] = IF o[j] = i THEN Held ELSE o[j]
    BY OnDiskFacts
  <1>9. \A j \in OnDisk : (q[j] = Held <=> o[j] = i) /\ (q[j] # Held => q[j] = o[j])
    BY <1>5, <1>6, <1>8
  <1>10. Linked(q, r) /\ Apart(q, r) /\ FreeOwned(q, r)
    <2>1. Linked(q, r)
      <3> SUFFICES ASSUME NEW j \in OnDisk, q[j] \notin {Nobody, Held}
                   PROVE  r[j] >= 1 /\ Begins(q, r, q[j], disk[j].nextIdx, r[j] - 1)
        BY DEF Linked
      <3>1. q[j] = o[j] /\ o[j] # i /\ o[j] # Held
        BY <1>6, <1>9
      <3>2. r[j] >= 1 /\ Begins(o, r, o[j], disk[j].nextIdx, r[j] - 1)
        BY <1>4, <3>1 DEF Linked
      <3> QED
        BY <1>8, <3>1, <3>2 DEF Begins
    <2>2. Apart(q, r)
      BY <1>4, <1>5, <1>6, <1>8 DEF Apart
    <2>3. FreeOwned(q, r)
      <3>1. \A j \in OnDisk : q[j] = Free <=> o[j] = Free
        BY <1>5, <1>8 DEF Free, Held
      <3>2. Begins(q, r, Free, FirstFree(disk[0]), FreeCount(disk[0]))
        BY <1>4, <3>1 DEF FreeOwned, Begins
      <3> QED
        BY <1>4, <3>1, <3>2 DEF FreeOwned
    <2> QED
      BY <2>1, <2>2, <2>3
  <1>11. FilesSound(q, r)
    <2>2. ASSUME NEW j \in OnDisk, q[j] \in OnDisk
          PROVE  q[q[j]] = q[j] /\ r[j] <= r[q[j]]
      <3>1. q[j] = o[j] /\ o[j] # i /\ o[j] \in OnDisk
        BY <1>9, <2>2, OnDiskFacts DEF Held
      <3>2. o[o[j]] = o[j] /\ r[j] <= r[o[j]]
        BY <1>4, <3>1 DEF FilesOwned
      <3> QED
        BY <1>9, <3>1, <3>2
    <2>3. ASSUME NEW k \in Inodes
          PROVE  q[k] = k /\ (Buffers # {} => \E b \in Buffers : DataOf(q, r, k, b))
      <3>1. k \in OnDisk /\ o[k] = k
             /\ (Buffers # {} => \E b \in Buffers : DataOf(o, r, k, b))
        BY <1>4 DEF FilesOwned, Inodes
      <3>2. k # i
        BY <1>5, <1>7 DEF Inodes, IsErased, FB, inode
      <3>3. k # Held
        BY <3>1, OnDiskFacts DEF Held
      <3>4. \A b : DataOf(o, r, k, b) => DataOf(q, r, k, b)
        BY <1>8, <3>2, <3>3 DEF DataOf
      <3> QED
        BY <1>8, <3>1, <3>2, <3>4
    <2>4. \A j \in OnDisk : disk[j].body.kind # "super"
      BY <1>4 DEF FilesOwned
    <2> QED
      BY <2>2, <2>3, <2>4 DEF FilesSound
  <1> DEFINE b == [type |-> FB, nextIdx |-> ToIdx(FirstFree(disk[0])), body |-> ZeroBody]
  <1>12. /\ b.nextIdx = y /\ b.type = FB /\ b.body = ZeroBody
         /\ b.type # inode /\ b.body.kind # "super"
    BY LastFields
  <1>13. WriteBlock(x, b)
    BY <1>1
  <1> HIDE DEF b
  <1>14. q[x] = Held /\ q[i] = Held
    BY <1>5, <1>8
  <1>15. /\ disk'[x] = b /\ \A j \in OnDisk : j # x => disk'[j] = disk[j]
         /\ disk'[0] = disk[0] /\ size' = size /\ OnDisk' = OnDisk
         /\ Linked(q, r)' /\ Apart(q, r)' /\ FreeOwned(q, r)'
    BY <1>5, <1>10, <1>13, <1>14, ChainsWritten DEF Held, Free
  <1>16. FilesOwned(q, r)'
    <2>1. FilesSound(q, r)'
      BY <1>5, <1>11, <1>12, <1>14, <1>15, FilesWritten
    <2>2. \A j \in OpenInodes' : o[j] = j /\ j \in OnDisk
      BY <1>1, <1>4, <1>15, OpenKept DEF OpenInodes
    <2>3. \A j \in OpenInodes' : q[j] = j \/ (pc' = "deleteSuper" /\ j = fte'.inodeIdx)
      BY <1>1, <1>8, <2>2
    <2> QED
      BY <2>1, <2>3, FilesBack
  <1>17. r[i] \in Nat /\ r[i] > 0
    BY <1>5, <1>7
  <1>18. \A j \in OnDisk : q[j] = Held /\ r[j] = 1 => j = x
    <2> SUFFICES ASSUME NEW j \in OnDisk, q[j] = Held, r[j] = 1
                 PROVE  j = x
      OBVIOUS
    <2>1. o[j] = o[x] /\ r[j] = r[x] /\ o[j] # Nobody
      BY <1>5, <1>9
    <2> QED
      BY <1>4, <1>5, <2>1 DEF Apart
  <1>19. HeldOwned(q, r, r[i])'
    <2> SUFFICES ASSUME NEW j \in OnDisk, q[j] = Held
                 PROVE  /\ r[j] \in 1..r[i]
                        /\ r[j] > 1 => Begins(q, r, Held, disk[j].nextIdx, r[j] - 1)'
                        /\ r[j] = 1 => disk'[j].nextIdx = y
      <3>1. pc' = "deleteSuper" /\ FirstFree(disk[0])' = y /\ OnDisk' = OnDisk
        BY <1>1, <1>15
      <3> QED
        BY <3>1 DEF HeldOwned, Holding
    <2>1. r[j] \in 1..r[i] /\ Begins(o, r, i, disk[j].nextIdx, r[j] - 1)
      BY <1>7, <1>9
    <2>2. CASE j = x
      BY <1>5, <1>12, <1>15, <2>1, <2>2
    <2>3. CASE j # x
      <3>1. disk'[j].nextIdx = disk[j].nextIdx /\ OnDisk' = OnDisk
        BY <1>15, <2>3
      <3>2. r[j] # 1 /\ r[j] \in 1..r[i]
        BY <1>18, <2>1, <2>3
      <3>3. /\ disk[j].nextIdx \in OnDisk /\ o[disk[j].nextIdx] = i
            /\ r[disk[j].nextIdx] = r[j] - 1
        <4>1. r[j] - 1 # 0
          BY <3>2
        <4> QED
          BY <2>1, <4>1 DEF Begins
      <3>4. q[disk[j].nextIdx] = Held
        BY <1>8, <3>3
      <3>5. Begins(q, r, Held, disk[j].nextIdx, r[j] - 1)'
        BY <3>1, <3>2, <3>3, <3>4 DEF Begins
      <3> QED
        BY <3>2, <3>5
    <2> QED
      BY <2>2, <2>3
  <1>20. WipedTo(q, r, Held, 0)'
    <2> SUFFICES ASSUME NEW j \in OnDisk, q[j] = Held
                 PROVE  IsErased(j)'
      BY <1>15 DEF WipedTo
    <2>1. CASE j = x
      BY <1>12, <1>15, <2>1 DEF IsErased
    <2>2. CASE j # x
      BY <1>7, <1>9, <1>15, <2>2 DEF IsErased
    <2> QED
      BY <2>1, <2>2
  <1>21. Begins(q, r, Held, f, r[i])'
    BY <1>5, <1>14, <1>15, <1>17 DEF Begins
  <1>22. Giving(q, r, r[i])'
    BY <1>1, <1>5, <1>17, <1>20, <1>21 DEF Giving
  <1>23. Taking(q, r, r[i])' /\ Storing(q, r, r[i])'
    BY <1>1 DEF Taking, Storing, Bare, Wanting, Allocating
  <1>26. Placed(q, r, r[i], L)'
    <2> SUFFICES ASSUME L # Indices
                 PROVE  InUse(q, L)' /\ ChainsEnd(q, r)' /\ ChainsFit(r)' /\ InHand(r, r[i])'
      BY DEF Placed
    <2>1. InUse(o, L) /\ ChainsEnd(o, r) /\ ChainsFit(r)
      BY <1>3 DEF Placed
    <2>2. /\ \A k \in Inodes' : k \in Inodes
          /\ \A k \in Inodes : k # x => k \in Inodes'
      BY <1>12, <1>15 DEF Inodes
    <2>3. InUse(q, L)'
      <3> SUFFICES ASSUME NEW j \in OnDisk \ L, q[j] \notin {Free, Held}
                   PROVE  q[j] \in Inodes'
        BY <1>15 DEF InUse
      <3>1. q[j] = o[j] /\ o[j] # i
        BY <1>9
      <3>2. o[j] \in Inodes
        BY <2>1, <3>1 DEF InUse
      <3>3. o[j] \in OnDisk /\ o[o[j]] = o[j]
        BY <1>4, <3>2 DEF FilesOwned, Inodes
      <3> QED
        BY <1>5, <2>2, <3>1, <3>2, <3>3
    <2>4. ChainsEnd(q, r)'
      <3> SUFFICES ASSUME NEW j \in OnDisk, r[j] = 1, q[j] \in OnDisk
                   PROVE  disk'[j].nextIdx = 0
        BY <1>1, <1>15 DEF ChainsEnd
      <3>1. q[j] = o[j] /\ o[j] \in OnDisk /\ j # x
        BY <1>9, <1>14, OnDiskFacts DEF Held
      <3> QED
        BY <1>15, <2>1, <3>1 DEF ChainsEnd
    <2>5. ChainsFit(r)'
      BY <2>1, <2>2 DEF ChainsFit
    <2>6. InHand(r, r[i])'
      BY <1>1 DEF InHand
    <2> QED
      BY <2>3, <2>4, <2>5, <2>6
  <1>24. HasPlaces(L)'
    BY <1>15, <1>16, <1>17, <1>19, <1>22, <1>23, <1>26 DEF HasPlaces, Owned
  <1>25. StoreStays => EntriesOnce'
    BY <1>1, SameEntries
  <1> QED
    BY <1>1, <1>2, <1>15, <1>24, <1>25, WriteStepOwners DEF Mounting

-----------------------------------------------------------------------------
(* tfs_writeFile *)

(* The fields of the inode of a file that is truncated. *)
LEMMA CutFields ==
  ASSUME NEW b \in Block, b.body.kind # "super",
         NEW c, c = [SetSize(b, 0) EXCEPT !.nextIdx = 0]
  PROVE  /\ c.nextIdx = 0 /\ c.type = b.type /\ c.body.kind # "super"
         /\ FileSize(c) = 0
  <1>1. c.nextIdx = 0 /\ c.type = b.type /\ c.body = InodeBody(NameOf(b), 0)
    BY DEF SetSize, Block
  <1>2. CASE c.body = ZeroBody
    BY <1>1, <1>2 DEF ZeroBody, FileSize
  <1>3. CASE c.body # ZeroBody
    <2>1. c.body = [kind |-> "inode", name |-> NameOf(b), size |-> 0]
      BY <1>1, <1>3 DEF InodeBody
    <2> QED
      BY <1>1, <2>1 DEF FileSize
  <1> QED
    BY <1>2, <1>3

(* The blocks of the file but its inode are the call's to give back.       *)
LEMMA WriteFileCuts ==
  ASSUME NEW L, TypeOK, OwnersBut(L), NEW FD, NEW b, WriteFile(FD, b),
         Readable(fte.inodeIdx), disk[fte.inodeIdx].nextIdx # 0
  PROVE  OwnersBut(L)'
  <1>1. Served(FD) /\ LL' = LL /\ fte' = fte
    BY DEF WriteFile, session, fte
  <1>2. /\ HasFS /\ fte.inodeIdx \in OnDisk /\ pc = "idle"
        /\ \E o, r \in [Indices -> Int], h \in Nat :
             /\ Owned(o, r, h) /\ Placed(o, r, h, L)
             /\ h = 0 /\ o[fte.inodeIdx] = fte.inodeIdx
    BY <1>1, ServedPlaced
  <1>3. PICK o \in [Indices -> Int], r \in [Indices -> Int], h \in Nat :
          Owned(o, r, h) /\ Placed(o, r, h, L) /\ h = 0 /\ o[fte.inodeIdx] = fte.inodeIdx
    BY <1>2
  <1>4. /\ Linked(o, r) /\ Apart(o, r) /\ FreeOwned(o, r) /\ FilesOwned(o, r)
        /\ HeldOwned(o, r, 0)
    BY <1>3 DEF Owned
  <1> PICK i \in 1..242 : i = fte.inodeIdx
    BY <1>2, OnDiskFacts
  <1> PICK y \in 0..255 : y = disk[i].nextIdx
    <2>1. disk[i].nextIdx \in 0..255
      BY <1>2, OnDiskFacts
    <2> QED
      BY <2>1
  <1>5. i \in OnDisk /\ o[i] = i /\ i \notin {Free, Nobody, Held} /\ disk[i] \in Block
    BY <1>2, <1>3, OnDiskFacts DEF Free, Nobody, Held
  <1>6. /\ \A j \in OnDisk : o[j] # Held
        /\ \A j \in OnDisk : o[j] \in Int /\ r[j] \in Int
    BY <1>4, OnDiskFacts DEF HeldOwned
  <1>7. r[i] \in Int /\ r[i] >= 1 /\ Begins(o, r, i, y, r[i] - 1)
    BY <1>4, <1>5, <1>6 DEF Linked
  <1>8. \A j \in OnDisk : o[j] = i /\ j # i =>
          r[j] \in 1..(r[i] - 1) /\ Begins(o, r, i, disk[j].nextIdx, r[j] - 1)
    <2> SUFFICES ASSUME NEW j \in OnDisk, o[j] = i, j # i
                 PROVE  /\ r[j] \in 1..(r[i] - 1)
                        /\ Begins(o, r, i, disk[j].nextIdx, r[j] - 1)
      OBVIOUS
    <2>1. r[j] >= 1 /\ Begins(o, r, i, disk[j].nextIdx, r[j] - 1)
      BY <1>4, <1>5 DEF Linked
    <2>2. r[j] <= r[i] /\ r[j] # r[i]
      BY <1>4, <1>5 DEF FilesOwned, Apart
    <2> QED
      BY <1>6, <1>7, <2>1, <2>2
  <1> PICK q \in [Indices -> Int] :
        q = [j \in Indices |-> IF o[j] = i /\ j # i THEN Held ELSE o[j]]
    <2>1. [j \in Indices |-> IF o[j] = i /\ j # i THEN Held ELSE o[j]] \in [Indices -> Int]
      BY DEF Held
    <2> QED
      BY <2>1
  <1> PICK s \in [Indices -> Int] : s = [j \in Indices |-> IF j = i THEN 1 ELSE r[j]]
    <2>1. [j \in Indices |-> IF j = i THEN 1 ELSE r[j]] \in [Indices -> Int]
      OBVIOUS
    <2> QED
      BY <2>1
  <1>9. /\ \A j \in OnDisk : q[j] = IF o[j] = i /\ j # i THEN Held ELSE o[j]
        /\ \A j \in OnDisk : s[j] = IF j = i THEN 1 ELSE r[j]
        /\ \A j \in OnDisk : (q[j] = Held <=> o[j] = i /\ j # i)
        /\ \A j \in OnDisk : (q[j] = i <=> j = i)
        /\ q[i] = i /\ s[i] = 1
    BY <1>5, <1>6, OnDiskFacts
  <1> DEFINE c == [SetSize(disk[i], 0) EXCEPT !.nextIdx = 0]
  <1>10. /\ c.nextIdx = 0 /\ c.type = disk[i].type /\ c.body.kind # "super"
         /\ FileSize(c) = 0
    <2>1. disk[i].body.kind # "super"
      BY <1>4, <1>5 DEF FilesOwned
    <2> QED
      BY <1>5, <2>1, CutFields
  <1>11. /\ WriteBlock(i, c)
         /\ pc' = "truncBlock"
         /\ loc' = [NoCall EXCEPT !.then = "tfs_writeFile", !.buf = b,
                                  !.cur = y, !.first = y]
    BY DEF WriteFile, Call
  <1> HIDE DEF c
  <1>12. loc'.cur = y /\ loc'.first = y /\ loc'.count = 0
    BY <1>11 DEF NoCall
  <1>13. /\ disk'[i] = c /\ \A j \in OnDisk : j # i => disk'[j] = disk[j]
         /\ disk'[0] = disk[0] /\ size' = size /\ OnDisk' = OnDisk
    BY SMTT(30), <1>5, <1>11, Written, OnDiskFacts
  <1>14. Linked(q, s)'
    <2> SUFFICES ASSUME NEW j \in OnDisk, q[j] \notin {Nobody, Held}
                 PROVE  s[j] >= 1 /\ Begins(q, s, q[j], disk[j].nextIdx, s[j] - 1)'
      BY <1>13 DEF Linked
    <2>1. CASE j = i
      BY <1>9, <1>10, <1>13, <2>1, OnDiskFacts DEF Begins
    <2>2. CASE j # i
      <3>1. q[j] = o[j] /\ o[j] # i /\ s[j] = r[j] /\ disk'[j] = disk[j]
        BY <1>9, <1>13, <2>2
      <3>2. r[j] >= 1 /\ Begins(o, r, o[j], disk[j].nextIdx, r[j] - 1)
        BY <1>4, <1>6, <3>1 DEF Linked
      <3>3. \A t \in OnDisk : o[t] = o[j] => q[t] = o[j] /\ s[t] = r[t]
        BY <1>5, <1>9, <3>1
      <3> QED
        <4>1. CASE r[j] - 1 = 0
          <5>1. disk[j].nextIdx \notin OnDisk
            BY <3>2, <4>1 DEF Begins
          <5> QED
            BY <1>13, <3>1, <3>2, <4>1, <5>1 DEF Begins
        <4>2. CASE r[j] - 1 # 0
          <5>1. /\ disk[j].nextIdx \in OnDisk /\ o[disk[j].nextIdx] = o[j]
                /\ r[disk[j].nextIdx] = r[j] - 1
            BY <3>2, <4>2 DEF Begins
          <5>2. q[disk[j].nextIdx] = q[j] /\ s[disk[j].nextIdx] = s[j] - 1
            BY <3>1, <3>3, <5>1
          <5>3. disk'[j].nextIdx = disk[j].nextIdx /\ OnDisk' = OnDisk /\ s[j] - 1 # 0
            BY <1>13, <3>1, <4>2
          <5>4. Begins(q, s, q[j], disk[j].nextIdx, s[j] - 1)'
            BY <5>1, <5>2, <5>3 DEF Begins
          <5> QED
            BY <3>1, <3>2, <5>4
        <4> QED
          BY <4>1, <4>2
    <2> QED
      BY <2>1, <2>2
  <1>15. Apart(q, s)'
    <2> SUFFICES ASSUME NEW j \in OnDisk, NEW k \in OnDisk,
                        q[j] = q[k], q[j] # Nobody, s[j] = s[k]
                 PROVE  j = k
      BY <1>13 DEF Apart
    <2>1. CASE j = i \/ k = i
      BY <1>9, <2>1
    <2>2. CASE j # i /\ k # i
      <3>1. o[j] = o[k] /\ r[j] = r[k] /\ o[j] # Nobody
        BY <1>5, <1>6, <1>9, <2>2
      <3> QED
        BY <1>4, <3>1 DEF Apart
    <2> QED
      BY <2>1, <2>2
  <1>16. FreeOwned(q, s)'
    <2>1. \A j \in OnDisk : (q[j] = Free <=> o[j] = Free) /\ (o[j] = Free => j # i)
      BY <1>5, <1>9 DEF Free, Held
    <2>2. \A j \in OnDisk : o[j] = Free => s[j] = r[j] /\ disk'[j] = disk[j]
      BY SMTT(30), <1>9, <1>13, <2>1
    <2>3. Begins(q, s, Free, FirstFree(disk[0]), FreeCount(disk[0]))'
      <3>1. Begins(o, r, Free, FirstFree(disk[0]), FreeCount(disk[0]))
        BY <1>4 DEF FreeOwned
      <3>2. /\ FirstFree(disk[0])' = FirstFree(disk[0])
            /\ FreeCount(disk[0])' = FreeCount(disk[0])
        BY <1>13
      <3> QED
        BY <1>13, <2>1, <2>2, <3>1, <3>2 DEF Begins
    <2>4. ASSUME NEW j \in OnDisk, q[j] = Free
          PROVE  s[j] <= FreeCount(disk[0]) /\ IsErased(j)'
      <3>1. o[j] = Free /\ s[j] = r[j] /\ disk'[j] = disk[j]
        BY <2>1, <2>2, <2>4
      <3> QED
        BY <1>4, <3>1 DEF FreeOwned, IsErased
    <2> QED
      BY <1>4, <1>13, <2>3, <2>4 DEF FreeOwned
  <1>17. FilesSound(q, s)'
    <2>1. ASSUME NEW j \in OnDisk, q[j] \in OnDisk
          PROVE  q[q[j]] = q[j] /\ s[j] <= s[q[j]]
      <3>1. CASE j = i
        BY <1>9, <3>1
      <3>2. CASE j # i
        <4>1. q[j] = o[j] /\ o[j] # i /\ o[j] \in OnDisk /\ s[j] = r[j]
          BY <1>9, <2>1, <3>2, OnDiskFacts DEF Held
        <4>2. o[o[j]] = o[j] /\ r[j] <= r[o[j]]
          BY <1>4, <4>1 DEF FilesOwned
        <4> QED
          BY <1>9, <4>1, <4>2
      <3> QED
        BY <3>1, <3>2
    <2>2. \A j \in OnDisk : disk'[j].body.kind # "super"
      BY <1>4, <1>10, <1>13 DEF FilesOwned
    <2>3. ASSUME NEW k \in OnDisk, disk'[k].type = inode
          PROVE  q[k] = k /\ (Buffers # {} => \E d \in Buffers : DataOf(q, s, k, d)')
      <3>1. k \in Inodes
        BY <1>10, <1>13, <2>3 DEF Inodes
      <3>2. o[k] = k /\ (Buffers # {} => \E d \in Buffers : DataOf(o, r, k, d))
        BY <1>4, <3>1 DEF FilesOwned
      <3>3. CASE k = i
        <4>1. \A d \in Buffers : DataOf(q, s, k, d)'
          BY <1>9, <1>10, <1>13, <3>3 DEF DataOf
        <4> QED
          BY <1>9, <3>3, <4>1
      <3>4. CASE k # i
        <4>1. \A j \in OnDisk : q[j] = k => o[j] = k /\ s[j] = r[j] /\ disk'[j] = disk[j]
          BY <1>9, <1>13, <3>4, OnDiskFacts DEF Held
        <4>2. \A d : DataOf(o, r, k, d) => DataOf(q, s, k, d)'
          BY <1>9, <1>13, <3>4, <4>1 DEF DataOf
        <4> QED
          BY <1>9, <3>2, <3>4, <4>2
      <3> QED
        BY <3>3, <3>4
    <2>4. \A j \in OnDisk' : q[j] \in OnDisk' => q[q[j]] = q[j] /\ s[j] <= s[q[j]]
      <3>1. OnDisk' = OnDisk
        BY <1>13
      <3> QED
        <4>1. ASSUME NEW j \in OnDisk', q[j] \in OnDisk'
              PROVE  q[q[j]] = q[j] /\ s[j] <= s[q[j]]
          <5>1. j \in OnDisk /\ q[j] \in OnDisk
            BY <3>1, <4>1
          <5> QED
            BY <2>1, <5>1
        <4> QED
          BY <4>1
    <2>5. \A j \in OnDisk' : disk'[j].body.kind # "super"
      BY <1>13, <2>2
    <2>6. \A j \in Inodes' :
            q[j] = j /\ (Buffers # {} => \E d \in Buffers : DataOf(q, s, j, d)')
      BY <1>13, <2>3 DEF Inodes
    <2> QED
      BY <2>4, <2>5, <2>6 DEF FilesSound
  <1>18. FilesOwned(q, s)'
    <2>1. \A j \in OpenInodes' : o[j] = j /\ j \in OnDisk
      BY <1>1, <1>2, <1>4, <1>13, OpenKept DEF OpenInodes
    <2>2. \A j \in OpenInodes' : q[j] = j
      BY <1>9, <2>1
    <2> QED
      BY <1>17, <2>2, FilesBack
  <1>19. r[i] - 1 \in Nat
    BY <1>7
  <1>20. HeldOwned(q, s, r[i] - 1)'
    <2> SUFFICES ASSUME NEW j \in OnDisk, q[j] = Held
                 PROVE  /\ s[j] \in 1..(r[i] - 1)
                        /\ s[j] > 1 => Begins(q, s, Held, disk[j].nextIdx, s[j] - 1)'
                        /\ s[j] = 1 => disk'[j].nextIdx \notin OnDisk
      BY <1>11, <1>13 DEF HeldOwned, Holding
    <2>1. /\ o[j] = i /\ j # i /\ s[j] = r[j] /\ disk'[j] = disk[j]
          /\ r[j] \in 1..(r[i] - 1) /\ Begins(o, r, i, disk[j].nextIdx, r[j] - 1)
      BY <1>8, <1>9, <1>13
    <2>2. CASE s[j] = 1
      BY <2>1, <2>2 DEF Begins
    <2>3. CASE s[j] > 1
      <3> PICK t \in OnDisk : t = disk[j].nextIdx /\ o[t] = i /\ r[t] = r[j] - 1
        BY <2>1, <2>3 DEF Begins
      <3>1. t # i /\ q[t] = Held /\ s[t] = r[t]
        BY SMTT(30), <1>7, <1>9, <2>1
      <3> QED
        BY <1>13, <2>1, <3>1 DEF Begins
    <2> QED
      BY <2>1, <2>2, <2>3
  <1>21. Begins(q, s, Held, y, r[i] - 1)'
    <2>1. CASE r[i] - 1 = 0
      BY <1>7, <1>13, <2>1 DEF Begins
    <2>2. CASE r[i] - 1 # 0
      <3>1. y \in OnDisk /\ o[y] = i /\ r[y] = r[i] - 1 /\ y # i
        BY <1>7, <2>2 DEF Begins
      <3> QED
        BY <1>9, <1>13, <2>2, <3>1 DEF Begins
    <2> QED
      BY <2>1, <2>2
  <1>22. WipedTo(q, s, Held, (r[i] - 1) - 0)'
    BY <1>8, <1>9, <1>13 DEF WipedTo
  <1>23. Giving(q, s, r[i] - 1)'
    <2>1. (r[i] - 1) - 0 = r[i] - 1
      BY <1>7
    <2> QED
      BY <1>11, <1>12, <1>21, <1>22, <2>1 DEF Giving
  <1>24. Taking(q, s, r[i] - 1)'
    BY <1>11 DEF Taking, Allocating
  <1>25. Storing(q, s, r[i] - 1)'
    BY <1>1, <1>9, <1>11 DEF Storing, Bare, Wanting, Allocating
  <1>28. Placed(q, s, r[i] - 1, L)'
    <2> SUFFICES ASSUME L # Indices
                 PROVE  /\ InUse(q, L)' /\ ChainsEnd(q, s)' /\ ChainsFit(s)'
                        /\ InHand(s, r[i] - 1)'
      BY DEF Placed
    <2>1. InUse(o, L) /\ ChainsEnd(o, r) /\ ChainsFit(r)
      BY <1>3 DEF Placed
    <2>2. Inodes' = Inodes
      BY <1>10, <1>13 DEF Inodes
    <2>3. InUse(q, L)'
      <3>1. \A j \in OnDisk : q[j] = o[j] \/ q[j] = Held
        BY <1>9
      <3> QED
        BY <1>2, <1>13, <2>1, <2>2, <3>1 DEF InUse
    <2>4. ChainsEnd(q, s)'
      <3> SUFFICES ASSUME NEW j \in OnDisk, s[j] = 1, q[j] \in OnDisk \/ q[j] = Held
                   PROVE  disk'[j].nextIdx = 0
        BY <1>13 DEF ChainsEnd
      <3>1. CASE j = i
        BY <1>10, <1>13, <3>1
      <3>2. CASE j # i
        <4>1. r[j] = 1 /\ disk'[j] = disk[j] /\ (o[j] = i \/ q[j] = o[j])
          BY <1>9, <1>13, <3>2
        <4>2. o[j] \in OnDisk
          BY <1>5, <1>9, <3>2, <4>1
        <4> QED
          BY <2>1, <4>1, <4>2 DEF ChainsEnd
      <3> QED
        BY <3>1, <3>2
    <2>5. ChainsFit(s)'
      <3>1. \A k \in Inodes : k = i \/ s[k] = r[k]
        BY <1>9 DEF Inodes
      <3> QED
        BY <1>9, <2>1, <2>2, <3>1 DEF ChainsFit
    <2>6. InHand(s, r[i] - 1)'
      <3>1. r[i] # 1
        BY <1>5, <2>1 DEF ChainsEnd
      <3>2. 0 < r[i] - 1
        BY <1>7, <3>1
      <3>3. ASSUME i \in Inodes
            PROVE  \E d \in Buffers : r[i] - 1 = BlocksFor(Length[d])
        <4>1. PICK d \in Buffers : r[i] = BlocksFor(Length[d]) + 1
          BY <2>1, <3>1, <3>3 DEF ChainsFit
        <4>2. BlocksFor(Length[d]) \in Nat
          BY BlocksForType, ClientAssumption
        <4>3. r[i] - 1 = BlocksFor(Length[d])
          BY <4>1, <4>2
        <4> QED
          BY <4>3
      <3>4. fte'.inodeIdx = i
        BY <1>1
      <3> QED
        BY <1>11, <1>12, <2>2, <3>2, <3>3, <3>4 DEF InHand
    <2> QED
      BY <2>3, <2>4, <2>5, <2>6
  <1>26. HasPlaces(L)'
    BY <1>14, <1>15, <1>16, <1>18, <1>19, <1>20, <1>23, <1>24, <1>25, <1>28
       DEF HasPlaces, Owned
  <1>27. StoreStays => EntriesOnce'
    BY <1>1, SameEntries
  <1> QED
    BY <1>2, <1>11, <1>13, <1>26, <1>27, WriteStepOwners DEF Mounting

LEMMA WriteFileOwners ==
  ASSUME NEW L, TypeOK, OwnersBut(L), NEW FD, NEW b, WriteFile(FD, b)
  PROVE  OwnersBut(L)'
  BY WriteFileStays, WriteFileCuts

-----------------------------------------------------------------------------
(* freeBlocks, once it has walked *)

LEMMA FilesReowned ==
  ASSUME TypeOK, NEW o \in [Indices -> Int], NEW r \in [Indices -> Int],
         NEW q \in [Indices -> Int], NEW s \in [Indices -> Int],
         FilesOwned(o, r), OnDisk' = OnDisk, \A j \in OnDisk : disk'[j] = disk[j],
         \A j \in OnDisk :
           o[j] \in OnDisk \/ q[j] \in OnDisk => q[j] = o[j] /\ s[j] = r[j]
  PROVE  FilesSound(q, s)'
  <1>1. ASSUME NEW j \in OnDisk, q[j] \in OnDisk
        PROVE  q[q[j]] = q[j] /\ s[j] <= s[q[j]]
    <2>1. q[j] = o[j] /\ s[j] = r[j]
      BY <1>1
    <2>2. o[o[j]] = o[j] /\ r[j] <= r[o[j]] /\ o[j] \in OnDisk
      BY <1>1, <2>1 DEF FilesOwned
    <2> QED
      BY <2>1, <2>2
  <1>2. \A j \in OnDisk' : disk'[j].body.kind # "super"
    BY DEF FilesOwned
  <1>3. ASSUME NEW k \in Inodes'
        PROVE  q[k] = k /\ (Buffers # {} => \E d \in Buffers : DataOf(q, s, k, d)')
    <2>1. k \in Inodes /\ k \in OnDisk
      BY DEF Inodes
    <2>2. o[k] = k /\ (Buffers # {} => \E d \in Buffers : DataOf(o, r, k, d))
      BY <2>1 DEF FilesOwned
    <2>3. q[k] = k /\ s[k] = r[k]
      BY <2>1, <2>2
    <2>4. \A d : DataOf(o, r, k, d) => DataOf(q, s, k, d)'
      BY <2>1, <2>3 DEF DataOf
    <2> QED
      BY <2>2, <2>3, <2>4
  <1>4. \A j \in OnDisk' : q[j] \in OnDisk' => q[q[j]] = q[j] /\ s[j] <= s[q[j]]
    BY <1>1
  <1> QED
    BY <1>2, <1>3, <1>4 DEF FilesSound

(* The first blocks of the free list become the call's.                    *)
LEMMA AllocSuperOwners ==
  ASSUME NEW L, TypeOK, CallOK, OwnersBut(L), HasFS, AllocSuper
  PROVE  OwnersBut(L)'
  <1>1. /\ pc = "allocSuper" /\ pc' = "allocLast" /\ LL' = LL /\ loc' = loc /\ fte' = fte
        /\ diskFd' = diskFd
        /\ WriteBlock(0, SetSuper(disk[0], FreeCount(disk[0]) - loc.want, loc.cur))
    BY DEF AllocSuper, Goto, session, fte
  <1>2. PICK o \in [Indices -> Int], r \in [Indices -> Int], h \in Nat :
          Owned(o, r, h) /\ Placed(o, r, h, L)
    BY PlaceParts DEF HasPlaces
  <1>3. /\ Linked(o, r) /\ Apart(o, r) /\ FilesOwned(o, r) /\ HeldOwned(o, r, h)
        /\ Taking(o, r, h) /\ Storing(o, r, h)
    BY <1>2 DEF Owned
  <1> PICK n \in Nat : n = FreeCount(disk[0])
    BY <1>2, FreeHead
  <1> PICK w \in Nat, y \in Int, x \in Int, z \in Int :
        w = loc.want /\ y = loc.cur /\ x = loc.first /\ z = loc.last
    BY LocalFields
  <1>4. /\ w <= n /\ y \in 0..255 /\ Begins(o, r, Free, y, n - w)
        /\ z \in OnDisk /\ o[z] = Free /\ r[z] = n - w + 1 /\ loc.blk = disk[z]
        /\ diskFd = Mounted /\ w > 0 /\ (loc.then = "createFile" => w = 1)
    BY <1>1, <1>3 DEF Taking, Allocating
  <1>5. x \in OnDisk /\ o[x] = Free /\ r[x] = n
    <2>1. Begins(o, r, Free, x, n) /\ n # 0
      BY <1>1, <1>2, <1>3, <1>4, FreeHead DEF Taking
    <2> QED
      BY <2>1 DEF Begins
  <1>6. /\ \A j \in OnDisk : o[j] = Free => r[j] <= n /\ IsErased(j)
        /\ \A j \in OnDisk : o[j] # Held
        /\ \A j \in OnDisk : o[j] \in Int /\ r[j] \in Int
    BY <1>1, <1>2, <1>3, FreeHead, OnDiskFacts DEF HeldOwned, Holding
  <1> PICK m \in Nat : m = n - w
    BY <1>4
  <1>q. PICK q \in [Indices -> Int] :
        q = [j \in Indices |-> IF o[j] = Free /\ r[j] > m THEN Held ELSE o[j]]
    <2>1. [j \in Indices |-> IF o[j] = Free /\ r[j] > m THEN Held ELSE o[j]]
            \in [Indices -> Int]
      BY DEF Held
    <2> QED
      BY <2>1
  <1>s. PICK s \in [Indices -> Int] :
        s = [j \in Indices |-> IF o[j] = Free /\ r[j] > m THEN r[j] - m ELSE r[j]]
    <2>1. [j \in Indices |-> IF o[j] = Free /\ r[j] > m THEN r[j] - m ELSE r[j]]
            \in [Indices -> Int]
      OBVIOUS
    <2> QED
      BY <2>1
  <1>7. /\ \A j \in OnDisk :
             q[j] = IF o[j] = Free /\ r[j] > m THEN Held ELSE o[j]
        /\ \A j \in OnDisk :
             s[j] = IF o[j] = Free /\ r[j] > m THEN r[j] - m ELSE r[j]
        /\ \A j \in OnDisk : q[j] = Held <=> o[j] = Free /\ r[j] > m
    BY <1>6, <1>q, <1>s, OnDiskFacts DEF Free, Held
  <1>8. /\ disk'[0] = SetSuper(disk[0], m, y) /\ size' = size /\ OnDisk' = OnDisk
        /\ \A j \in OnDisk : disk'[j] = disk[j]
    BY <1>1, OnDiskFacts, Written
  <1>9. /\ disk'[0].body.kind = "super" /\ disk'[0].type = disk[0].type
        /\ FirstFree(disk[0])' = y /\ FreeCount(disk[0])' = m
    <2>1. /\ SetSuper(disk[0], m, y).body.kind = "super"
          /\ SetSuper(disk[0], m, y).type = disk[0].type
          /\ FirstFree(SetSuper(disk[0], m, y)) = y
          /\ FreeCount(SetSuper(disk[0], m, y)) = m
      BY SuperFields, OnDiskFacts
    <2>2. FirstFree(disk[0])' = FirstFree(disk'[0]) /\ FreeCount(disk[0])' = FreeCount(disk'[0])
      BY DEF FirstFree, FreeCount
    <2> QED
      BY <1>8, <2>1, <2>2
  <1>10. Linked(q, s)'
    <2> SUFFICES ASSUME NEW j \in OnDisk, q[j] \notin {Nobody, Held}
                 PROVE  s[j] >= 1 /\ Begins(q, s, q[j], disk[j].nextIdx, s[j] - 1)
      BY <1>8 DEF Linked, Begins
    <2>1. q[j] = o[j] /\ s[j] = r[j] /\ (o[j] = Free => r[j] <= m) /\ r[j] \in Int
      BY <1>6, <1>7
    <2>2. r[j] >= 1 /\ Begins(o, r, o[j], disk[j].nextIdx, r[j] - 1)
      BY <1>3, <1>6, <2>1 DEF Linked
    <2>3. \A t \in OnDisk : o[t] = o[j] /\ r[t] = r[j] - 1 => q[t] = o[t] /\ s[t] = r[t]
      BY <1>7, <2>1
    <2> QED
      BY <2>1, <2>2, <2>3 DEF Begins
  <1>11. Apart(q, s)'
    <2> SUFFICES ASSUME NEW j \in OnDisk, NEW k \in OnDisk,
                        q[j] = q[k], q[j] # Nobody, s[j] = s[k]
                 PROVE  j = k
      BY <1>8 DEF Apart
    <2>1. o[j] = o[k] /\ r[j] = r[k] /\ o[j] # Nobody
      BY <1>6, <1>7 DEF Free, Nobody
    <2> QED
      BY <1>3, <2>1 DEF Apart
  <1>12. FreeOwned(q, s)'
    <2>1. Begins(q, s, Free, y, m)'
      <3>1. \A t \in OnDisk : o[t] = Free /\ r[t] = m => q[t] = Free /\ s[t] = m
        BY <1>7
      <3> QED
        BY <1>4, <1>8, <3>1 DEF Begins
    <2>2. \A j \in OnDisk : q[j] = Free => s[j] <= m /\ IsErased(j)
      BY <1>6, <1>7 DEF Free, Held
    <2>3. \A j \in OnDisk' : q[j] = Free => s[j] <= m /\ IsErased(j)'
      BY <1>8, <2>2 DEF IsErased
    <2> QED
      BY <1>4, <1>9, <2>1, <2>3 DEF FreeOwned
  <1>13. FilesOwned(q, s)'
    <2>1. FilesSound(q, s)'
      <3>1. Free \notin OnDisk /\ Held \notin OnDisk
        BY OnDiskFacts DEF Free, Held
      <3>2. \A j \in OnDisk :
              o[j] \in OnDisk \/ q[j] \in OnDisk => q[j] = o[j] /\ s[j] = r[j]
        BY <1>7, <3>1
      <3>3. /\ FilesOwned(o, r) /\ OnDisk' = OnDisk
            /\ \A j \in OnDisk : disk'[j] = disk[j]
        BY <1>3, <1>8
      <3> QED
        BY <3>2, <3>3, FilesReowned
    <2>2. \A j \in OpenInodes' : o[j] = j /\ j \in OnDisk
      BY <1>1, <1>3, <1>8, OpenKept DEF OpenInodes
    <2>3. \A j \in OpenInodes' : q[j] = j
      BY <1>7, <2>2, OnDiskFacts DEF Free
    <2> QED
      BY <2>1, <2>3, FilesBack
  <1>14. HeldOwned(q, s, w)'
    <2> SUFFICES ASSUME NEW j \in OnDisk, q[j] = Held
                 PROVE  /\ s[j] \in 1..w
                        /\ s[j] > 1 => Begins(q, s, Held, disk[j].nextIdx, s[j] - 1)
      BY <1>1, <1>8 DEF HeldOwned, Holding, Begins
    <2>1. o[j] = Free /\ r[j] > m /\ s[j] = r[j] - m /\ r[j] <= n /\ r[j] \in Int
      BY <1>6, <1>7
    <2>2. s[j] \in 1..w
      BY <2>1
    <2>3. ASSUME s[j] > 1
          PROVE  Begins(q, s, Held, disk[j].nextIdx, s[j] - 1)
      <3>1. Begins(o, r, Free, disk[j].nextIdx, r[j] - 1) /\ r[j] - 1 # 0
        BY <1>3, <2>1, <2>3 DEF Linked, Free, Nobody, Held
      <3> PICK t \in OnDisk : t = disk[j].nextIdx /\ o[t] = Free /\ r[t] = r[j] - 1
        BY <3>1 DEF Begins
      <3>2. q[t] = Held /\ s[t] = s[j] - 1
        BY <1>7, <2>1, <2>3
      <3> QED
        BY <2>1, <2>3, <3>2 DEF Begins
    <2> QED
      BY <2>2, <2>3
  <1>15. Taking(q, s, w)'
    <2>1. q[x] = Held /\ s[x] = w /\ q[z] = Held /\ s[z] = 1
      BY <1>4, <1>5, <1>7
    <2>2. Begins(q, s, Held, x, w)'
      BY <1>4, <1>5, <1>8, <2>1 DEF Begins
    <2>3. WipedTo(q, s, Held, 0)'
      BY <1>6, <1>7, <1>8 DEF WipedTo, IsErased
    <2>4. loc'.blk = disk'[z]
      BY <1>1, <1>4, <1>8
    <2> QED
      BY <1>1, <1>4, <1>8, <2>1, <2>2, <2>3, <2>4 DEF Taking, Allocating
  <1>16. Giving(q, s, w)'
    BY <1>1 DEF Giving
  <1>17. Storing(q, s, w)'
    <2>1. ASSUME loc.then = "tfs_writeFile"
          PROVE  s[fte.inodeIdx] = 1
      <3>1. fte.inodeIdx \in OnDisk /\ fte.inodeIdx \in OpenInodes
        BY <1>1, <2>1, WorkPlaced DEF Allocating
      <3>2. o[fte.inodeIdx] = fte.inodeIdx /\ r[fte.inodeIdx] = 1
        BY <1>1, <1>3, <2>1, <3>1 DEF FilesOwned, Storing, Bare, Allocating
      <3> QED
        BY <1>7, <3>1, <3>2, OnDiskFacts DEF Free
    <2> QED
      BY <1>1, <1>3, <2>1 DEF Storing, Bare, Wanting, Allocating
  <1>20. Placed(q, s, w, L)'
    <2>1. InHand(s, w)'
      BY <1>1 DEF InHand
    <2>2. \A j \in OnDisk :
            (q[j] = o[j] /\ s[j] = r[j]) \/ (o[j] \in {Free, Held} /\ q[j] \in {Free, Held})
      BY <1>7
    <2>3. pc \notin {"deleteBlock", "deleteLast"} /\ pc' \notin {"truncBlock", "truncLast"}
      BY <1>1
    <2> QED
      BY <1>2, <1>3, <1>8, <2>1, <2>2, <2>3, PlacedMoved
  <1>18. HasPlaces(L)'
    BY <1>10, <1>11, <1>12, <1>13, <1>14, <1>15, <1>16, <1>17, <1>20 DEF HasPlaces, Owned
  <1>19. StoreStays => EntriesOnce'
    BY <1>1, SameEntries
  <1> QED
    BY <1>1, <1>8, <1>9, <1>18, <1>19, WriteStepOwners DEF Mounting

(* A block of file i is written. *)
LEMMA FileRewritten ==
  ASSUME TypeOK, NEW o \in [Indices -> Int], NEW r \in [Indices -> Int], FilesOwned(o, r),
         NEW x \in OnDisk, NEW i \in OnDisk, o[x] = i, o[i] = i, OnDisk' = OnDisk,
         \A j \in OnDisk : j # x => disk'[j] = disk[j],
         disk'[x].type = inode => x = i, disk'[x].body.kind # "super",
         disk'[i].type = inode /\ Buffers # {} => \E b \in Buffers : DataOf(o, r, i, b)'
  PROVE  FilesSound(o, r)'
  <1>1. \A j \in OnDisk' : o[j] \in OnDisk' => o[o[j]] = o[j] /\ r[j] <= r[o[j]]
    BY DEF FilesOwned
  <1>2. \A j \in OnDisk' : disk'[j].body.kind # "super"
    BY DEF FilesOwned
  <1>3. ASSUME NEW k \in Inodes'
        PROVE  o[k] = k /\ (Buffers # {} => \E b \in Buffers : DataOf(o, r, k, b)')
    <2>1. k \in OnDisk /\ disk'[k].type = inode
      BY DEF Inodes
    <2>2. CASE k = i
      BY <2>1, <2>2
    <2>3. CASE k # i
      <3>1. k # x /\ k \in Inodes /\ disk'[k] = disk[k]
        BY <2>1, <2>3 DEF Inodes
      <3>2. \A b : DataOf(o, r, k, b) => DataOf(o, r, k, b)'
        BY <2>3, <3>1 DEF DataOf
      <3> QED
        BY <3>1, <3>2 DEF FilesOwned
    <2> QED
      BY <2>2, <2>3
  <1> QED
    BY <1>1, <1>2, <1>3 DEF FilesSound

(* The chain taken ends with its last block. *)
LEMMA AllocLastOwners ==
  ASSUME NEW L, TypeOK, CallOK, OwnersBut(L), HasFS, AllocLast
  PROVE  OwnersBut(L)'
  <1>1. /\ pc = "allocLast" /\ LL' = LL /\ fte' = fte /\ diskFd' = diskFd
        /\ WriteBlock(loc.last, [loc.blk EXCEPT !.nextIdx = 0])
        /\ pc' = IF loc.then = "createFile" THEN "createInode" ELSE "writeInode"
        /\ loc' = [loc EXCEPT !.cur = loc.first, !.last = 0, !.first = 0, !.count = 0,
                              !.blk = RawBlock]
    BY DEF AllocLast, GotBlocks, Goto, session, fte
  <1>2. PICK o \in [Indices -> Int], r \in [Indices -> Int], h \in Nat :
          Owned(o, r, h) /\ Placed(o, r, h, L)
    BY PlaceParts DEF HasPlaces
  <1>3. /\ Linked(o, r) /\ Apart(o, r) /\ FreeOwned(o, r) /\ FilesOwned(o, r)
        /\ HeldOwned(o, r, h) /\ Taking(o, r, h) /\ Storing(o, r, h)
    BY <1>2 DEF Owned
  <1> PICK w \in Nat, x \in Int, z \in Int : w = loc.want /\ x = loc.first /\ z = loc.last
    BY LocalFields
  <1>4. /\ h = w /\ Begins(o, r, Held, x, h)
        /\ z \in OnDisk /\ o[z] = Held /\ r[z] = 1 /\ loc.blk = disk[z]
        /\ w > 0 /\ (loc.then = "createFile" => w = 1) /\ WipedTo(o, r, Held, 0)
        /\ diskFd = Mounted
    BY <1>1, <1>3 DEF Taking, Allocating
  <1>5. loc'.cur = x /\ loc'.count = 0 /\ loc'.want = w /\ loc'.then = loc.then
        /\ loc'.buf = loc.buf /\ loc'.inb = loc.inb
    BY <1>1 DEF TypeOK, Locals
  <1> DEFINE b == [disk[z] EXCEPT !.nextIdx = 0]
  <1>6. b.nextIdx = 0 /\ b.type = FB /\ b.body = ZeroBody
    <2>1. IsErased(z) /\ disk[z] \in Block
      BY <1>4, OnDiskFacts DEF WipedTo
    <2> QED
      BY <2>1 DEF IsErased, Block
  <1>7. b.type # inode /\ b.body.kind # "super"
    BY <1>6 DEF FB, inode, ZeroBody
  <1>8. WriteBlock(z, b)
    BY <1>1, <1>4
  <1> HIDE DEF b
  <1>9. /\ disk'[z] = b /\ \A j \in OnDisk : j # z => disk'[j] = disk[j]
        /\ disk'[0] = disk[0] /\ size' = size /\ OnDisk' = OnDisk
        /\ Linked(o, r)' /\ Apart(o, r)' /\ FreeOwned(o, r)'
    BY <1>3, <1>4, <1>8, ChainsWritten DEF Held, Free
  <1>10. FilesOwned(o, r)'
    <2>1. FilesSound(o, r)
      BY <1>3 DEF FilesSound, FilesOwned
    <2>2. FilesSound(o, r)'
      BY <1>4, <1>7, <1>9, <2>1, FilesWritten
    <2>3. \A j \in OpenInodes' : o[j] = j
      BY <1>1, <1>3, <1>9, OpenKept
    <2> QED
      BY <2>2, <2>3, FilesBack
  <1>11. \A j \in OnDisk : o[j] = Held /\ r[j] = 1 => j = z
    BY <1>3, <1>4 DEF Apart, Held, Nobody
  <1>12. HeldOwned(o, r, h)'
    <2> SUFFICES ASSUME NEW j \in OnDisk, o[j] = Held
                 PROVE  /\ r[j] \in 1..h
                        /\ r[j] > 1 => Begins(o, r, Held, disk[j].nextIdx, r[j] - 1)'
                        /\ r[j] = 1 => disk'[j].nextIdx = 0
      BY <1>1, <1>9 DEF HeldOwned, Holding
    <2>1. CASE j = z
      BY <1>3, <1>4, <1>6, <1>9, <2>1 DEF HeldOwned
    <2>2. CASE j # z
      BY <1>3, <1>9, <1>11, <2>2 DEF HeldOwned, Begins
    <2> QED
      BY <2>1, <2>2
  <1>13. Begins(o, r, Held, x, h)'
    BY <1>4, <1>9 DEF Begins
  <1>14. WipedTo(o, r, Held, 0)'
    <2> SUFFICES ASSUME NEW j \in OnDisk, o[j] = Held, r[j] > 0
                 PROVE  IsErased(j)'
      BY <1>9 DEF WipedTo
    <2>1. CASE j = z
      BY <1>6, <1>9, <2>1 DEF IsErased
    <2>2. CASE j # z
      BY <1>4, <1>9, <2>2 DEF WipedTo, IsErased
    <2> QED
      BY <2>1, <2>2
  <1>15. Taking(o, r, h)'
    BY <1>1, <1>4, <1>5, <1>13, <1>14 DEF Taking, Allocating
  <1>16. Giving(o, r, h)'
    BY <1>1 DEF Giving
  <1>17. Storing(o, r, h)'
    <2>1. CASE loc.then = "createFile"
      BY <1>1, <2>1 DEF Storing, Bare, Wanting, Allocating
    <2>2. CASE loc.then # "createFile"
      <3>1. loc.then = "tfs_writeFile" /\ pc' = "writeInode"
        BY <1>1, <2>2 DEF CallOK, Allocating
      <3>2. /\ r[fte.inodeIdx] = 1 /\ w = BlocksFor(Length[loc.buf])
            /\ loc.inb.body.kind # "super"
        BY <1>1, <1>3, <3>1 DEF Storing, Bare, Wanting, Allocating
      <3> QED
        BY <1>1, <1>4, <1>5, <1>13, <3>1, <3>2 DEF Storing, Bare, Wanting, Allocating
    <2> QED
      BY <2>1, <2>2
  <1>21. Placed(o, r, h, L)'
    <2>1. InHand(r, h)'
      BY <1>1, <1>4 DEF InHand
    <2>2. /\ disk'[z].type # inode /\ o[z] # z /\ o[z] \notin OnDisk
          /\ pc \notin {"deleteBlock", "deleteLast"} /\ pc' \notin {"truncBlock", "truncLast"}
      BY <1>1, <1>4, <1>7, <1>9, OnDiskFacts DEF Held
    <2> QED
      BY <1>2, <1>3, <1>4, <1>9, <2>1, <2>2, PlacedWritten
  <1>18. HasPlaces(L)'
    BY <1>9, <1>10, <1>12, <1>15, <1>16, <1>17, <1>21 DEF HasPlaces, Owned
  <1>19. StoreStays => EntriesOnce'
    BY <1>1, SameEntries
  <1>20. pc' \notin {"lookup"} \cup Mounting
    BY <1>1 DEF Mounting
  <1> QED
    BY <1>9, <1>18, <1>19, <1>20, WriteStepOwners

(* createFile: the block taken becomes a file. *)
LEMMA CreateInodeOwners ==
  ASSUME NEW L, TypeOK, CallOK, OwnersBut(L), HasFS, CreateInode
  PROVE  OwnersBut(L)'
  <1> PICK x \in Int : x = loc.cur
    BY LocalFields
  <1>1. CASE ~Readable(x)
    <2>1. pc = "createInode"
      BY DEF CreateInode
    <2>2. \E o, r \in [Indices -> Int], h \in Nat :
            diskFd = Mounted /\ Begins(o, r, Held, x, 1)
      BY <2>1, PlaceParts DEF HasPlaces, Owned, Taking
    <2>3. x \in OnDisk /\ diskFd = Mounted
      BY <2>2 DEF Begins
    <2> QED
      BY <1>1, <2>3, OnDiskReadable
  <1>2. CASE Readable(x)
    <2> DEFINE c == [type |-> inode, nextIdx |-> 0, body |-> InodeBody(loc.name, 0)]
               e == [fd |-> currentFD, inodeIdx |-> x, offset |-> 0, fileName |-> loc.name]
    <2>1. /\ pc = "createInode" /\ WriteBlock(x, c) /\ LL' = Append(LL, e) /\ pc' = "idle"
      BY <1>2 DEF CreateInode, Opened, Return, ReturnByte
    <2>2. e \in FTE /\ e.inodeIdx = x
      BY SizesAssumption DEF FTE, TypeOK, Locals
    <2>3. c.type = inode /\ c.nextIdx = 0 /\ c.body.kind # "super" /\ FileSize(c) = 0
      <3>1. c.body = ZeroBody \/ c.body = [kind |-> "inode", name |-> loc.name, size |-> 0]
        BY DEF InodeBody
      <3> QED
        BY <3>1 DEF ZeroBody, FileSize
    <2> HIDE DEF c, e
    <2>4. PICK o \in [Indices -> Int], r \in [Indices -> Int], h \in Nat :
            Owned(o, r, h) /\ Placed(o, r, h, L)
      BY PlaceParts DEF HasPlaces
    <2>5. /\ Linked(o, r) /\ Apart(o, r) /\ FreeOwned(o, r) /\ FilesOwned(o, r)
          /\ HeldOwned(o, r, h)
      BY <2>4 DEF Owned
    <2>6. h = 1 /\ x \in OnDisk /\ o[x] = Held /\ r[x] = 1 /\ x \notin {Free, Nobody, Held}
      BY <2>1, <2>4, OnDiskFacts DEF Owned, Taking, Begins, Free, Nobody, Held
    <2>7. /\ \A j \in OnDisk : o[j] = Held => j = x
          /\ \A j \in OnDisk : o[j] # x
          /\ \A j \in OnDisk : o[j] \in Int /\ r[j] \in Int
      <3>1. \A j \in OnDisk : o[j] = Held => r[j] = 1
        BY <2>5, <2>6 DEF HeldOwned
      <3>2. \A j \in OnDisk : o[j] = Held => j = x
        BY <2>5, <2>6, <3>1 DEF Apart, Held, Nobody
      <3>3. \A j \in OnDisk : o[j] # x
        BY <2>5, <2>6 DEF FilesOwned
      <3> QED
        BY <3>2, <3>3, OnDiskFacts
    <2> PICK q \in [Indices -> Int] : q = [o EXCEPT ![x] = x]
      <3>1. [o EXCEPT ![x] = x] \in [Indices -> Int]
        OBVIOUS
      <3> QED
        BY <3>1
    <2>8. q[x] = x /\ \A j \in OnDisk : (j # x => q[j] = o[j] /\ q[j] # x /\ q[j] # Held)
      BY <2>6, <2>7, OnDiskFacts
    <2>9. /\ disk'[x] = c /\ \A j \in OnDisk : j # x => disk'[j] = disk[j]
          /\ disk'[0] = disk[0] /\ size' = size /\ OnDisk' = OnDisk
      BY <2>1, <2>6, Written, OnDiskFacts
    <2>10. Linked(q, r)'
      <3> SUFFICES ASSUME NEW j \in OnDisk, q[j] \notin {Nobody, Held}
                   PROVE  r[j] >= 1 /\ Begins(q, r, q[j], disk[j].nextIdx, r[j] - 1)'
        BY <2>9 DEF Linked
      <3>1. CASE j = x
        BY <2>3, <2>6, <2>9, <3>1, OnDiskFacts DEF Begins
      <3>2. CASE j # x
        <4>1. r[j] >= 1 /\ Begins(o, r, o[j], disk[j].nextIdx, r[j] - 1)
              /\ q[j] = o[j] /\ o[j] # Held
          BY <2>5, <2>8, <3>2 DEF Linked
        <4>2. \A t \in OnDisk : o[t] = o[j] => q[t] = o[j]
          BY <2>6, <2>8, <4>1
        <4> QED
          BY <2>9, <3>2, <4>1, <4>2 DEF Begins
      <3> QED
        BY <3>1, <3>2
    <2>11. Apart(q, r)'
      BY <2>5, <2>8, <2>9 DEF Apart
    <2>12. FreeOwned(q, r)'
      <3>1. \A j \in OnDisk : q[j] = Free <=> o[j] = Free
        BY <2>6, <2>8 DEF Free, Held
      <3>2. \A j \in OnDisk : o[j] = Free => disk'[j] = disk[j]
        BY <2>6, <2>9 DEF Free, Held
      <3> QED
        BY <2>5, <2>9, <3>1, <3>2 DEF FreeOwned, Begins, IsErased
    <2>13. FilesSound(q, r)'
      <3>1. ASSUME NEW j \in OnDisk, q[j] \in OnDisk
            PROVE  q[q[j]] = q[j] /\ r[j] <= r[q[j]]
        <4>1. CASE j = x
          BY <2>6, <2>8, <4>1
        <4>2. CASE j # x
          <5>1. q[j] = o[j] /\ o[j] # x
            BY <2>8, <4>2
          <5> QED
            BY <2>5, <2>8, <3>1, <5>1 DEF FilesOwned
        <4> QED
          BY <4>1, <4>2
      <3>2. \A j \in OnDisk' : disk'[j].body.kind # "super"
        BY <2>3, <2>5, <2>9 DEF FilesOwned
      <3>3. ASSUME NEW k \in Inodes'
            PROVE  q[k] = k /\ (Buffers # {} => \E d \in Buffers : DataOf(q, r, k, d)')
        <4>1. k \in OnDisk
          BY <2>9 DEF Inodes
        <4>2. CASE k = x
          <5>1. \A d \in Buffers : DataOf(q, r, k, d)'
            BY <2>3, <2>8, <2>9, <4>2 DEF DataOf
          <5> QED
            BY <2>8, <4>2, <5>1
        <4>3. CASE k # x
          <5>1. k \in Inodes
            BY <2>9, <4>1, <4>3 DEF Inodes
          <5>2. o[k] = k /\ (Buffers # {} => \E d \in Buffers : DataOf(o, r, k, d))
            BY <2>5, <5>1 DEF FilesOwned
          <5>3. \A d : DataOf(o, r, k, d) => DataOf(q, r, k, d)'
            BY <2>8, <2>9, <4>1, <4>3 DEF DataOf
          <5> QED
            BY <2>8, <4>1, <4>3, <5>2, <5>3
        <4> QED
          BY <4>2, <4>3
      <3>4. \A j \in OnDisk' : q[j] \in OnDisk' => q[q[j]] = q[j] /\ r[j] <= r[q[j]]
        BY <2>9, <3>1
      <3> QED
        BY <3>2, <3>3, <3>4 DEF FilesSound
    <2>14. StoreStays /\ HasFS'
      BY <2>1, <2>9 DEF StoreStays, HasFS, HasSuperblock
    <2>15. \A k \in DOMAIN LL : LL[k].inodeIdx # x
      BY <2>1, <2>5, <2>6 DEF FilesOwned, OpenInodes
    <2>16. EntriesOnce' /\ \A j \in OpenInodes' : j \in OpenInodes \/ j = x
      BY <2>1, <2>2, <2>6, <2>9, <2>14, <2>15, EntriesGrow, PlaceParts
    <2>17. FilesOwned(q, r)'
      <3>1. \A j \in OpenInodes' : q[j] = j
        BY <2>1, <2>5, <2>8, <2>16 DEF FilesOwned, OpenInodes
      <3> QED
        BY <2>13, <3>1, FilesBack
    <2>18. HeldOwned(q, r, 0)'
      BY <2>1, <2>6, <2>8, <2>9 DEF HeldOwned, Holding
    <2>19. Taking(q, r, 0)' /\ Giving(q, r, 0)' /\ Storing(q, r, 0)'
      BY <2>1 DEF Taking, Giving, Storing, Bare, Wanting, Allocating
    <2>21. Placed(q, r, 0, L)'
      <3> SUFFICES ASSUME L # Indices
                   PROVE  InUse(q, L)' /\ ChainsEnd(q, r)' /\ ChainsFit(r)' /\ InHand(r, 0)'
        BY DEF Placed
      <3>1. InUse(o, L) /\ ChainsEnd(o, r) /\ ChainsFit(r)
        BY <2>4 DEF Placed
      <3>2. x \in Inodes' /\ \A k \in OnDisk : k # x => (k \in Inodes' <=> k \in Inodes)
        BY <2>3, <2>6, <2>9 DEF Inodes
      <3>3. InUse(q, L)'
        <4> SUFFICES ASSUME NEW j \in OnDisk \ L
                     PROVE  q[j] \in {Free, Held} \cup Inodes'
          BY <2>9 DEF InUse
        <4>1. CASE j = x
          BY <2>6, <2>8, <3>2, <4>1
        <4>2. CASE j # x
          <5>1. q[j] = o[j] /\ o[j] # x
            BY <2>7, <2>8, <4>2
          <5> QED
            BY <2>1, <3>1, <3>2, <5>1 DEF InUse, Inodes
        <4> QED
          BY <4>1, <4>2
      <3>4. ChainsEnd(q, r)'
        <4> SUFFICES ASSUME NEW j \in OnDisk, r[j] = 1, q[j] \in OnDisk
                     PROVE  disk'[j].nextIdx = 0
          BY <2>1, <2>9 DEF ChainsEnd
        <4>1. CASE j = x
          BY <2>3, <2>9, <4>1
        <4>2. CASE j # x
          BY <2>8, <2>9, <3>1, <4>2 DEF ChainsEnd
        <4> QED
          BY <4>1, <4>2
      <3>5. ChainsFit(r)'
        <4>1. \A k \in Inodes' : k = x \/ k \in Inodes
          BY <2>9, <3>2 DEF Inodes
        <4> QED
          BY <2>6, <3>1, <4>1 DEF ChainsFit
      <3>6. InHand(r, 0)'
        BY <2>1 DEF InHand
      <3> QED
        BY <3>3, <3>4, <3>5, <3>6
    <2>20. HasPlaces(L)'
      <3>1. 0 \in Nat
        OBVIOUS
      <3> QED
        BY <2>10, <2>11, <2>12, <2>17, <2>18, <2>19, <2>21, <3>1 DEF HasPlaces, Owned
    <2> QED
      BY <2>1, <2>9, <2>16, <2>20, WriteStepOwners DEF Mounting
  <1> QED
    BY <1>1, <1>2

-----------------------------------------------------------------------------
(* Writing into a file *)

LEMMA InodeBodyFields ==
  ASSUME NEW n, NEW z \in Nat, NEW b, b.body = InodeBody(n, z)
  PROVE  b.body.kind # "super" /\ FileSize(b) = z
  <1>1. CASE n = EmptyName /\ z = 0
    BY <1>1 DEF InodeBody, ZeroBody, FileSize
  <1>2. CASE ~(n = EmptyName /\ z = 0)
    <2>1. b.body = [kind |-> "inode", name |-> n, size |-> z]
      BY <1>2 DEF InodeBody
    <2> QED
      BY <2>1 DEF FileSize
  <1> QED
    BY <1>1, <1>2

(* The name of the file changes. *)
LEMMA RenameOwners ==
  ASSUME NEW L, TypeOK, OwnersBut(L), NEW FD, NEW n, Rename(FD, n)
  PROVE  OwnersBut(L)'
  <1>1. Served(FD) /\ LL' = LL /\ fte' = fte /\ pc' = "idle" /\ pc = "idle"
    BY DEF Rename, Served, Return, ReturnByte, session, fte
  <1>2. CASE ~Readable(fte.inodeIdx)
    <2>1. UNCHANGED storage
      BY <1>2 DEF Rename
    <2> QED
      BY <1>1, <2>1, ReturnOwners DEF Settled, Holding
  <1>3. CASE Readable(fte.inodeIdx)
    <2>1. /\ HasFS /\ fte.inodeIdx \in OnDisk
          /\ \E o, r \in [Indices -> Int], h \in Nat :
               /\ Owned(o, r, h) /\ Placed(o, r, h, L)
               /\ h = 0 /\ o[fte.inodeIdx] = fte.inodeIdx
      BY <1>1, <1>3, ServedPlaced
    <2>2. PICK o \in [Indices -> Int], r \in [Indices -> Int], h \in Nat :
            Owned(o, r, h) /\ Placed(o, r, h, L) /\ h = 0 /\ o[fte.inodeIdx] = fte.inodeIdx
      BY <2>1
    <2>3. /\ Linked(o, r) /\ Apart(o, r) /\ FreeOwned(o, r) /\ FilesOwned(o, r)
          /\ HeldOwned(o, r, 0)
      BY <2>2 DEF Owned
    <2> PICK i \in 1..242 : i = fte.inodeIdx
      BY <2>1, OnDiskFacts
    <2>4. i \in OnDisk /\ o[i] = i /\ i \notin {Free, Nobody, Held} /\ disk[i] \in Block
      BY <2>1, <2>2, OnDiskFacts DEF Free, Nobody, Held
    <2> DEFINE c == SetName(disk[i], n)
    <2>5. WriteBlock(i, c)
      BY <1>3 DEF Rename
    <2>6. /\ c.nextIdx = disk[i].nextIdx /\ c.type = disk[i].type
          /\ c.body = InodeBody(n, FileSize(disk[i]))
      BY <2>4 DEF SetName, Block
    <2>7. c.body.kind # "super" /\ FileSize(c) = FileSize(disk[i])
      BY <2>4, <2>6, FieldsRead, InodeBodyFields
    <2> HIDE DEF c
    <2>8. Begins(o, r, o[i], c.nextIdx, r[i] - 1) /\ o[i] # Free
      BY <2>3, <2>4, <2>6 DEF Linked
    <2>9. /\ disk'[i] = c /\ \A j \in OnDisk : j # i => disk'[j] = disk[j]
          /\ disk'[0] = disk[0] /\ size' = size /\ OnDisk' = OnDisk
          /\ Linked(o, r)' /\ Apart(o, r)' /\ FreeOwned(o, r)'
      <3>1. Linked(o, r) /\ Apart(o, r) /\ FreeOwned(o, r)
        BY <2>3
      <3>2. i \in OnDisk /\ WriteBlock(i, c)
        BY <2>4, <2>5
      <3> QED
        BY <2>8, <3>1, <3>2, ChainsWritten
    <2>10. FilesOwned(o, r)'
      <3>1. ASSUME disk'[i].type = inode, Buffers # {}
            PROVE  \E b \in Buffers : DataOf(o, r, i, b)'
        <4>1. i \in Inodes
          BY <2>4, <2>6, <2>9, <3>1 DEF Inodes
        <4>2. PICK b \in Buffers : DataOf(o, r, i, b)
          BY <2>3, <3>1, <4>1 DEF FilesOwned
        <4>3. DataOf(o, r, i, b)'
          BY <2>7, <2>9, <4>2 DEF DataOf
        <4> QED
          BY <4>3
      <3>2. FilesSound(o, r)'
        BY <2>3, <2>4, <2>7, <2>9, <3>1, FileRewritten
      <3>3. \A j \in OpenInodes' : o[j] = j
        BY <1>1, <2>3, <2>9, OpenKept
      <3> QED
        BY <3>2, <3>3, FilesBack
    <2>11. HeldOwned(o, r, 0)'
      BY <1>1, <2>3, <2>9 DEF HeldOwned, Holding
    <2>12. Taking(o, r, 0)' /\ Giving(o, r, 0)' /\ Storing(o, r, 0)'
      BY <1>1 DEF Taking, Giving, Storing, Bare, Wanting, Allocating
    <2>15. Placed(o, r, 0, L)'
      <3> SUFFICES ASSUME L # Indices
                   PROVE  InUse(o, L)' /\ ChainsEnd(o, r)' /\ ChainsFit(r)' /\ InHand(r, 0)'
        BY DEF Placed
      <3>1. InUse(o, L) /\ ChainsEnd(o, r) /\ ChainsFit(r)
        BY <2>2 DEF Placed
      <3>2. \A j \in OnDisk :
              disk'[j].type = disk[j].type /\ disk'[j].nextIdx = disk[j].nextIdx
        BY <2>6, <2>9
      <3>3. Inodes' = Inodes
        BY <2>9, <3>2 DEF Inodes
      <3>4. InUse(o, L)'
        BY <1>1, <2>9, <3>1, <3>3 DEF InUse
      <3>5. ChainsEnd(o, r)'
        BY <1>1, <2>9, <3>1, <3>2 DEF ChainsEnd
      <3>6. ChainsFit(r)'
        BY <3>1, <3>3 DEF ChainsFit
      <3>7. InHand(r, 0)'
        BY <1>1 DEF InHand
      <3> QED
        BY <3>4, <3>5, <3>6, <3>7
    <2>13. HasPlaces(L)'
      <3>1. 0 \in Nat
        OBVIOUS
      <3> QED
        BY <2>9, <2>10, <2>11, <2>12, <2>15, <3>1 DEF HasPlaces, Owned
    <2>14. StoreStays => EntriesOnce'
      BY <1>1, SameEntries
    <2> QED
      BY <1>1, <2>1, <2>9, <2>13, <2>14, WriteStepOwners DEF Mounting
  <1> QED
    BY <1>2, <1>3

(* One data block; with the last one the call is over. *)
LEMMA WriteDataOwned ==
  ASSUME TypeOK, CallOK, OwnersInv, WriteData,
         NEW o \in [Indices -> Int], NEW r \in [Indices -> Int], NEW h \in Nat,
         Owned(o, r, h), NEW i \in OnDisk, i = fte.inodeIdx, o[i] = i
  PROVE  /\ Linked(o, r)' /\ Apart(o, r)' /\ FreeOwned(o, r)' /\ FilesSound(o, r)'
         /\ h = 0 /\ \A j \in OnDisk : o[j] # Held
         /\ disk'[0] = disk[0] /\ size' = size /\ OnDisk' = OnDisk
         /\ r[i] = loc.want + 1
         /\ FileSize(disk'[i]) = Length[loc.buf]
         /\ \A j \in OnDisk : o[j] = i /\ j # i =>
              disk'[j].body = IF r[i] - r[j] <= loc.count + 1
                                THEN DataBody(loc.buf, r[i] - r[j] - 1) ELSE ZeroBody
         /\ \A j \in OnDisk : o[j] = i /\ r[j] = 1 => disk'[j].nextIdx = 0
         /\ loc.cur \in OnDisk /\ disk[loc.cur].nextIdx \in 0..255
         /\ Begins(o, r, i, disk[loc.cur].nextIdx, loc.want - (loc.count + 1))
         /\ o[loc.cur] = i /\ loc.cur # i /\ disk'[loc.cur].type # inode
         /\ disk'[loc.cur].nextIdx = disk[loc.cur].nextIdx
         /\ \A j \in OnDisk : j # loc.cur => disk'[j] = disk[j]
         /\ loc.buf \in Buffers
  <1>1. /\ pc = "writeData" /\ Readable(loc.cur)
        /\ WriteBlock(loc.cur, [type |-> FEB, nextIdx |-> disk[loc.cur].nextIdx,
                                body |-> DataBody(loc.buf, loc.count)])
    BY DEF WriteData
  <1>2. /\ Linked(o, r) /\ Apart(o, r) /\ FreeOwned(o, r) /\ FilesOwned(o, r)
        /\ HeldOwned(o, r, h) /\ Storing(o, r, h)
    BY DEF Owned
  <1> PICK x \in Int, c \in Nat, w \in Nat, b \in Buffers :
        x = loc.cur /\ c = loc.count /\ w = loc.want /\ b = loc.buf
    <2>1. loc.buf \in Buffers
      BY <1>1 DEF CallOK, Writing
    <2> QED
      BY <2>1, LocalFields
  <1>3. /\ FileSize(disk[i]) = Length[b] /\ c < w /\ WrittenTo(o, r, i, c)
        /\ r[i] = w + 1 /\ Begins(o, r, i, x, w - c)
        /\ \A j \in OnDisk : o[j] = i /\ r[j] = 1 => disk[j].nextIdx = 0
    <2>1. x # TFS_ERROR_INVALID_PARAMETER
      BY <1>1 DEF Readable, TFS_ERROR_INVALID_PARAMETER
    <2> QED
      BY <1>1, <1>2, <2>1 DEF Storing
  <1>4. x \in OnDisk /\ o[x] = i /\ r[x] = w - c /\ x # i
    BY <1>3 DEF Begins
  <1> PICK y \in 0..255 : y = disk[x].nextIdx
    BY <1>4, OnDiskFacts
  <1>5. i \notin {Free, Nobody, Held}
    BY OnDiskFacts DEF Free, Nobody, Held
  <1>6. Begins(o, r, i, y, w - (c + 1))
    <2>1. Begins(o, r, i, y, r[x] - 1) /\ r[x] - 1 = w - (c + 1)
      BY <1>2, <1>4, <1>5 DEF Linked
    <2> QED
      BY <2>1
  <1> DEFINE d == [type |-> FEB, nextIdx |-> y, body |-> DataBody(b, c)]
  <1>7. /\ d.nextIdx = y /\ d.type # inode /\ d.body = DataBody(b, c)
        /\ d.body.kind # "super"
    BY DEF FEB, inode, DataBody
  <1>8. WriteBlock(x, d)
    BY <1>1
  <1> HIDE DEF d
  <1>9. Begins(o, r, i, d.nextIdx, r[x] - 1)
    <2>1. r[x] - 1 = w - (c + 1)
      BY <1>4
    <2> QED
      BY <1>6, <1>7, <2>1
  <1>10. /\ disk'[x] = d /\ \A j \in OnDisk : j # x => disk'[j] = disk[j]
         /\ disk'[0] = disk[0] /\ size' = size /\ OnDisk' = OnDisk
         /\ Linked(o, r)' /\ Apart(o, r)' /\ FreeOwned(o, r)'
    BY <1>2, <1>4, <1>5, <1>8, <1>9, ChainsWritten
  <1>11. ASSUME NEW j \in OnDisk, o[j] = i, j # i
         PROVE  disk'[j].body = IF r[i] - r[j] <= c + 1
                                  THEN DataBody(b, r[i] - r[j] - 1) ELSE ZeroBody
    <2>1. CASE j = x
      <3>1. r[i] - r[j] = c + 1 /\ r[i] - r[j] - 1 = c
        BY <1>3, <1>4, <2>1
      <3> QED
        BY <1>7, <1>10, <2>1, <3>1
    <2>2. CASE j # x
      <3>1. r[j] # r[x] /\ r[j] \in Int
        BY <1>2, <1>4, <1>5, <1>11, <2>2, OnDiskFacts DEF Apart
      <3>2. r[i] - r[j] <= c + 1 <=> r[i] - r[j] <= c
        BY <1>3, <1>4, <3>1
      <3>3. disk'[j] = disk[j]
        BY <1>10, <2>2
      <3>4. disk[j].body = IF r[i] - r[j] <= c THEN DataBody(b, r[i] - r[j] - 1)
                                               ELSE ZeroBody
        BY <1>3, <1>11 DEF WrittenTo
      <3> QED
        BY <3>2, <3>3, <3>4
    <2> QED
      BY <2>1, <2>2
  <1>12. FileSize(disk'[i]) = Length[b]
    BY <1>3, <1>4, <1>10
  <1>13. FilesSound(o, r)'
    <2>1. DataOf(o, r, i, b)'
      BY <1>10, <1>11, <1>12 DEF DataOf
    <2> QED
      BY <1>2, <1>4, <1>7, <1>10, <2>1, FileRewritten
  <1>14. \A j \in OnDisk : o[j] = i /\ r[j] = 1 => disk'[j].nextIdx = 0
    BY <1>3, <1>7, <1>10
  <1>15. h = 0 /\ \A j \in OnDisk : o[j] # Held
    BY <1>1, <1>2 DEF HeldOwned, Holding
  <1> QED
    BY <1>3, <1>4, <1>6, <1>7, <1>10, <1>11, <1>12, <1>13, <1>14, <1>15

(* What that says of the contents of the file. *)
LEMMA WriteDataContents ==
  ASSUME TypeOK, CallOK, OwnersInv, WriteData,
         NEW o \in [Indices -> Int], NEW r \in [Indices -> Int], NEW h \in Nat,
         Owned(o, r, h), NEW i \in OnDisk, i = fte.inodeIdx, o[i] = i
  PROVE  /\ Linked(o, r)' /\ OnDisk' = OnDisk /\ r[i] = loc.want + 1
         /\ FileSize(disk'[i]) = Length[loc.buf]
         /\ \A j \in OnDisk : o[j] = i /\ j # i =>
              disk'[j].body = IF r[i] - r[j] <= loc.count + 1
                                THEN DataBody(loc.buf, r[i] - r[j] - 1) ELSE ZeroBody
         /\ \A j \in OnDisk : o[j] = i /\ r[j] = 1 => disk'[j].nextIdx = 0
  BY WriteDataOwned

LEMMA WriteDataOwners ==
  ASSUME NEW L, TypeOK, CallOK, OwnersBut(L), WriteData
  PROVE  OwnersBut(L)'
  <1>1. pc = "writeData"
    BY DEF WriteData
  <1>2. /\ HasFS /\ fte.inodeIdx \in OnDisk /\ fte.inodeIdx \in OpenInodes /\ LL # <<>>
        /\ \E o, r \in [Indices -> Int], h \in Nat : Owned(o, r, h) /\ Placed(o, r, h, L)
    BY <1>1, WorkPlaced DEF Working, Writing
  <1>3. PICK o \in [Indices -> Int], r \in [Indices -> Int], h \in Nat :
          Owned(o, r, h) /\ Placed(o, r, h, L)
    BY <1>2
  <1> PICK i \in OnDisk : i = fte.inodeIdx
    BY <1>2
  <1> PICK c \in Nat, w \in Nat : c = loc.count /\ w = loc.want
    BY LocalFields
  <1>4. FilesOwned(o, r) /\ o[i] = i
    BY <1>1, <1>2, <1>3 DEF Owned, FilesOwned
  <1>5. /\ Linked(o, r)' /\ Apart(o, r)' /\ FreeOwned(o, r)' /\ FilesSound(o, r)'
        /\ \A j \in OnDisk : o[j] # Held
        /\ disk'[0] = disk[0] /\ size' = size /\ OnDisk' = OnDisk
        /\ r[i] = w + 1
        /\ FileSize(disk'[i]) = Length[loc.buf]
        /\ \A j \in OnDisk : o[j] = i /\ j # i =>
             disk'[j].body = IF r[i] - r[j] <= c + 1
                               THEN DataBody(loc.buf, r[i] - r[j] - 1) ELSE ZeroBody
        /\ \A j \in OnDisk : o[j] = i /\ r[j] = 1 => disk'[j].nextIdx = 0
        /\ Begins(o, r, i, disk[loc.cur].nextIdx, w - (c + 1))
        /\ loc.cur \in OnDisk /\ o[loc.cur] = i /\ loc.cur # i /\ disk'[loc.cur].type # inode
        /\ disk'[loc.cur].nextIdx = disk[loc.cur].nextIdx
        /\ \A j \in OnDisk : j # loc.cur => disk'[j] = disk[j]
    BY <1>3, <1>4, NothingSaid, WriteDataOwned
  <1>6. Storing(o, r, h) /\ w = BlocksFor(Length[loc.buf]) /\ w > 0 /\ c < w
    BY <1>1, <1>3 DEF Owned, Storing, Wanting
  <1>7. StoreStays
    BY <1>1, <1>5 DEF StoreStays, HasFS, HasSuperblock, WriteData, Goto, Return, ReturnByte
  <1>8. /\ pc' \in {"writeData", "idle"}
        /\ IF c + 1 = w THEN pc' = "idle" ELSE pc' = "writeData"
    BY DEF WriteData, Goto, Return, ReturnByte
  <1>9. /\ DOMAIN LL' = DOMAIN LL
        /\ \A k \in DOMAIN LL : LL'[k].inodeIdx = LL[k].inodeIdx
    <2>1. LL' = LL \/ SetOffset(0)
      BY DEF WriteData
    <2> QED
      BY <1>2, <2>1, OpenSame
  <1>10. EntriesOnce' /\ \A j \in OpenInodes' : j \in OpenInodes
    BY <1>7, <1>9, EntriesStay, PlaceParts
  <1>11. FilesOwned(o, r)'
    <2>1. \A j \in OpenInodes' : o[j] = j
      BY <1>1, <1>4, <1>10 DEF FilesOwned
    <2> QED
      BY <1>5, <2>1, FilesBack
  <1>12. HeldOwned(o, r, 0)'
    BY <1>5, <1>8 DEF HeldOwned, Holding
  <1>13. Taking(o, r, 0)' /\ Giving(o, r, 0)'
    BY <1>8 DEF Taking, Giving, Allocating
  <1>14. Storing(o, r, 0)'
    <2>1. CASE c + 1 = w
      BY <1>8, <2>1 DEF Storing, Bare, Wanting, Allocating
    <2>2. CASE c + 1 # w
      <3>1. /\ LL' = LL /\ pc' = "writeData"
            /\ loc' = [loc EXCEPT !.cur = disk[loc.cur].nextIdx, !.count = c + 1]
        BY <2>2 DEF WriteData, Goto
      <3>2. /\ loc'.cur = disk[loc.cur].nextIdx /\ loc'.count = c + 1
            /\ loc'.want = w /\ loc'.buf = loc.buf
        BY <3>1 DEF TypeOK, Locals
      <3>3. fte' = fte
        BY <3>1 DEF fte
      <3>4. c + 1 < w
        BY <1>6, <2>2
      <3>5. WrittenTo(o, r, i, c + 1)'
        BY <1>5, <3>2 DEF WrittenTo
      <3>6. Begins(o, r, i, loc.cur, w - (c + 1))'
        BY <1>5, <3>2 DEF Begins
      <3> QED
        BY <1>5, <1>6, <3>1, <3>2, <3>3, <3>4, <3>5, <3>6
           DEF Storing, Bare, Wanting, Allocating
    <2> QED
      BY <2>1, <2>2
  <1>16. Placed(o, r, 0, L)'
    <2>1. InHand(r, 0)'
      <3>1. CASE c + 1 = w
        BY <1>8, <3>1 DEF InHand
      <3>2. CASE c + 1 # w
        <4>1. /\ LL' = LL /\ pc' = "writeData"
              /\ loc' = [loc EXCEPT !.cur = disk[loc.cur].nextIdx, !.count = c + 1]
          BY <3>2 DEF WriteData, Goto
        <4>2. loc'.want = w /\ fte' = fte
          BY <4>1 DEF TypeOK, Locals, fte
        <4> QED
          BY <1>5, <4>1, <4>2 DEF InHand
      <3> QED
        BY <3>1, <3>2
    <2> PICK x \in OnDisk : x = loc.cur
      BY <1>5
    <2>2. /\ disk'[x].type # inode /\ disk'[x].nextIdx = disk[x].nextIdx /\ o[x] # x
          /\ pc \notin {"deleteBlock", "deleteLast"} /\ pc' \notin {"truncBlock", "truncLast"}
      BY <1>1, <1>5, <1>8
    <2>3. \A j \in OnDisk : j # x => disk'[j] = disk[j]
      BY <1>5
    <2> QED
      BY <1>3, <1>4, <1>5, <2>1, <2>2, <2>3, PlacedWritten
  <1>15. HasPlaces(L)'
    <2>1. 0 \in Nat
      OBVIOUS
    <2> QED
      BY <1>5, <1>11, <1>12, <1>13, <1>14, <1>16, <2>1 DEF HasPlaces, Owned
  <1> QED
    BY <1>2, <1>5, <1>8, <1>10, <1>15, WriteStepOwners DEF Mounting

(* What tfs_writeFile writes to the inode: the size, and where the data    *)
(* begins or would.                                                        *)
LEMMA SizedFields ==
  ASSUME NEW b \in Block, b.body.kind # "super", NEW z \in Nat, NEW x \in Int,
         NEW c, c = [type |-> inode, nextIdx |-> ToIdx(x), body |-> SetSize(b, z).body]
  PROVE  /\ c.body.kind # "super" /\ FileSize(c) = z
         /\ x \in 0..255 => c.nextIdx = x
         /\ x = TFS_ERROR_INVALID_PARAMETER => c.nextIdx = 243
  <1>1. c.body = InodeBody(NameOf(b), z)
    BY DEF SetSize, Block
  <1>2. c.nextIdx = ToIdx(x) /\ (x \in 0..255 => ToIdx(x) = x)
    BY DEF ToIdx
  <1>3. x = TFS_ERROR_INVALID_PARAMETER => c.nextIdx = 243
    <2>1. x = TFS_ERROR_INVALID_PARAMETER => x + 13 = 0
      BY DEF TFS_ERROR_INVALID_PARAMETER
    <2>2. x + 13 = 0 => ToIdx(x) = 243
      BY DEF ToIdx
    <2> QED
      BY <1>2, <2>1, <2>2
  <1> QED
    BY <1>1, <1>2, <1>3, InodeBodyFields

(* Its inode c written, file i has the h blocks from x on. *)
FileHas(o, r, i, x, h, c) ==
  \E q, s \in [Indices -> Int] :
    /\ Linked(q, s)' /\ Apart(q, s)' /\ FreeOwned(q, s)' /\ FilesSound(q, s)'
    /\ \A j \in OnDisk : q[j] # Held
    /\ \A j \in OnDisk : o[j] = j => q[j] = j
    /\ \A j \in OnDisk : q[j] = IF o[j] = Held THEN i ELSE o[j]
    /\ \A j \in OnDisk : j # i => s[j] = r[j] /\ disk'[j] = disk[j]
    /\ s[i] = h + 1 /\ Begins(q, s, i, x, h)'
    /\ \A j \in OnDisk : q[j] = i /\ j # i =>
         s[j] \in 1..h /\ disk'[j].body = ZeroBody
    /\ \A j \in OnDisk : q[j] = i /\ s[j] = 1 => disk'[j].nextIdx = 0
    /\ disk'[i] = c
    /\ disk'[0] = disk[0] /\ size' = size /\ OnDisk' = OnDisk

(* The file takes the blocks the call holds. *)
LEMMA InodeGetsBlocks ==
  ASSUME TypeOK, NEW o \in [Indices -> Int], NEW r \in [Indices -> Int], NEW h \in Nat,
         Linked(o, r), Apart(o, r), FreeOwned(o, r), FilesOwned(o, r),
         HeldOwned(o, r, h), pc = "writeInode", WipedTo(o, r, Held, 0), h > 0,
         NEW i \in OnDisk, o[i] = i, r[i] = 1,
         NEW x, Begins(o, r, Held, x, h),
         NEW c, c.nextIdx = x, c.body.kind # "super",
         Buffers # {} => \E b \in Buffers : FileSize(c) = Length[b],
         WriteBlock(i, c)
  PROVE  FileHas(o, r, i, x, h, c)
  <1>1. /\ disk'[i] = c /\ \A j \in OnDisk : j # i => disk'[j] = disk[j]
        /\ disk'[0] = disk[0] /\ size' = size /\ OnDisk' = OnDisk
    BY Written, OnDiskFacts
  <1>2. /\ i \notin {Free, Nobody, Held}
        /\ \A j \in OnDisk : o[j] \in Int /\ r[j] \in Int /\ j \notin {Free, Nobody, Held}
    BY OnDiskFacts DEF Free, Nobody, Held
  <1>3. x \in OnDisk /\ o[x] = Held /\ r[x] = h /\ x # i
    BY <1>2 DEF Begins
  <1>4. \A j \in OnDisk : o[j] = i => j = i
    <2> SUFFICES ASSUME NEW j \in OnDisk, o[j] = i
                 PROVE  j = i
      OBVIOUS
    <2>1. r[j] >= 1 /\ r[j] <= r[i]
      BY <1>2 DEF Linked, FilesOwned
    <2> QED
      BY <1>2, <2>1 DEF Apart
  <1>5. \A j \in OnDisk : o[j] = Held =>
          /\ r[j] \in 1..h /\ IsErased(j) /\ j # i
          /\ r[j] > 1 => Begins(o, r, Held, disk[j].nextIdx, r[j] - 1)
          /\ r[j] = 1 => disk[j].nextIdx = 0
    BY <1>2 DEF HeldOwned, WipedTo
  <1>q. PICK q \in [Indices -> Int] :
          q = [j \in Indices |-> IF o[j] = Held THEN i ELSE o[j]]
    <2>1. [j \in Indices |-> IF o[j] = Held THEN i ELSE o[j]] \in [Indices -> Int]
      BY OnDiskFacts
    <2> QED
      BY <2>1
  <1>s. PICK s \in [Indices -> Int] : s = [r EXCEPT ![i] = h + 1]
    <2>1. [r EXCEPT ![i] = h + 1] \in [Indices -> Int]
      BY OnDiskFacts
    <2> QED
      BY <2>1
  <1>6. /\ \A j \in OnDisk : q[j] = IF o[j] = Held THEN i ELSE o[j]
        /\ \A j \in OnDisk : j # i => s[j] = r[j]
        /\ q[i] = i /\ s[i] = h + 1
        /\ \A j \in OnDisk : q[j] = i <=> o[j] = Held \/ j = i
        /\ \A j \in OnDisk : q[j] # Held
    BY <1>2, <1>4, <1>q, <1>s, OnDiskFacts
  <1>7. Linked(q, s)'
    <2> SUFFICES ASSUME NEW j \in OnDisk, q[j] \notin {Nobody, Held}
                 PROVE  s[j] >= 1 /\ Begins(q, s, q[j], disk[j].nextIdx, s[j] - 1)'
      BY <1>1 DEF Linked
    <2>1. CASE j = i
      <3>1. s[j] >= 1 /\ s[j] - 1 = h /\ q[j] = i /\ disk'[j].nextIdx = x
        BY <1>1, <1>6, <2>1
      <3>2. q[x] = i /\ s[x] = h
        BY <1>3, <1>6
      <3> QED
        BY <1>1, <1>3, <3>1, <3>2 DEF Begins
    <2>2. CASE o[j] = Held
      <3>1. j # i /\ q[j] = i /\ s[j] = r[j] /\ disk'[j] = disk[j] /\ r[j] \in 1..h
        BY <1>1, <1>5, <1>6, <2>2
      <3>2. CASE r[j] = 1
        BY <1>1, <1>5, <2>2, <3>1, <3>2, OnDiskFacts DEF Begins
      <3>3. CASE r[j] > 1
        <4> PICK t \in OnDisk : t = disk[j].nextIdx /\ o[t] = Held /\ r[t] = r[j] - 1
          BY <1>5, <2>2, <3>3 DEF Begins
        <4>1. q[t] = i /\ s[t] = r[t] /\ r[j] - 1 # 0
          BY <1>5, <1>6, <3>3
        <4> QED
          BY <1>1, <3>1, <4>1 DEF Begins
      <3> QED
        BY <3>1, <3>2, <3>3
    <2>3. CASE j # i /\ o[j] # Held
      <3>1. q[j] = o[j] /\ s[j] = r[j] /\ disk'[j] = disk[j] /\ o[j] # i
        BY <1>1, <1>4, <1>6, <2>3
      <3>2. r[j] >= 1 /\ Begins(o, r, o[j], disk[j].nextIdx, r[j] - 1)
        BY <2>3, <3>1 DEF Linked
      <3>3. \A t \in OnDisk : o[t] = o[j] => q[t] = o[j] /\ s[t] = r[t]
        BY <1>6, <2>3, <3>1
      <3> QED
        BY <1>1, <3>1, <3>2, <3>3 DEF Begins
    <2> QED
      BY <2>1, <2>2, <2>3
  <1>8. Apart(q, s)'
    <2> SUFFICES ASSUME NEW j \in OnDisk, NEW k \in OnDisk,
                        q[j] = q[k], q[j] # Nobody, s[j] = s[k]
                 PROVE  j = k
      BY <1>1 DEF Apart
    <2>1. CASE j # i /\ k # i
      <3>1. s[j] = r[j] /\ s[k] = r[k]
        BY <1>6, <2>1
      <3>2. o[j] = o[k] /\ o[j] # Nobody
        BY <1>4, <1>6, <2>1 DEF Held, Nobody
      <3> QED
        BY <3>1, <3>2 DEF Apart
    <2>2. ASSUME NEW t \in OnDisk, q[t] = i, t # i
          PROVE  s[t] # h + 1
      <3>1. o[t] = Held /\ s[t] = r[t]
        BY <1>6, <2>2
      <3>2. r[t] \in 1..h
        BY <1>5, <3>1
      <3> QED
        BY <3>1, <3>2
    <2> QED
      BY <1>6, <2>1, <2>2
  <1>9. FreeOwned(q, s)'
    <2>1. \A j \in OnDisk : q[j] = Free <=> o[j] = Free
      BY <1>2, <1>6 DEF Free, Held
    <2>2. \A j \in OnDisk : o[j] = Free => disk'[j] = disk[j] /\ s[j] = r[j]
      BY <1>1, <1>2, <1>6
    <2> QED
      BY <1>1, <2>1, <2>2 DEF FreeOwned, Begins, IsErased
  <1>10. \A j \in OnDisk : q[j] = i /\ j # i => s[j] \in 1..h /\ disk'[j].body = ZeroBody
    BY <1>1, <1>5, <1>6 DEF IsErased
  <1>11. \A j \in OnDisk : q[j] = i /\ s[j] = 1 => disk'[j].nextIdx = 0
    BY <1>1, <1>5, <1>6
  <1>12. FilesSound(q, s)'
    <2>1. ASSUME NEW j \in OnDisk, q[j] \in OnDisk
          PROVE  q[q[j]] = q[j] /\ s[j] <= s[q[j]]
      <3>1. CASE q[j] = i
        BY <1>6, <1>10, <3>1
      <3>2. CASE q[j] # i
        <4>1. q[j] = o[j] /\ j # i /\ s[j] = r[j] /\ o[j] # i
          BY <1>6, <3>2
        <4>2. o[o[j]] = o[j] /\ r[j] <= r[o[j]]
          BY <2>1, <4>1 DEF FilesOwned
        <4> QED
          BY <1>2, <1>6, <2>1, <4>1, <4>2
      <3> QED
        BY <3>1, <3>2
    <2>2. \A j \in OnDisk' : disk'[j].body.kind # "super"
      BY <1>1 DEF FilesOwned
    <2>3. ASSUME NEW k \in Inodes'
          PROVE  q[k] = k /\ (Buffers # {} => \E d \in Buffers : DataOf(q, s, k, d)')
      <3>1. k \in OnDisk
        BY <1>1 DEF Inodes
      <3>2. CASE k = i
        <4>1. \A d : FileSize(c) = Length[d] => DataOf(q, s, k, d)'
          BY <1>1, <1>10, <3>2 DEF DataOf
        <4> QED
          BY <1>6, <3>2, <4>1
      <3>3. CASE k # i
        <4>1. k \in Inodes
          BY <1>1, <3>1, <3>3 DEF Inodes
        <4>2. o[k] = k /\ (Buffers # {} => \E d \in Buffers : DataOf(o, r, k, d))
          BY <4>1 DEF FilesOwned
        <4>3. \A j \in OnDisk : q[j] = k => o[j] = k /\ j # i /\ s[j] = r[j]
          BY <1>6, <3>3
        <4>4. q[k] = k /\ s[k] = r[k]
          BY <1>2, <1>6, <3>1, <3>3, <4>2
        <4>5. \A d : DataOf(o, r, k, d) => DataOf(q, s, k, d)'
          BY <1>1, <3>1, <3>3, <4>3, <4>4 DEF DataOf
        <4> QED
          BY <4>2, <4>4, <4>5
      <3> QED
        BY <3>2, <3>3
    <2>4. \A j \in OnDisk' : q[j] \in OnDisk' => q[q[j]] = q[j] /\ s[j] <= s[q[j]]
      BY <1>1, <2>1
    <2> QED
      BY <2>2, <2>3, <2>4 DEF FilesSound
  <1>13. Begins(q, s, i, x, h)'
    <2>1. q[x] = i /\ s[x] = h
      BY <1>3, <1>6
    <2> QED
      BY <1>1, <1>3, <2>1 DEF Begins
  <1>14. \A j \in OnDisk : o[j] = j => q[j] = j
    BY <1>2, <1>6
  <1> QED
    BY <1>1, <1>6, <1>7, <1>8, <1>9, <1>10, <1>11, <1>12, <1>13, <1>14
     DEF FileHas

LEMMA WriteInodeOwners ==
  ASSUME NEW L, TypeOK, CallOK, OwnersBut(L), Careful, WriteInode
  PROVE  OwnersBut(L)'
  <1>1. pc = "writeInode"
    BY DEF WriteInode
  <1>2. /\ HasFS /\ fte.inodeIdx \in OnDisk /\ fte.inodeIdx \in OpenInodes
        /\ \E o, r \in [Indices -> Int], h \in Nat : Owned(o, r, h) /\ Placed(o, r, h, L)
    BY <1>1, WorkPlaced DEF Working, Writing
  <1>3. PICK o \in [Indices -> Int], r \in [Indices -> Int], h \in Nat :
          Owned(o, r, h) /\ Placed(o, r, h, L)
    BY <1>2
  <1>4. /\ Linked(o, r) /\ Apart(o, r) /\ FreeOwned(o, r) /\ FilesOwned(o, r)
        /\ HeldOwned(o, r, h) /\ Taking(o, r, h) /\ Storing(o, r, h)
    BY <1>3 DEF Owned
  <1>i. PICK i \in 1..242 : i = fte.inodeIdx
    <2>1. fte.inodeIdx \in OnDisk
      BY <1>2
    <2> QED
      BY <2>1, OnDiskFacts
  <1>x. PICK x \in Int, w \in Nat, b \in Buffers : x = loc.cur /\ w = loc.want /\ b = loc.buf
    <2>1. loc.buf \in Buffers
      BY <1>1 DEF CallOK, Writing
    <2> QED
      BY <2>1, LocalFields
  <1>5. /\ i \in OnDisk /\ o[i] = i /\ r[i] = 1 /\ i \notin {Free, Nobody, Held}
        /\ w = BlocksFor(Length[b]) /\ w > 0 /\ loc.inb.body.kind # "super"
        /\ loc.count = 0 /\ WipedTo(o, r, Held, 0)
        /\ \/ h = 0 /\ x = TFS_ERROR_INVALID_PARAMETER
           \/ h = w /\ Begins(o, r, Held, x, h)
    BY <1>1, <1>2, <1>4, <1>i, <1>x, OnDiskFacts
       DEF FilesOwned, Storing, Bare, Wanting, Taking, Free, Nobody, Held
  <1>6. Length[b] \in Nat /\ loc.inb \in Block
    BY ClientAssumption DEF TypeOK, Locals
  <1> DEFINE c == [type |-> inode, nextIdx |-> ToIdx(x),
                   body |-> SetSize(loc.inb, Length[b]).body]
  <1>7. /\ c.body.kind # "super" /\ FileSize(c) = Length[b]
        /\ x \in 0..255 => c.nextIdx = x
        /\ x = TFS_ERROR_INVALID_PARAMETER => c.nextIdx = 243
    <2>1. c = [type |-> inode, nextIdx |-> ToIdx(x),
               body |-> SetSize(loc.inb, Length[b]).body]
      OBVIOUS
    <2>2. loc.inb.body.kind # "super"
      BY <1>5
    <2> HIDE DEF c
    <2> QED
      BY <1>6, <2>1, <2>2, SizedFields
  <1>8. /\ WriteBlock(i, c) /\ LL' = LL /\ pc' = "writeData"
        /\ loc' = [loc EXCEPT !.inb = RawBlock]
    BY <1>1, <1>5, <1>i, <1>x DEF WriteInode, Goto
  <1>t. c.type = inode
    OBVIOUS
  <1> HIDE DEF c
  <1>9. /\ loc'.cur = x /\ loc'.want = w /\ loc'.buf = b /\ loc'.count = 0 /\ fte' = fte
    BY <1>5, <1>8, <1>x DEF TypeOK, Locals, fte
  <1>10. \E q, s \in [Indices -> Int] :
           /\ Linked(q, s)' /\ Apart(q, s)' /\ FreeOwned(q, s)' /\ FilesSound(q, s)'
           /\ \A j \in OnDisk : q[j] # Held
           /\ \A j \in OnDisk : o[j] = j => q[j] = j
           /\ \A j \in OnDisk : q[j] = IF o[j] = Held THEN i ELSE o[j]
           /\ \A j \in OnDisk : j # i => s[j] = r[j] /\ disk'[j] = disk[j]
           /\ \A j \in OnDisk : q[j] = i /\ j # i =>
                s[i] - s[j] > 0 /\ disk'[j].body = ZeroBody
           /\ \/ h = 0 /\ s[i] = 1 /\ x = TFS_ERROR_INVALID_PARAMETER
              \/ /\ s[i] = w + 1 /\ Begins(q, s, i, x, w)'
                 /\ \A j \in OnDisk : q[j] = i /\ s[j] = 1 => disk'[j].nextIdx = 0
           /\ disk'[i] = c
           /\ disk'[0] = disk[0] /\ size' = size /\ OnDisk' = OnDisk
    <2>1. CASE h = w /\ Begins(o, r, Held, x, h)
      <3>1. x \in OnDisk /\ x \in 0..255
        <4>1. h # 0
          BY <1>5, <2>1
        <4>2. x \in OnDisk
          BY <2>1, <4>1 DEF Begins
        <4> QED
          BY <4>2, OnDiskFacts
      <3>2. c.nextIdx = x /\ h > 0
        BY <1>5, <1>7, <2>1, <3>1
      <3>3. PICK q \in [Indices -> Int], s \in [Indices -> Int] :
              /\ Linked(q, s)' /\ Apart(q, s)' /\ FreeOwned(q, s)' /\ FilesSound(q, s)'
              /\ \A j \in OnDisk : q[j] # Held
              /\ \A j \in OnDisk : o[j] = j => q[j] = j
              /\ \A j \in OnDisk : q[j] = IF o[j] = Held THEN i ELSE o[j]
              /\ \A j \in OnDisk : j # i => s[j] = r[j] /\ disk'[j] = disk[j]
              /\ s[i] = h + 1 /\ Begins(q, s, i, x, h)'
              /\ \A j \in OnDisk : q[j] = i /\ j # i =>
                   s[j] \in 1..h /\ disk'[j].body = ZeroBody
              /\ \A j \in OnDisk : q[j] = i /\ s[j] = 1 => disk'[j].nextIdx = 0
              /\ disk'[i] = c
              /\ disk'[0] = disk[0] /\ size' = size /\ OnDisk' = OnDisk
        <4>1. /\ Linked(o, r) /\ Apart(o, r) /\ FreeOwned(o, r) /\ FilesOwned(o, r)
              /\ HeldOwned(o, r, h) /\ WipedTo(o, r, Held, 0) /\ h > 0
              /\ i \in OnDisk /\ o[i] = i /\ r[i] = 1 /\ Begins(o, r, Held, x, h)
              /\ c.nextIdx = x /\ c.body.kind # "super" /\ WriteBlock(i, c)
          BY <1>4, <1>5, <1>7, <1>8, <2>1, <3>2
        <4>2. \E d \in Buffers : FileSize(c) = Length[d]
          BY <1>7
        <4>3. FileHas(o, r, i, x, h, c)
          BY <1>1, <4>1, <4>2, InodeGetsBlocks
        <4> QED
          BY <4>3 DEF FileHas
      <3>4. \A j \in OnDisk : q[j] = i /\ j # i => s[i] - s[j] > 0
        BY <3>3
      <3> QED
        BY <2>1, <3>3, <3>4
    <2>2. CASE h = 0 /\ x = TFS_ERROR_INVALID_PARAMETER
      <3>1. c.nextIdx \notin OnDisk /\ r[i] - 1 = 0
        BY <1>5, <1>7, <2>2, OnDiskFacts
      <3>2. Begins(o, r, i, c.nextIdx, r[i] - 1)
        BY <3>1 DEF Begins
      <3>3. /\ disk'[i] = c /\ \A j \in OnDisk : j # i => disk'[j] = disk[j]
            /\ disk'[0] = disk[0] /\ size' = size /\ OnDisk' = OnDisk
            /\ Linked(o, r)' /\ Apart(o, r)' /\ FreeOwned(o, r)'
        BY <1>4, <1>5, <1>8, <3>2, ChainsWritten
      <3>4. \A j \in OnDisk : o[j] = i => j = i
        <4> SUFFICES ASSUME NEW j \in OnDisk, o[j] = i
                     PROVE  j = i
          OBVIOUS
        <4>1. r[j] >= 1 /\ r[j] <= r[i] /\ r[j] \in Int
          BY <1>4, <1>5, OnDiskFacts DEF Linked, FilesOwned
        <4> QED
          BY <1>4, <1>5, <4>1 DEF Apart
      <3>5. DataOf(o, r, i, b)'
        BY <1>7, <3>3, <3>4 DEF DataOf
      <3>6. FilesSound(o, r)'
        <4>1. FilesOwned(o, r) /\ i \in OnDisk /\ o[i] = i /\ OnDisk' = OnDisk
          BY <1>4, <1>5, <3>3
        <4>2. \A j \in OnDisk : j # i => disk'[j] = disk[j]
          BY <3>3
        <4>3. disk'[i].body.kind # "super"
          BY <1>7, <3>3
        <4>4. \E d \in Buffers : DataOf(o, r, i, d)'
          BY <1>5, <3>5
        <4> QED
          BY <4>1, <4>2, <4>3, <4>4, FileRewritten
      <3>7. \A j \in OnDisk : o[j] # Held
        BY <1>4, <2>2 DEF HeldOwned
      <3> QED
        BY <1>5, <2>2, <3>3, <3>4, <3>6, <3>7
    <2> QED
      BY <1>5, <2>1, <2>2
  <1>11. PICK q \in [Indices -> Int], s \in [Indices -> Int] :
           /\ Linked(q, s)' /\ Apart(q, s)' /\ FreeOwned(q, s)' /\ FilesSound(q, s)'
           /\ \A j \in OnDisk : q[j] # Held
           /\ \A j \in OnDisk : o[j] = j => q[j] = j
           /\ \A j \in OnDisk : q[j] = IF o[j] = Held THEN i ELSE o[j]
           /\ \A j \in OnDisk : j # i => s[j] = r[j] /\ disk'[j] = disk[j]
           /\ \A j \in OnDisk : q[j] = i /\ j # i =>
                s[i] - s[j] > 0 /\ disk'[j].body = ZeroBody
           /\ \/ h = 0 /\ s[i] = 1 /\ x = TFS_ERROR_INVALID_PARAMETER
              \/ /\ s[i] = w + 1 /\ Begins(q, s, i, x, w)'
                 /\ \A j \in OnDisk : q[j] = i /\ s[j] = 1 => disk'[j].nextIdx = 0
           /\ disk'[i] = c
           /\ disk'[0] = disk[0] /\ size' = size /\ OnDisk' = OnDisk
    BY <1>10
  <1>12. FilesOwned(q, s)'
    <2>1. \A j \in OpenInodes' : o[j] = j /\ j \in OnDisk
      BY <1>1, <1>4, <1>8, <1>11, OpenKept DEF OpenInodes
    <2> QED
      BY <1>11, <2>1, FilesBack
  <1>13. HeldOwned(q, s, 0)'
    BY <1>8, <1>11 DEF HeldOwned, Holding
  <1>14. Taking(q, s, 0)' /\ Giving(q, s, 0)'
    BY <1>8 DEF Taking, Giving, Allocating
  <1>15. WrittenTo(q, s, i, 0)'
    <2> SUFFICES ASSUME NEW j \in OnDisk, q[j] = i, j # i
                 PROVE  ~(s[i] - s[j] <= 0) /\ disk'[j].body = ZeroBody
      BY <1>11 DEF WrittenTo
    <2>1. s[i] \in Int /\ s[j] \in Int
      BY <1>5, OnDiskFacts
    <2> QED
      BY <1>11, <2>1
  <1>16. Storing(q, s, 0)'
    <2>1. Begins(q, s, i, x, w)' => Begins(q, s, i, loc.cur, w - 0)'
      BY <1>9
    <2> QED
      BY <1>5, <1>7, <1>8, <1>9, <1>11, <1>15, <1>i, <2>1
         DEF Storing, Bare, Wanting, Allocating
  <1>19. Placed(q, s, 0, L)'
    <2> SUFFICES ASSUME L # Indices
                 PROVE  InUse(q, L)' /\ ChainsEnd(q, s)' /\ ChainsFit(s)' /\ InHand(s, 0)'
      BY DEF Placed
    <2>1. InUse(o, L) /\ ChainsEnd(o, r) /\ ChainsFit(r) /\ h > 0
      BY <1>1, <1>3 DEF Placed, InHand
    <2>2. s[i] = w + 1
      BY <1>11, <2>1
    <2>3. i \in Inodes' /\ \A k \in OnDisk : k # i => (k \in Inodes' <=> k \in Inodes)
      BY <1>t, <1>5, <1>11 DEF Inodes
    <2>4. InUse(q, L)'
      <3> SUFFICES ASSUME NEW j \in OnDisk \ L
                   PROVE  q[j] \in {Free, Held} \cup Inodes'
        BY <1>11 DEF InUse
      <3>1. CASE o[j] = Held
        BY <1>5, <1>11, <2>3, <3>1
      <3>2. CASE o[j] # Held
        <4>1. q[j] = o[j]
          BY <1>11, <3>2
        <4> QED
          BY <1>1, <2>1, <2>3, <4>1 DEF InUse, Inodes
      <3> QED
        BY <3>1, <3>2
    <2>5. ChainsEnd(q, s)'
      <3> SUFFICES ASSUME NEW j \in OnDisk, s[j] = 1, q[j] \in OnDisk
                   PROVE  disk'[j].nextIdx = 0
        BY <1>8, <1>11 DEF ChainsEnd
      <3>1. CASE q[j] = i
        <4>1. \A k \in OnDisk : q[k] = i /\ s[k] = 1 => disk'[k].nextIdx = 0
          BY <1>11, <2>1
        <4> QED
          BY <3>1, <4>1
      <3>2. CASE q[j] # i
        <4>1. o[j] = q[j] /\ j # i
          BY <1>5, <1>11, <3>2
        <4> QED
          BY <1>11, <2>1, <4>1 DEF ChainsEnd
      <3> QED
        BY <3>1, <3>2
    <2>6. ChainsFit(s)'
      <3>1. \A k \in Inodes' : k = i \/ (k \in Inodes /\ s[k] = r[k])
        BY <1>11, <2>3 DEF Inodes
      <3> QED
        BY <1>5, <2>1, <2>2, <3>1 DEF ChainsFit
    <2>7. InHand(s, 0)'
      BY <1>8, <1>9, <1>i, <2>2 DEF InHand
    <2> QED
      BY <2>4, <2>5, <2>6, <2>7
  <1>17. HasPlaces(L)'
    <2>1. 0 \in Nat
      OBVIOUS
    <2> QED
      BY <1>11, <1>12, <1>13, <1>14, <1>16, <1>19, <2>1 DEF HasPlaces, Owned
  <1>18. StoreStays => EntriesOnce'
    BY <1>8, SameEntries
  <1> QED
    BY <1>2, <1>8, <1>11, <1>17, <1>18, WriteStepOwners DEF Mounting

-----------------------------------------------------------------------------
(* The invariant *)

LEMMA OwnersButInit ==
  ASSUME NEW L, Init
  PROVE  OwnersBut(L)
  <1>1. size = -1 /\ LL = <<>> /\ pc = "idle"
    BY DEF Init
  <1>2. ~HasFS /\ DOMAIN LL = {}
    BY <1>1 DEF HasFS, HasSuperblock
  <1>3. EntriesApart /\ MakingOK
    BY <1>1, <1>2 DEF EntriesApart, MakingOK, Mounting, Allocating
  <1> QED
    BY <1>2, <1>3 DEF OwnersBut

LEMMA StayOwners ==
  ASSUME NEW L, OwnersBut(L), UNCHANGED vars
  PROVE  OwnersBut(L)'
  <1>1. disk' = disk /\ size' = size /\ LL' = LL /\ diskFd' = diskFd /\ pc' = pc /\ loc' = loc
    BY DEF vars
  <1>2. /\ OnDisk' = OnDisk /\ fte' = fte /\ HasSuperblock' = HasSuperblock
        /\ Bare' = Bare /\ Wanting' = Wanting
    BY <1>1 DEF OnDisk, fte, HasSuperblock, Bare, Wanting
  <1>3. HasFS' = HasFS /\ Inodes' = Inodes /\ OpenInodes' = OpenInodes
    BY <1>1, <1>2 DEF HasFS, Inodes, OpenInodes
  <1>4. EntriesApart' = EntriesApart
    BY <1>1, <1>2, <1>3 DEF EntriesApart, FindByName, Hits
  <1>5. MakingOK' = MakingOK
    BY <1>1, <1>2 DEF MakingOK
  <1>6. ASSUME NEW o, NEW r, NEW h, Owned(o, r, h)
        PROVE  Owned(o, r, h)'
    <2>1. /\ Linked(o, r)' = Linked(o, r) /\ Apart(o, r)' = Apart(o, r)
          /\ FreeOwned(o, r)' = FreeOwned(o, r)
      BY <1>1, <1>2 DEF Linked, Apart, FreeOwned, Begins, IsErased
    <2>2. FilesOwned(o, r)' = FilesOwned(o, r)
      BY <1>1, <1>2, <1>3 DEF FilesOwned, DataOf
    <2>3. HeldOwned(o, r, h)' = HeldOwned(o, r, h)
      BY <1>1, <1>2 DEF HeldOwned, Begins
    <2>4. Taking(o, r, h)' = Taking(o, r, h)
      BY <1>1, <1>2 DEF Taking, Begins, WipedTo, IsErased
    <2>5. Giving(o, r, h)' = Giving(o, r, h)
      BY <1>1, <1>2 DEF Giving, Begins, WipedTo, IsErased
    <2>6. Storing(o, r, h)' = Storing(o, r, h)
      BY <1>1, <1>2 DEF Storing, Begins, WrittenTo
    <2> QED
      BY <1>6, <2>1, <2>2, <2>3, <2>4, <2>5, <2>6 DEF Owned
  <1>7. ASSUME NEW o, NEW r, NEW h, Placed(o, r, h, L)
        PROVE  Placed(o, r, h, L)'
    <2>1. InUse(o, L)' = InUse(o, L) /\ ChainsEnd(o, r)' = ChainsEnd(o, r)
      BY <1>1, <1>2, <1>3 DEF InUse, ChainsEnd
    <2>2. ChainsFit(r)' = ChainsFit(r) /\ InHand(r, h)' = InHand(r, h)
      BY <1>1, <1>2, <1>3 DEF ChainsFit, InHand
    <2> QED
      BY <1>7, <2>1, <2>2 DEF Placed
  <1> QED
    BY <1>3, <1>4, <1>5, <1>6, <1>7 DEF OwnersBut

LEMMA ServedCalls ==
  ASSUME NEW L, TypeOK, OwnersBut(L), NEW FD,
         \/ CloseFile(FD) \/ DeleteFile(FD) \/ DeleteFileDies(FD)
         \/ \E b \in Buffers : WriteFile(FD, b)
         \/ ReadByte(FD)
         \/ \E x \in Offsets : Seek(FD, x)
         \/ \E n \in NewNames : Rename(FD, n)
         \/ GetTimeStamp(FD)
         \/ IndexHit(FD)
  PROVE  OwnersBut(L)'
  <1>1. CASE DeleteFile(FD)
    BY <1>1, DeleteFileOwners
  <1>2. CASE \E b \in Buffers : WriteFile(FD, b)
    BY <1>2, WriteFileOwners
  <1>3. CASE \E n \in NewNames : Rename(FD, n)
    BY <1>3, RenameOwners
  <1>4. CASE \/ CloseFile(FD) \/ ReadByte(FD) \/ GetTimeStamp(FD) \/ DeleteFileDies(FD)
             \/ IndexHit(FD)
             \/ \E x \in Offsets : Seek(FD, x)
    BY <1>4, QuietServed
  <1> QED
    BY <1>1, <1>2, <1>3, <1>4

LEMMA ClientOwners ==
  ASSUME NEW L, TypeOK, OwnersBut(L), Careful, Client
  PROVE  OwnersBut(L)'
  <1>1. CASE ClientMount
    BY <1>1, ClientMountOwners
  <1>2. CASE Unmount \/ Refused \/ ListMissing
    BY <1>2, QuietClient
  <1>3. CASE \E n \in Names : OpenFile(n)
    BY <1>3, OpenFileOwners
  <1>4. CASE \E FD \in Descriptors :
               \/ CloseFile(FD) \/ DeleteFile(FD) \/ DeleteFileDies(FD)
               \/ \E b \in Buffers : WriteFile(FD, b)
               \/ ReadByte(FD)
               \/ \E x \in Offsets : Seek(FD, x)
               \/ \E n \in NewNames : Rename(FD, n)
               \/ GetTimeStamp(FD)
               \/ IndexHit(FD)
    BY <1>4, ServedCalls
  <1> QED
    BY <1>1, <1>2, <1>3, <1>4 DEF Client

LEMMA StepsOwners ==
  ASSUME NEW L, TypeOK, CallOK, OwnersBut(L), Careful, RoomToWrite(L), Step
  PROVE  OwnersBut(L)'
  <1>1. ~MountFails
    BY DEF Careful, MountFails
  <1>2. CASE MountOpens \/ CreateBlock \/ Validate \/ FormatSuper \/ FormatBlock \/ FormatEnd
    BY <1>2, MountOpensOwners, CreateBlockOwners, ValidateOwners, FormatSuperOwners,
       FormatBlockOwners, FormatEndOwners
  <1>3. CASE CreateInode \/ AllocWalk \/ AllocSuper \/ AllocLast
    <2>1. pc \in Allocating \cup {"createInode"}
      BY <1>3 DEF CreateInode, AllocWalk, AllocSuper, AllocLast, Allocating
    <2>2. HasSuperblock
      BY <2>1 DEF OwnersBut, MakingOK
    <2>3. HasFS
      BY <2>1, <2>2 DEF HasFS, Allocating
    <2> QED
      BY <1>3, <2>3, CreateInodeOwners, AllocWalkOwners, AllocSuperOwners, AllocLastOwners
  <1>4. CASE TruncBlock \/ TruncBlockFails \/ TruncLast \/ TruncSuper
    BY <1>4, TruncBlockOwners, TruncBlockFailsOwners, TruncLastOwners, TruncSuperOwners
  <1>5. CASE WriteAlloc \/ WriteInode \/ WriteData
    BY <1>5, WriteAllocOwners, WriteInodeOwners, WriteDataOwners
  <1>6. CASE DeleteBlock \/ DeleteLast \/ DeleteSuper
    BY <1>6, DeleteBlockOwners, DeleteLastOwners, DeleteSuperOwners
  <1>7. CASE WriteDataFails \/ DeleteBlockFails \/ ReadWalk \/ ReadWalkFails
    BY <1>7, QuietSteps
  <1>8. CASE Lookup
    BY <1>8, LookupOwners
  <1> QED
    BY <1>1, <1>2, <1>3, <1>4, <1>5, <1>6, <1>7, <1>8 DEF Step

LEMMA OwnersButNext ==
  ASSUME NEW L, TypeOK, CallOK, OwnersBut(L), Careful, RoomToWrite(L),
         Crash => Settled(L), [Next]_vars
  PROVE  OwnersBut(L)'
  <1>1. CASE Crash
    BY <1>1, DieOwners DEF Crash, Careful
  <1> QED
    BY <1>1, ClientOwners, StepsOwners, StayOwners DEF Next

(* A call that works for a file that is named holds no more blocks than    *)
(* the longest buffer needs.                                               *)
LEMMA HeldFew ==
  ASSUME NEW L, TypeOK, CallOK, L # Indices,
         NEW o \in [Indices -> Int], NEW r \in [Indices -> Int], NEW h \in Nat,
         Owned(o, r, h), Placed(o, r, h, L), fte.inodeIdx \in Inodes \/ pc \notin Writing,
         pc # "deleteSuper",
         NEW n \in Nat \ {0}, \A b \in Buffers : BlocksFor(Length[b]) <= n
  PROVE  h <= n
  <1>1. CASE pc \in {"truncBlock", "truncLast", "truncSuper"}
    <2>1. \E b \in Buffers : h = BlocksFor(Length[b])
      BY <1>1 DEF Placed, InHand, Writing
    <2> QED
      BY <2>1
  <1>2. CASE pc = "createInode"
    BY <1>2 DEF Owned, Taking
  <1>3. CASE pc \in {"allocLast", "writeInode"}
    <2>1. h = 0 \/ h = loc.want
      BY <1>3 DEF Owned, Taking, Storing
    <2>2. loc.then = "createFile" \/ loc.then = "tfs_writeFile"
      BY <1>3 DEF CallOK, Allocating, Writing
    <2>3. CASE loc.then = "createFile"
      <3>1. pc = "allocLast"
        BY <1>3, <2>3 DEF CallOK, Writing
      <3>2. loc.want = 1
        BY <2>3, <3>1 DEF Owned, Taking, Allocating
      <3> QED
        BY <2>1, <3>2
    <2>4. CASE loc.then = "tfs_writeFile"
      <3>1. loc.want = BlocksFor(Length[loc.buf]) /\ loc.buf \in Buffers
        BY <1>3, <2>4 DEF Owned, Storing, Wanting, Allocating, CallOK
      <3> QED
        BY <2>1, <3>1
    <2> QED
      BY <2>2, <2>3, <2>4
  <1>4. CASE pc \notin Holding
    BY <1>4 DEF Owned, HeldOwned
  <1> QED
    BY <1>1, <1>2, <1>3, <1>4 DEF Holding

LEMMA HeldCount ==
  ASSUME TypeOK, NEW o \in [Indices -> Int], NEW r \in [Indices -> Int], NEW h \in Nat,
         Owned(o, r, h), NEW H, H = {j \in OnDisk : o[j] = Held}
  PROVE  Cardinality(H) \in Nat /\ Cardinality(H) <= h
  <1> DEFINE f == [j \in H |-> r[j]]
  <1>1. IsFiniteSet(1..h) /\ Cardinality(1..h) = h
    BY FS_Interval
  <1>2. f \in Injection(H, 1..h)
    <2>1. \A j \in H : r[j] \in 1..h
      BY DEF Owned, HeldOwned
    <2>2. \A j, k \in H : r[j] = r[k] => j = k
      BY DEF Owned, Apart, Held, Nobody
    <2> QED
      BY <2>1, <2>2 DEF Injection, IsInjective
  <1>3. IsFiniteSet(H)
    <2>1. size \in Int
      BY OnDiskFacts
    <2>2. IsFiniteSet(OnDisk) /\ H \subseteq OnDisk
      BY <2>1, FS_Interval DEF OnDisk
    <2> QED
      BY <2>2, FS_Subset
  <1> HIDE DEF f
  <1> QED
    BY <1>1, <1>2, <1>3, FS_Injection, FS_CardinalityType

(* A kill loses the blocks that the call held, but when it was deleting a  *)
(* file no others.                                                         *)
LEMMA KillOwners ==
  ASSUME NEW L, TypeOK, CallOK, OwnersBut(L), L # Indices, Die,
         pc \notin {"formatBlock", "deleteBlock", "deleteLast", "deleteSuper"},
         fte.inodeIdx \in Inodes \/ pc \notin Writing,
         NEW n \in Nat \ {0}, \A b \in Buffers : BlocksFor(Length[b]) <= n
  PROVE  \E H \in SUBSET OnDisk :
           Cardinality(H) \in Nat /\ Cardinality(H) <= n /\ OwnersBut(L \cup H)'
  <1>1. LL' = <<>> /\ pc' = "idle" /\ UNCHANGED storage
    BY DEF Die
  <1>2. CASE pc \notin Holding
    <2>1. OwnersBut(L)'
      BY <1>2, DieOwners DEF Settled
    <2>2. {} \in SUBSET OnDisk /\ Cardinality({}) = 0 /\ L \cup {} = L
      BY FS_EmptySet
    <2> QED
      BY <2>1, <2>2
  <1>3. CASE pc \in Holding
    <2>1. HasFS
      <3>1. CASE pc \in {"allocLast", "createInode"}
        BY <3>1 DEF OwnersBut, MakingOK, HasFS, Allocating
      <3>2. CASE pc \notin {"allocLast", "createInode"}
        BY <1>3, <3>2, WorkPlaced DEF Holding, Working, Writing
      <3> QED
        BY <3>1, <3>2
    <2>2. PICK o \in [Indices -> Int], r \in [Indices -> Int], h \in Nat :
            Owned(o, r, h) /\ Placed(o, r, h, L)
      BY <2>1, PlaceParts DEF HasPlaces
    <2> PICK H \in SUBSET OnDisk : H = {j \in OnDisk : o[j] = Held}
      OBVIOUS
    <2>3. Cardinality(H) \in Nat /\ Cardinality(H) <= n
      <3>1. h <= n
        BY <2>2, HeldFew
      <3>2. Cardinality(H) \in Nat /\ Cardinality(H) <= h
        BY <2>2, HeldCount
      <3> QED
        BY <3>1, <3>2
    <2>4. Placed(o, r, h, L \cup H)
      BY <2>2 DEF Placed, InUse
    <2>5. Dropped(o, L \cup H)
      BY DEF Dropped
    <2>6. EntriesOnce' /\ Unopened' /\ OpenInodes' = {}
      BY <1>1, EntriesGone
    <2>7. HasPlaces(L \cup H)'
      BY <1>1, <2>2, <2>4, <2>5, <2>6, QuietOwners DEF Quiet
    <2>8. OwnersBut(L \cup H)'
      BY <1>1, <2>6, <2>7, NotMaking, PlacePartsNext
    <2> QED
      BY <2>3, <2>8
  <1> QED
    BY <1>2, <1>3

(* OwnersInv says nothing of what is lost.                                 *)
LEMMA AllLost ==
  /\ OwnersInv <=> OwnersBut(Indices)
  /\ OwnersInv' <=> OwnersBut(Indices)'
  <1>1. OwnersInv <=> OwnersBut(Indices)
    BY DEF OwnersInv, OwnersBut, Placed
  <1>2. OwnersInv' <=> OwnersBut(Indices)'
    BY DEF OwnersInv, OwnersBut, Placed
  <1> QED
    BY <1>1, <1>2

LEMMA OwnersInit ==
  ASSUME Init
  PROVE  OwnersInv
  BY OwnersButInit, AllLost

LEMMA OwnersNext ==
  ASSUME TypeOK, CallOK, OwnersInv, Careful, [Next]_vars
  PROVE  OwnersInv'
  BY OwnersButNext, AllLost DEF Settled, RoomToWrite

-----------------------------------------------------------------------------
(* Nothing is lost *)

(* Blocks of files lie apart by their file and their place in it: files of *)
(* n blocks of data take n + 1 each, and n fewer when one of them is bare. *)
LEMMA BlocksInUse ==
  ASSUME TypeOK, NEW o \in [Indices -> Int], NEW r \in [Indices -> Int], Apart(o, r),
         NEW n \in Nat, NEW i \in Inodes, NEW B \in SUBSET OnDisk,
         \A j \in B : o[j] \in Inodes /\ r[j] \in 1..(n + 1) /\ (o[j] = i => r[j] = 1)
  PROVE  /\ Cardinality(B) \in Nat
         /\ Cardinality(Inodes) * (n + 1) \in Int
         /\ Cardinality(B) <= Cardinality(Inodes) * (n + 1) - n
  <1>1. IsFiniteSet(OnDisk) /\ Inodes \subseteq OnDisk /\ OnDisk \subseteq Indices
        /\ OnDisk \subseteq Nat
    <2>1. size \in Int /\ OnDisk \subseteq Indices /\ OnDisk \subseteq Nat
      BY OnDiskFacts
    <2>2. IsFiniteSet(OnDisk)
      BY <2>1, FS_Interval DEF OnDisk
    <2> QED
      BY <2>1, <2>2 DEF Inodes
  <1>2. IsFiniteSet(Inodes) /\ Cardinality(Inodes) \in Nat
    BY <1>1, FS_Subset, FS_CardinalityType
  <1>3. /\ IsFiniteSet(1..(n + 1)) /\ Cardinality(1..(n + 1)) = n + 1
        /\ IsFiniteSet(2..(n + 1)) /\ Cardinality(2..(n + 1)) = n
    BY FS_Interval
  <1> DEFINE P == Inodes \X (1..(n + 1))
             Q == {i} \X (2..(n + 1))
             f == [j \in B |-> <<o[j], r[j]>>]
  <1>4. IsFiniteSet(P) /\ Cardinality(P) = Cardinality(Inodes) * (n + 1)
    BY <1>2, <1>3, FS_Product
  <1>5. IsFiniteSet(Q) /\ Cardinality(Q) = n /\ P \cap Q = Q
    <2>1. IsFiniteSet({i}) /\ Cardinality({i}) = 1
      BY FS_Singleton
    <2>2. IsFiniteSet(Q) /\ Cardinality(Q) = 1 * n
      <3>1. /\ IsFiniteSet({i} \X (2..(n + 1)))
            /\ Cardinality({i} \X (2..(n + 1))) = Cardinality({i}) * Cardinality(2..(n + 1))
        BY <1>3, <2>1, FS_Product, Zenon
      <3> QED
        BY <1>3, <2>1, <3>1
    <2>3. Q \subseteq P
      OBVIOUS
    <2> QED
      BY <2>2, <2>3
  <1>6. /\ IsFiniteSet(P \ Q)
        /\ Cardinality(P \ Q) = Cardinality(Inodes) * (n + 1) - n
        /\ Cardinality(P) \in Nat
    <2> HIDE DEF P, Q
    <2>1. Cardinality(P) \in Nat
      BY <1>4, FS_CardinalityType
    <2>2. /\ IsFiniteSet(P \ Q)
          /\ Cardinality(P \ Q) = Cardinality(P) - Cardinality(P \cap Q)
      BY <1>4, FS_Difference
    <2> QED
      BY <1>4, <1>5, <2>1, <2>2
  <1>7. f \in Injection(B, P \ Q)
    <2>1. ASSUME NEW j \in B
          PROVE  f[j] \in P \ Q
      <3>1. o[j] \in Inodes /\ r[j] \in 1..(n + 1) /\ (o[j] = i => r[j] \notin 2..(n + 1))
        OBVIOUS
      <3> QED
        BY <3>1
    <2>2. ASSUME NEW j \in B, NEW k \in B, f[j] = f[k]
          PROVE  j = k
      <3>1. o[j] = o[k] /\ r[j] = r[k]
        BY <2>2
      <3>2. o[j] # Nobody /\ j \in OnDisk /\ k \in OnDisk
        BY <1>1 DEF Nobody
      <3> QED
        BY <3>1, <3>2 DEF Apart
    <2>3. f \in [B -> P \ Q]
      <3> HIDE DEF P, Q
      <3> QED
        BY <2>1
    <2> HIDE DEF f, P, Q
    <2> QED
      BY <2>2, <2>3 DEF Injection, IsInjective
  <1>8. IsFiniteSet(B) /\ Cardinality(B) \in Nat
    BY <1>1, FS_Subset, FS_CardinalityType
  <1>9. Cardinality(B) <= Cardinality(P \ Q)
    <2> HIDE DEF f, P, Q
    <2> QED
      BY <1>6, <1>7, FS_Injection
  <1> HIDE DEF P
  <1> QED
    BY <1>4, <1>6, <1>8, <1>9

(* Before tfs_writeFile takes its blocks the file it is to write is bare;  *)
(* with room for all files at their longest, there are blocks enough.      *)
LEMMA RoomFound ==
  ASSUME TypeOK, CallOK, OwnersBut({}),
         NEW n \in Nat, \A b \in Buffers : BlocksFor(Length[b]) <= n, RoomForFiles(n)
  PROVE  RoomToWrite({})
  <1> SUFFICES ASSUME pc = "writeAlloc"
               PROVE  FreeCount(disk[0]) >= BlocksFor(Length[loc.buf])
    BY DEF RoomToWrite
  <1> DEFINE i == fte.inodeIdx
             B == OnDisk \ FreeChain
  <1>1. /\ HasFS /\ i \in OnDisk /\ i \in OpenInodes
        /\ \E o, r \in [Indices -> Int], h \in Nat : Owned(o, r, h) /\ Placed(o, r, h, {})
    BY WorkPlaced DEF Working, Writing
  <1>2. PICK o \in [Indices -> Int], r \in [Indices -> Int], h \in Nat :
          Owned(o, r, h) /\ Placed(o, r, h, {})
    BY <1>1
  <1>3. InUse(o, {}) /\ ChainsFit(r)
    BY <1>2, OnDiskFacts DEF Placed
  <1>4. \A j \in OnDisk : o[j] # Held
    BY <1>2 DEF Owned, HeldOwned, Holding
  <1>5. \A j \in OnDisk : o[j] = Free \/ o[j] \in Inodes
    BY <1>3, <1>4 DEF InUse
  <1>6. i \in Inodes /\ r[i] = 1
    <2>1. o[i] = i
      BY <1>1, <1>2 DEF Owned, FilesOwned
    <2>2. i # Free
      BY <1>1, OnDiskFacts DEF Free
    <2> QED
      BY <1>1, <1>2, <1>5, <2>1, <2>2 DEF Owned, Storing, Bare
  <1>7. /\ \A j : j \in FreeChain <=> j \in OnDisk /\ o[j] = Free
        /\ Cardinality(FreeChain) = FreeCount(disk[0])
    BY <1>2, FreeListOwned, OnDiskFacts DEF Owned
  <1>8. FreeCount(disk[0]) \in Nat
    BY <1>2, FreeHead
  <1>9. ASSUME NEW j \in B
        PROVE  o[j] \in Inodes /\ r[j] \in 1..(n + 1) /\ (o[j] = i => r[j] = 1)
    <2>1. j \in OnDisk /\ o[j] \in Inodes
      BY <1>5, <1>7
    <2>2. o[j] \in OnDisk /\ j \in Indices /\ o[j] \in Indices /\ o[j] \notin {Nobody, Held}
      BY <1>4, <2>1, OnDiskFacts DEF Inodes, Nobody
    <2>3. r[j] >= 1 /\ r[j] <= r[o[j]] /\ r[j] \in Int /\ r[o[j]] \in Int
      BY <1>2, <2>1, <2>2 DEF Owned, Linked, FilesOwned
    <2>4. r[o[j]] <= n + 1
      <3>1. \A b \in Buffers : BlocksFor(Length[b]) \in Nat
        BY BlocksForType, ClientAssumption
      <3> QED
        BY <1>3, <2>1, <3>1 DEF ChainsFit
    <2> QED
      BY <1>6, <2>1, <2>3, <2>4
  <1>10. /\ Cardinality(B) \in Nat
         /\ Cardinality(Inodes) * (n + 1) \in Int
         /\ Cardinality(B) <= Cardinality(Inodes) * (n + 1) - n
    <2>1. Apart(o, r) /\ B \in SUBSET OnDisk
      BY <1>2 DEF Owned
    <2> HIDE DEF B, i
    <2> QED
      BY <1>6, <1>9, <2>1, BlocksInUse
  <1>11. Cardinality(OnDisk) = FreeCount(disk[0]) + Cardinality(B)
    <2>1. IsFiniteSet(OnDisk) /\ OnDisk \cap FreeChain = FreeChain
      <3>1. size - 1 \in Int
        BY OnDiskFacts
      <3>2. IsFiniteSet(OnDisk)
        BY <3>1, FS_Interval DEF OnDisk
      <3> QED
        BY <1>7, <3>2
    <2>2. Cardinality(OnDisk) \in Nat
      BY <2>1, FS_CardinalityType
    <2>3. Cardinality(B) = Cardinality(OnDisk) - Cardinality(FreeChain)
      BY <2>1, FS_Difference
    <2> QED
      BY <1>7, <1>8, <2>2, <2>3
  <1>12. Cardinality(OnDisk) = size - 1 /\ size \in Nat
    <2>1. size >= 1 /\ size \in Int
      BY <1>1, OnDiskFacts DEF HasFS, HasSuperblock
    <2> QED
      BY <2>1, FS_Interval DEF OnDisk
  <1>13. Cardinality(Inodes) * (n + 1) < size
    BY <1>1 DEF RoomForFiles
  <1>14. n <= FreeCount(disk[0])
    <2> HIDE DEF B
    <2> QED
      BY <1>8, <1>10, <1>11, <1>12, <1>13
  <1>15. loc.buf \in Buffers
    BY DEF CallOK, Writing
  <1>16. BlocksFor(Length[loc.buf]) \in Nat /\ BlocksFor(Length[loc.buf]) <= n
    BY <1>15, BlocksForType, ClientAssumption
  <1> QED
    BY <1>8, <1>14, <1>16

(* NoLeak in one state. *)
LEMMA NoneLost ==
  ASSUME TypeOK, OwnersBut({})
  PROVE  NoLeak
  <1> SUFFICES ASSUME HasFS, pc = "idle"
               PROVE  OnDisk = FreeChain \cup UNION {Chain(i) : i \in Inodes}
    BY DEF NoLeak
  <1>1. PICK o \in [Indices -> Int], r \in [Indices -> Int], h \in Nat :
          Owned(o, r, h) /\ Placed(o, r, h, {})
    BY PlaceParts DEF HasPlaces
  <1>2. InUse(o, {})
    BY <1>1, OnDiskFacts DEF Placed
  <1>3. \A j \in OnDisk : o[j] # Held
    BY <1>1 DEF Owned, HeldOwned, Holding
  <1>4. \A j : j \in FreeChain <=> j \in OnDisk /\ o[j] = Free
    BY <1>1, FreeListOwned, OnDiskFacts DEF Owned
  <1>5. ASSUME NEW j \in OnDisk, o[j] # Free
        PROVE  o[j] \in Inodes /\ j \in Chain(o[j])
    <2>1. o[j] \in Inodes
      BY <1>2, <1>3, <1>5 DEF InUse
    <2>2. o[j] \in OnDisk /\ o[o[j]] = o[j] /\ r[j] <= r[o[j]]
      BY <1>1, <2>1 DEF Inodes, Owned, FilesOwned
    <2>3. Linked(o, r) /\ Apart(o, r) /\ size \in -1..NBlocks
      BY <1>1, OnDiskFacts DEF Owned
    <2>4. \A k : k \in Chain(o[j]) <=> k \in OnDisk /\ o[k] = o[j] /\ r[k] <= r[o[j]]
      BY <2>2, <2>3, FileOwned
    <2> QED
      BY <2>1, <2>2, <2>4
  <1>6. \A x : Chain(x) \subseteq OnDisk
    BY DEF Chain
  <1> QED
    BY <1>4, <1>5, <1>6

(* Every block of an image has at most one owner and its place in the      *)
(* owner's chain, at every point of every call and after every kill.       *)
THEOREM OwnersKept ==
  ASSUME Careful
  PROVE  Spec => []OwnersInv
  <1>1. Init => OwnersInv
    BY OwnersInit
  <1>2. TypeOK /\ CallOK /\ OwnersInv /\ [Next]_vars => OwnersInv'
    BY OwnersNext
  <1> QED
    BY <1>1, <1>2, TypeCorrect, CallsConsistent, PTL DEF Spec

(* The free list is a list of as many blocks as the superblock says.       *)
THEOREM FreeListKept ==
  ASSUME Careful
  PROVE  Spec => []FreeListSound
  <1>1. TypeOK /\ OwnersInv => FreeListSound
    BY OwnersShow DEF TypeOK
  <1> QED
    BY <1>1, TypeCorrect, OwnersKept, PTL

(* Its blocks hold nothing of the files they were in.                      *)
THEOREM FreeErased ==
  ASSUME Careful
  PROVE  Spec => []FreeBlocksErased
  <1>1. TypeOK /\ OwnersInv => FreeBlocksErased
    BY OwnersShow DEF TypeOK
  <1> QED
    BY <1>1, TypeCorrect, OwnersKept, PTL

(* No block is in two files, or in a file and on the free list.            *)
THEOREM FilesApart ==
  ASSUME Careful
  PROVE  Spec => []NoCrossLink
  <1>1. TypeOK /\ OwnersInv => NoCrossLink
    BY OwnersShow DEF TypeOK
  <1> QED
    BY <1>1, TypeCorrect, OwnersKept, PTL

(* No file holds parts of two buffers.                                     *)
THEOREM BuffersUnmixed ==
  ASSUME Careful, Buffers # {}
  PROVE  Spec => []OneBuffer
  <1>1. TypeOK /\ OwnersInv => OneBuffer
    BY OwnersKeepData DEF TypeOK
  <1> QED
    BY <1>1, TypeCorrect, OwnersKept, PTL

(* No block is lost between calls: a client that never fills the disk and  *)
(* a process that is not killed while a call holds blocks of its own can   *)
(* create, write, rename and delete files for ever.                        *)
THEOREM NothingLost ==
  ASSUME Careful, CrashPoints \cap (Holding \cup {"deleteBlock", "deleteLast"}) = {},
         NEW n \in Nat, \A b \in Buffers : BlocksFor(Length[b]) <= n
  PROVE  Spec /\ []RoomForFiles(n) => []NoLeak
  <1>1. Init => OwnersBut({})
    BY OwnersButInit
  <1>2. Crash => Settled({})
    BY DEF Crash, Settled
  <1>3. TypeOK /\ CallOK /\ RoomForFiles(n) /\ OwnersBut({}) /\ [Next]_vars
          => OwnersBut({})'
    BY <1>2, RoomFound, OwnersButNext
  <1>4. TypeOK /\ OwnersBut({}) => NoLeak
    BY NoneLost
  <1> QED
    BY <1>1, <1>3, <1>4, TypeCorrect, CallsConsistent, PTL DEF Spec

=============================================================================
