-------------------------- MODULE LinkedList_proofs --------------------------
(***************************************************************************)
(* Theorems about LinkedList, for every set of nodes, data, positions and  *)
(* keys.  ListInv is inductive as it stands: the pointers are those of     *)
(* chain, the allocated nodes are its nodes, a walk is where it says.      *)
(***************************************************************************)
EXTENDS LinkedList, SequenceTheorems, TLAPS

ListInv == TypeOK /\ ListSound /\ NodesOwned /\ WalkSound

(***************************************************************************)
(* The initial state.                                                      *)
(***************************************************************************)
LEMMA InvInit == Init => ListInv
<1> SUFFICES ASSUME Init PROVE ListInv
  OBVIOUS
<1> USE DEF Init
<1>1. TypeOK
  <2>1. [data |-> NULL, next |-> NULL] \in [data : Data \cup {NULL}, next : Pointers]
    BY DEF Pointers
  <2>2. mem \in [Nodes -> [data : Data \cup {NULL}, next : Pointers]]
    BY <2>1
  <2>3. chain \in Seq(Nodes) /\ live \subseteq Nodes
    OBVIOUS
  <2>4. made \in BOOLEAN
    OBVIOUS
  <2>6. pc \in PCs /\ count \in Nat /\ arg \in Int /\ i \in Nat
    BY DEF PCs
  <2>5. /\ head \in Pointers /\ tail \in Pointers
        /\ cur \in Pointers /\ prev \in Pointers
    BY DEF Pointers
  <2> QED
    BY <2>2, <2>3, <2>4, <2>5, <2>6 DEF TypeOK
<1>2. Len(chain) = 0
  OBVIOUS
<1>3. ListSound /\ WalkSound
  BY DEF ListSound, WalkSound
<1>4. NodesOwned
  BY <1>2 DEF NodesOwned
<1> QED
  BY <1>1, <1>3, <1>4 DEF ListInv

(***************************************************************************)
(* Steps that leave the struct, the memory and the chain alone and keep a  *)
(* walk where it says: only pc could disturb the list.                     *)
(***************************************************************************)
LEMMA QuietKeeps ==
  ASSUME ListInv,
         UNCHANGED <<struct, memory, chain>>,
         pc' \in PCs, arg' \in Int,
         cur' \in Pointers, prev' \in Pointers, i' \in Nat,
         WalkSound',
         pc = "emptied" => pc' = "destroy",
         pc = "destroy" => pc' = "destroy"
  PROVE  ListInv'
<1>1. TypeOK'
  BY DEF ListInv, TypeOK, struct, memory
<1>2. ListSound'
  BY DEF ListInv, ListSound, struct, memory
<1>3. NodesOwned'
  BY DEF ListInv, NodesOwned, struct, memory
<1> QED
  BY <1>1, <1>2, <1>3 DEF ListInv

(***************************************************************************)
(* A call that begins to walk, and one that ends without touching a node.  *)
(***************************************************************************)
LEMMA WalkBegins ==
  ASSUME ListInv, made, UNCHANGED <<struct, memory, chain>>,
         NEW op, NEW a,
         WalkFrom(op, a),
         \/ pc = "idle" /\ op = "get" /\ a \in Nat
         \/ pc = "idle" /\ op = "indexLL" /\ a \in Int
         \/ pc = "idle" /\ op = "pop" /\ a \in 1..(Len(chain) - 2)
         \/ pc = "idle" /\ op = "popTail" /\ a = 0
         \/ pc \in {"idle", "emptied"} /\ op = "destroy" /\ a = 0
  PROVE  ListInv'
<1>1. /\ pc' \in PCs /\ arg' \in Int /\ i' \in Nat
      /\ cur' \in Pointers /\ prev' \in Pointers
  BY DEF WalkFrom, ListInv, TypeOK, Pointers, PCs
<1>2. Len(chain) \in Nat /\ (Len(chain) = 0 <=> chain = << >>)
  BY DEF ListInv, TypeOK
<1>3. head = IF Len(chain) = 0 THEN NULL ELSE chain[1]
  BY <1>2 DEF ListInv, ListSound
<1>4. WalkSound'
  BY <1>2, <1>3 DEF WalkFrom, WalkSound, struct, memory
<1> QED
  BY <1>1, <1>4, QuietKeeps DEF WalkFrom

LEMMA AnswerKeeps ==
  ASSUME ListInv, made, UNCHANGED <<struct, memory, chain>>,
         ResetLocals, pc' = "idle", pc \notin {"emptied", "destroy"}
  PROVE  ListInv'
<1>1. WalkSound'
  BY DEF WalkSound, struct
<1> QED
  BY <1>1, QuietKeeps DEF ResetLocals, PCs, Pointers

(***************************************************************************)
(* A turn of a walk that is not over.                                      *)
(***************************************************************************)
LEMMA TurnKeeps ==
  ASSUME ListInv, Advance, cur # NULL,
         \/ pc = "get" /\ i < arg
         \/ pc = "indexLL" /\ ~Match
         \/ pc = "pop" /\ i <= arg - 1
         \/ pc = "popTail" /\ mem[cur].next # NULL
  PROVE  ListInv'
<1> DEFINE n == Len(chain)
<1>1. n \in Nat /\ i \in Nat /\ \A j \in 1..n : chain[j] \in Nodes
  BY DEF ListInv, TypeOK
<1>2. /\ made /\ i < n /\ cur = chain[i + 1]
      /\ pc = "pop" => arg \in 1..(n - 2)
  BY <1>1 DEF ListInv, WalkSound
<1>3. cur \in Nodes /\ mem[cur].next \in Pointers
  BY <1>1, <1>2 DEF ListInv, TypeOK
<1>4. mem[cur].next = IF i + 1 = n THEN NULL ELSE chain[i + 2]
  <2>1. i + 1 \in 1..n /\ (i + 1) + 1 = i + 2
    BY <1>1, <1>2
  <2>2. mem[chain[i + 1]].next = IF i + 1 = n THEN NULL ELSE chain[(i + 1) + 1]
    BY <1>2, <2>1 DEF ListInv, ListSound
  <2> QED
    BY <1>2, <2>1, <2>2
<1>5. UNCHANGED <<struct, memory, pc, arg, chain>>
  BY DEF Advance
<1>6. WalkSound'
  <2>1. i' = i + 1 /\ i' <= n /\ i' # 0 /\ (i' + 1 = i + 2)
    BY <1>1, <1>2 DEF Advance
  <2>2. cur' = IF i' = n THEN NULL ELSE chain[i' + 1]
    BY <1>4, <2>1 DEF Advance
  <2>3. prev' = chain[i']
    BY <1>2, <2>1 DEF Advance
  <2>4. pc = "pop" => i' <= arg /\ arg \in 1..(n - 2)
    BY <1>1, <1>2, <2>1 DEF ListInv, TypeOK
  <2>5. pc = "popTail" => i' < n
    BY <1>1, <1>2, <1>4, <2>1
  <2>6. pc = "get" => i' <= arg
    BY <1>1, <2>1 DEF ListInv, TypeOK
  <2>7. pc = "indexLL" => \A j \in 1..i' : Key[mem[chain[j]].data] # arg
    <3>1. pc = "indexLL" => \A j \in 1..i : Key[mem[chain[j]].data] # arg
      BY DEF ListInv, WalkSound
    <3>2. pc = "indexLL" => Key[mem[chain[i + 1]].data] # arg
      BY <1>2 DEF Match
    <3> QED
      BY <1>1, <2>1, <3>1, <3>2
  <2>8. made' /\ Len(chain') = n /\ i' <= Len(chain')
    BY <1>2, <1>5, <2>1 DEF struct
  <2>9. UNCHANGED <<mem, pc, arg, chain>>
    BY <1>5 DEF memory
  <2> QED
    BY <2>1, <2>2, <2>3, <2>4, <2>5, <2>6, <2>7, <2>8, <2>9 DEF WalkSound
<1> QED
  <2>1. /\ pc' \in PCs /\ arg' \in Int /\ i' \in Nat
        /\ cur' \in Pointers /\ prev' \in Pointers
    BY <1>1, <1>3, <1>5 DEF Advance, ListInv, TypeOK, Pointers
  <2> QED
    BY <1>5, <1>6, <2>1, QuietKeeps

(***************************************************************************)
(* init; and the process that ends.                                        *)
(***************************************************************************)
LEMMA EmptyList ==
  ASSUME ListInv,
         chain' = << >>, live' = {}, head' = NULL, tail' = NULL, count' = 0,
         made' \in BOOLEAN, mem' = mem, pc' = "idle", ResetLocals
  PROVE  ListInv'
<1>1. Len(chain') = 0
  OBVIOUS
<1>2. TypeOK'
  <2>1. chain' \in Seq(Nodes) /\ live' \subseteq Nodes
    OBVIOUS
  <2>2. mem' \in [Nodes -> [data : Data \cup {NULL}, next : Pointers]]
    BY DEF ListInv, TypeOK
  <2>3. pc' \in PCs /\ count' \in Nat /\ arg' \in Int /\ i' \in Nat
    BY DEF PCs, ResetLocals
  <2>4. /\ head' \in Pointers /\ tail' \in Pointers
        /\ cur' \in Pointers /\ prev' \in Pointers
    BY DEF Pointers, ResetLocals
  <2> QED
    BY <2>1, <2>2, <2>3, <2>4 DEF TypeOK
<1>3. ListSound' /\ WalkSound'
  BY <1>1 DEF ListSound, WalkSound
<1>4. NodesOwned'
  BY <1>1 DEF NodesOwned
<1> QED
  BY <1>2, <1>3, <1>4 DEF ListInv

LEMMA DieKeeps == ListInv /\ Die => ListInv'
<1> SUFFICES ASSUME ListInv, Die PROVE ListInv'
  OBVIOUS
<1>1. made' \in BOOLEAN
  BY DEF Die
<1> QED
  BY <1>1, EmptyList DEF Die

LEMMA InitListKeeps == ListInv /\ InitList => ListInv'
<1> SUFFICES ASSUME ListInv, InitList PROVE ListInv'
  OBVIOUS
<1>1. chain = << >> /\ live = {}
  <2>1. chain = << >>
    BY DEF InitList, ListInv, NodesOwned
  <2>2. Len(chain) = 0
    BY <2>1
  <2> QED
    BY <2>1, <2>2 DEF ListInv, NodesOwned
<1>2. CASE made' = TRUE /\ head' = NULL /\ tail' = NULL /\ count' = 0 /\ Return("init", 0)
  <2>1. made' \in BOOLEAN
    BY <1>2
  <2> QED
    BY <1>1, <1>2, <2>1, EmptyList DEF InitList, Return, memory
<1>3. CASE UNCHANGED struct /\ Return("init", -1)
  <2>1. WalkSound'
    BY <1>3 DEF InitList, WalkSound
  <2> QED
    BY <1>3, <2>1, QuietKeeps DEF InitList, Return, ResetLocals, PCs, Pointers
<1> QED
  BY <1>2, <1>3 DEF InitList

(***************************************************************************)
(* insert: the new node is the last of the chain.                          *)
(***************************************************************************)
LEMMA InsertKeeps ==
  ASSUME ListInv, NEW d \in Data, Insert(d)
  PROVE  ListInv'
<1> DEFINE n == Len(chain)
<1>1. PICK m \in Nodes \ live :
        /\ live' = live \cup {m}
        /\ mem' = Linked(m, d)
        /\ head' = IF count = 0 THEN m ELSE head
        /\ tail' = m
        /\ count' = count + 1
        /\ chain' = Append(chain, m)
  BY DEF Insert
<1>2. made /\ made' /\ pc = "idle" /\ pc' = "idle" /\ ResetLocals
  BY DEF Insert, Idle, Return
<1>3. /\ chain \in Seq(Nodes) /\ n \in Nat
      /\ \A j \in 1..n : chain[j] \in Nodes
      /\ (n = 0 <=> chain = << >>)
  BY DEF ListInv, TypeOK
<1>4. /\ chain' \in Seq(Nodes) /\ Len(chain') = n + 1
      /\ \A j \in 1..n : chain'[j] = chain[j]
      /\ chain'[n + 1] = m
      /\ chain' # << >>
  BY <1>1, <1>3
<1>5. /\ count = n
      /\ n # 0 => tail = chain[n] /\ head = chain[1]
      /\ n = 0 => tail = NULL
      /\ \A j \in 1..n : mem[chain[j]].next = IF j = n THEN NULL ELSE chain[j + 1]
  BY <1>2, <1>3 DEF ListInv, ListSound
<1>6. /\ \A j \in 1..n : chain[j] \in live
      /\ \A j, k \in 1..n : j # k => chain[j] # chain[k]
  BY DEF ListInv, NodesOwned
<1>7. /\ mem' \in [Nodes -> [data : Data \cup {NULL}, next : Pointers]]
      /\ mem'[m].next = NULL
      /\ n # 0 => mem'[tail].next = m
      /\ \A a \in Nodes \ {m, tail} : mem'[a] = mem[a]
  <2> DEFINE mm == [mem EXCEPT ![m] = [data |-> d, next |-> NULL]]
  <2>1. /\ mm \in [Nodes -> [data : Data \cup {NULL}, next : Pointers]]
        /\ mm[m].next = NULL
        /\ \A a \in Nodes \ {m} : mm[a] = mem[a]
    BY DEF ListInv, TypeOK, Pointers
  <2>2. CASE n = 0
    <3>1. mem' = mm
      BY <1>1, <1>5, <2>2 DEF Linked
    <3> QED
      BY <2>1, <2>2, <3>1
  <2>3. CASE n # 0
    <3>1. tail \in Nodes /\ tail # m /\ tail # NULL
      BY <1>3, <1>5, <1>6, <2>3, ListAssumption
    <3>2. mem' = [mm EXCEPT ![tail].next = m]
      BY <1>1, <3>1 DEF Linked
    <3> HIDE DEF mm
    <3>3. mm[tail] \in [data : Data \cup {NULL}, next : Pointers] /\ m \in Pointers
      BY <2>1, <3>1 DEF Pointers
    <3>4. [mm[tail] EXCEPT !.next = m] \in [data : Data \cup {NULL}, next : Pointers]
      BY <3>3
    <3>5. mem' \in [Nodes -> [data : Data \cup {NULL}, next : Pointers]]
      BY <2>1, <3>1, <3>2, <3>4
    <3>6. mem'[tail].next = m /\ mem'[m] = mm[m]
      BY <2>1, <3>1, <3>2, <3>3
    <3>7. \A a \in Nodes \ {m, tail} : mem'[a] = mem[a]
      BY <2>1, <3>1, <3>2
    <3> QED
      BY <2>1, <3>5, <3>6, <3>7
  <2> QED
    BY <2>2, <2>3, <1>3
<1>8. TypeOK'
  <2>1. live' \subseteq Nodes
    BY <1>1 DEF ListInv, TypeOK
  <2>2. head' \in Pointers /\ tail' \in Pointers /\ count' \in Nat
    BY <1>1 DEF ListInv, TypeOK, Pointers
  <2>3. made' \in BOOLEAN
    BY <1>2 DEF ListInv, TypeOK, Insert
  <2>4. /\ pc' \in PCs /\ arg' \in Int /\ i' \in Nat
        /\ cur' \in Pointers /\ prev' \in Pointers
    BY <1>2 DEF PCs, ResetLocals, Pointers
  <2> QED
    BY <1>4, <1>7, <2>1, <2>2, <2>3, <2>4 DEF TypeOK
<1>9. ListSound'
  <2>1. head' = chain'[1]
    <3>1. CASE n = 0
      BY <1>1, <1>4, <1>5, <3>1
    <3>2. CASE n # 0
      <4>1. 1 \in 1..n
        BY <1>3, <3>2
      <4> QED
        BY <1>1, <1>4, <1>5, <3>2, <4>1
    <3> QED
      BY <3>1, <3>2
  <2>2. ASSUME NEW j \in 1..(n + 1)
        PROVE  mem'[chain'[j]].next = IF j = n + 1 THEN NULL ELSE chain'[j + 1]
    <3>1. CASE j = n + 1
      BY <1>4, <1>7, <3>1
    <3>2. CASE j = n /\ n # 0
      <4>1. n \in 1..n /\ j + 1 = n + 1 /\ j # n + 1
        BY <1>3, <3>2
      <4>2. chain'[j] = tail
        BY <1>4, <1>5, <3>2, <4>1
      <4>3. mem'[chain'[j]].next = m
        BY <1>7, <3>2, <4>2
      <4> QED
        BY <1>4, <4>1, <4>3
    <3>3. CASE j \in 1..(n - 1)
      <4>1. j \in 1..n /\ j + 1 \in 1..n /\ n \in 1..n /\ j # n
        BY <1>3, <3>3
      <4>2. chain[j] \in Nodes /\ chain[j] # m /\ chain[j] # tail
        BY <1>1, <1>3, <1>5, <1>6, <4>1
      <4>3. chain'[j] = chain[j] /\ chain'[j + 1] = chain[j + 1]
        BY <1>4, <4>1
      <4>4. mem'[chain[j]] = mem[chain[j]]
        BY <1>7, <4>2
      <4>5. mem[chain[j]].next = chain[j + 1] /\ j # n + 1
        BY <1>3, <1>5, <4>1
      <4> QED
        BY <4>3, <4>4, <4>5
    <3> QED
      BY <1>3, <3>1, <3>2, <3>3
  <2> QED
    BY <1>1, <1>2, <1>3, <1>4, <1>5, <2>1, <2>2 DEF ListSound
<1>10. NodesOwned'
  <2>1. live = {chain[j] : j \in 1..n}
    BY DEF ListInv, NodesOwned
  <2>2. live' = {chain'[j] : j \in 1..(n + 1)}
    BY <1>1, <1>3, <1>4, <2>1
  <2>3. \A j, k \in 1..(n + 1) : j # k => chain'[j] # chain'[k]
    BY <1>1, <1>3, <1>4, <1>6
  <2> QED
    BY <1>2, <1>4, <2>2, <2>3 DEF NodesOwned
<1>11. WalkSound'
  BY <1>2 DEF WalkSound
<1> QED
  BY <1>8, <1>9, <1>10, <1>11 DEF ListInv

(***************************************************************************)
(* Removals.  The chain without the element at position p, and the nodes   *)
(* that are left.                                                          *)
(***************************************************************************)
LEMMA WithoutShape ==
  ASSUME chain \in Seq(Nodes), NEW p \in 0..(Len(chain) - 1)
  PROVE  /\ Without(p) \in Seq(Nodes)
         /\ Len(Without(p)) = Len(chain) - 1
         /\ \A j \in 1..(Len(chain) - 1) :
              Without(p)[j] = IF j <= p THEN chain[j] ELSE chain[j + 1]
<1> DEFINE n == Len(chain)
<1>1. n \in Nat /\ n - 1 \in Nat /\ p \in Int
  OBVIOUS
<1>2. \A j \in 1..(n - 1) : chain[j] \in Nodes /\ chain[j + 1] \in Nodes
  BY <1>1
<1> QED
  BY <1>1, <1>2 DEF Without

LEMMA RemovalOwns ==
  ASSUME ListInv, NEW p \in 0..(Len(chain) - 1),
         chain' = Without(p), live' = live \ {chain[p + 1]}, made'
  PROVE  NodesOwned'
<1> DEFINE n == Len(chain)
<1>1. chain \in Seq(Nodes) /\ n \in Nat /\ p \in Int /\ n - 1 \in Nat
  BY DEF ListInv, TypeOK
<1>2. /\ Len(chain') = n - 1
      /\ \A j \in 1..(n - 1) :
           chain'[j] = IF j <= p THEN chain[j] ELSE chain[j + 1]
  BY <1>1, WithoutShape
<1>3. /\ live = {chain[j] : j \in 1..n}
      /\ \A j, k \in 1..n : j # k => chain[j] # chain[k]
  BY DEF ListInv, NodesOwned
<1>4. \A j, k \in 1..(n - 1) : j # k => chain'[j] # chain'[k]
  BY <1>1, <1>2, <1>3
<1>5. ASSUME NEW a \in live' PROVE \E j \in 1..(n - 1) : a = chain'[j]
  <2>1. PICK j \in 1..n : a = chain[j] /\ j # p + 1
    BY <1>3
  <2>2. CASE j <= p
    <3>1. j \in 1..(n - 1)
      BY <1>1, <2>2
    <3> QED
      BY <1>2, <2>1, <2>2, <3>1
  <2>3. CASE j > p + 1
    <3>1. j - 1 \in 1..(n - 1) /\ ~(j - 1 <= p) /\ (j - 1) + 1 = j
      BY <1>1, <2>3
    <3>2. chain'[j - 1] = chain[j]
      BY <1>2, <3>1
    <3> QED
      BY <2>1, <3>1, <3>2
  <2> QED
    BY <1>1, <2>1, <2>2, <2>3
<1>6. \A j \in 1..(n - 1) : chain'[j] \in live'
  BY <1>1, <1>2, <1>3
<1>7. live' = {chain'[j] : j \in 1..(n - 1)}
  BY <1>5, <1>6
<1> QED
  BY <1>2, <1>4, <1>7 DEF NodesOwned

LEMMA Ends ==
  \A k \in Nat : k # 0 =>
    /\ 0 \in 0..(k - 1) /\ 1 \in 1..k /\ k \in 1..k /\ k - 1 \in Nat
    /\ k # 1 => 1 \in 1..(k - 1) /\ k - 1 \in 1..(k - 1) /\ (k - 1) + 1 = k
  OBVIOUS

(***************************************************************************)
(* The head goes, as popHead and a turn of destroy take it.                *)
(***************************************************************************)
LEMMA HeadGoes ==
  ASSUME ListInv, made, head # NULL,
         head' = mem[head].next, live' = live \ {head}, chain' = Without(0),
         UNCHANGED <<made, tail, mem>>,
         count' \in Int, pc # "destroy" => count' = count - 1,
         pc' = "destroy" \/ (pc = "idle" /\ pc' = AfterRemoval(count')),
         arg' \in Int, cur' \in Pointers, prev' \in Pointers, i' \in Nat,
         pc' = "destroy" => count' \in Nat
  PROVE  ListInv'
<1> DEFINE n == Len(chain)
<1>1. chain \in Seq(Nodes) /\ n \in Nat /\ (n = 0 <=> chain = << >>)
  BY DEF ListInv, TypeOK
<1>2. n # 0 /\ head = chain[1] /\ head \in Nodes
  BY <1>1 DEF ListInv, ListSound
<1>3. /\ chain' \in Seq(Nodes) /\ Len(chain') = n - 1
      /\ \A j \in 1..(n - 1) : chain'[j] = chain[j + 1]
      /\ (chain' = << >> <=> n = 1)
  <2>1. 0 \in 0..(n - 1)
    BY <1>1, <1>2
  <2>2. /\ chain' \in Seq(Nodes) /\ Len(chain') = n - 1
        /\ \A j \in 1..(n - 1) : chain'[j] = chain[j + 1]
    BY <1>1, <2>1, WithoutShape
  <2> QED
    BY <1>1, <2>2
<1>4. /\ tail = chain[n]
      /\ \A j \in 1..n : mem[chain[j]].next = IF j = n THEN NULL ELSE chain[j + 1]
      /\ pc # "destroy" => count = n
  BY <1>1, <1>2 DEF ListInv, ListSound
<1>5. ASSUME pc' # "destroy"
      PROVE  count' = n - 1 /\ pc' = IF n = 1 THEN "emptied" ELSE "idle"
  <2>1. pc = "idle" /\ pc' = AfterRemoval(count')
    BY <1>5
  <2>2. count' = n - 1
    BY <1>4, <2>1
  <2>3. count' = 0 <=> n = 1
    BY <1>1, <2>2
  <2> QED
    BY <2>1, <2>2, <2>3 DEF AfterRemoval
<1>6. NodesOwned'
  <2>1. 0 \in 0..(n - 1) /\ 0 + 1 = 1
    BY <1>1, <1>2
  <2> QED
    BY <1>2, <2>1, RemovalOwns
<1>7. TypeOK'
  <2>1. head' \in Pointers /\ tail' \in Pointers /\ live' \subseteq Nodes
    BY <1>2 DEF ListInv, TypeOK
  <2>2. mem' \in [Nodes -> [data : Data \cup {NULL}, next : Pointers]]
    BY DEF ListInv, TypeOK
  <2>3. made' \in BOOLEAN
    BY DEF ListInv, TypeOK
  <2>4. pc' \in PCs /\ count' \in Nat
    BY <1>1, <1>2, <1>5 DEF PCs
  <2> QED
    BY <1>3, <2>1, <2>2, <2>3, <2>4 DEF TypeOK
<1>8. ListSound'
  <2>1. head' = IF chain' = << >> THEN NULL ELSE chain'[1]
    <3>4. 1 \in 1..n
      BY <1>1, <1>2, Ends
    <3>1. mem[chain[1]].next = IF 1 = n THEN NULL ELSE chain[1 + 1]
      BY <1>4, <3>4
    <3>2. CASE n = 1
      BY <1>2, <1>3, <3>1, <3>2
    <3>3. CASE n # 1
      <4>1. 1 \in 1..(n - 1)
        BY <1>1, <1>2, <3>3, Ends
      <4> QED
        BY <1>2, <1>3, <3>1, <3>3, <4>1
    <3> QED
      BY <3>2, <3>3
  <2>2. \A j \in 1..(n - 1) :
          mem[chain'[j]].next = IF j = n - 1 THEN NULL ELSE chain'[j + 1]
    <3> SUFFICES ASSUME NEW j \in 1..(n - 1)
                 PROVE  mem[chain'[j]].next = IF j = n - 1 THEN NULL ELSE chain'[j + 1]
      OBVIOUS
    <3>1. j + 1 \in 1..n /\ (j + 1 = n <=> j = n - 1)
      BY <1>1
    <3>2. mem[chain[j + 1]].next = IF j + 1 = n THEN NULL ELSE chain[(j + 1) + 1]
      BY <1>4, <3>1
    <3>3. j # n - 1 => j + 1 \in 1..(n - 1)
      BY <1>1
    <3> QED
      BY <1>3, <3>1, <3>2, <3>3
  <2>3. chain' # << >> => tail' = chain'[Len(chain')]
    <3>1. n # 1 => n - 1 \in 1..(n - 1) /\ (n - 1) + 1 = n
      BY <1>1, <1>2, Ends
    <3> QED
      BY <1>3, <1>4, <3>1
  <2> QED
    BY <1>3, <1>5, <2>1, <2>2, <2>3 DEF ListSound
<1>9. WalkSound'
  BY <1>5 DEF WalkSound
<1> QED
  BY <1>6, <1>7, <1>8, <1>9 DEF ListInv

LEMMA PopHeadKeeps == ListInv /\ PopHead => ListInv'
<1> SUFFICES ASSUME ListInv, PopHead PROVE ListInv'
  OBVIOUS
<1>1. made /\ pc = "idle" /\ ResetLocals
  BY DEF PopHead, Idle, Return
<1>2. CASE head # NULL
  <2>1. arg' \in Int /\ cur' \in Pointers /\ prev' \in Pointers /\ i' \in Nat
    BY <1>1 DEF ResetLocals, Pointers
  <2>2. count' = count - 1 /\ count' \in Int
    BY <1>2 DEF PopHead, ListInv, TypeOK
  <2>3. pc' = AfterRemoval(count') /\ pc' # "destroy"
    BY <1>2, <2>2 DEF PopHead, AfterRemoval
  <2> QED
    BY <1>1, <1>2, <2>1, <2>2, <2>3, HeadGoes DEF PopHead
<1>3. CASE head = NULL
  <2>1. UNCHANGED <<struct, memory, chain>> /\ pc' = "idle"
    BY <1>1, <1>3 DEF PopHead, struct, memory
  <2> QED
    BY <1>1, <2>1, AnswerKeeps
<1> QED
  BY <1>2, <1>3

LEMMA DestroyTurnKeeps == ListInv /\ DestroyTurn => ListInv'
<1> SUFFICES ASSUME ListInv, DestroyTurn PROVE ListInv'
  OBVIOUS
<1>1. made /\ pc = "destroy"
  BY DEF DestroyTurn, ListInv, WalkSound
<1>2. /\ arg' \in Int /\ cur' \in Pointers /\ prev' \in Pointers /\ i' \in Nat
      /\ count' \in Nat /\ pc' = "destroy" /\ UNCHANGED <<made, tail, mem>>
  BY <1>1 DEF DestroyTurn, locals, ListInv, TypeOK
<1> QED
  BY <1>1, <1>2, HeadGoes DEF DestroyTurn

LEMMA DestroyReturnsKeeps == ListInv /\ DestroyReturns => ListInv'
<1> SUFFICES ASSUME ListInv, DestroyReturns PROVE ListInv'
  OBVIOUS
<1>1. chain = << >>
  <2>1. made /\ chain \in Seq(Nodes)
    BY DEF DestroyReturns, ListInv, WalkSound, TypeOK
  <2>2. ASSUME chain # << >> PROVE FALSE
    <3>1. chain[1] \in Nodes
      BY <2>1, <2>2
    <3>2. head = chain[1]
      BY <2>1, <2>2 DEF ListInv, ListSound
    <3> QED
      BY <3>1, <3>2, ListAssumption DEF DestroyReturns
  <2> QED
    BY <2>2
<1>2. Len(chain) = 0
  BY <1>1
<1>3. live = {}
  BY <1>2 DEF ListInv, NodesOwned
<1>4. /\ chain' = << >> /\ live' = {} /\ head' = NULL /\ tail' = NULL
      /\ count' = 0 /\ mem' = mem /\ pc' = "idle" /\ ResetLocals
  BY <1>1, <1>3 DEF DestroyReturns, memory, Return
<1>5. made' \in BOOLEAN
  BY DEF DestroyReturns
<1> QED
  BY <1>4, <1>5, EmptyList

(***************************************************************************)
(* One next pointer is written.                                            *)
(***************************************************************************)
LEMMA LinkSet ==
  ASSUME ListInv, NEW a \in Nodes, NEW x \in Pointers,
         mem' = [mem EXCEPT ![a].next = x]
  PROVE  /\ mem' \in [Nodes -> [data : Data \cup {NULL}, next : Pointers]]
         /\ mem'[a].next = x
         /\ \A b \in Nodes \ {a} : mem'[b] = mem[b]
         /\ \A b \in Nodes : mem'[b].data = mem[b].data
<1> DEFINE r == [mem[a] EXCEPT !.next = x]
<1>1. mem \in [Nodes -> [data : Data \cup {NULL}, next : Pointers]]
  BY DEF ListInv, TypeOK
<1>2. /\ r \in [data : Data \cup {NULL}, next : Pointers]
      /\ r.next = x /\ r.data = mem[a].data
  BY <1>1
<1>3. mem' = [mem EXCEPT ![a] = r]
  OBVIOUS
<1> HIDE DEF r
<1>4. mem'[a] = r /\ \A b \in Nodes \ {a} : mem'[b] = mem[b]
  BY <1>1, <1>3
<1>5. mem' \in [Nodes -> [data : Data \cup {NULL}, next : Pointers]]
  BY <1>1, <1>2, <1>3
<1> QED
  BY <1>2, <1>4, <1>5

(***************************************************************************)
(* pop, and popTail, when the walk is over: at position arg, and at the    *)
(* last node.                                                              *)
(***************************************************************************)
LEMMA PopPlace ==
  ASSUME ListInv, PopReturns
  PROVE  /\ made /\ i = arg /\ arg \in 1..(Len(chain) - 2)
         /\ cur = chain[arg + 1] /\ prev = chain[arg]
         /\ cur \in Nodes /\ prev \in Nodes /\ mem[cur].next \in Pointers
<1>1. /\ chain \in Seq(Nodes) /\ Len(chain) \in Nat
      /\ \A j \in 1..Len(chain) : chain[j] \in Nodes
  BY DEF ListInv, TypeOK
<1>2. made /\ i = arg /\ arg \in 1..(Len(chain) - 2)
  <2>1. made /\ i <= arg /\ arg \in 1..(Len(chain) - 2)
    BY DEF PopReturns, ListInv, WalkSound
  <2>2. i > arg - 1 /\ i \in Nat
    BY DEF PopReturns, ListInv, TypeOK
  <2> QED
    BY <1>1, <2>1, <2>2
<1>3. /\ arg \in 1..Len(chain) /\ arg + 1 \in 1..Len(chain)
      /\ arg # 0 /\ arg # Len(chain)
  BY <1>1, <1>2
<1>4. cur = chain[arg + 1] /\ prev = chain[arg] /\ cur \in Nodes /\ prev \in Nodes
  BY <1>1, <1>2, <1>3 DEF PopReturns, ListInv, WalkSound
<1> QED
  BY <1>2, <1>4 DEF ListInv, TypeOK

LEMMA TailPlace ==
  ASSUME ListInv, AtTail, tail # NULL
  PROVE  /\ made /\ pc = "popTail" /\ Len(chain) # 0 /\ i + 1 = Len(chain)
         /\ tail = chain[Len(chain)]
         /\ prev = IF i = 0 THEN NULL ELSE chain[i]
<1> DEFINE n == Len(chain)
<1>1. /\ chain \in Seq(Nodes) /\ n \in Nat
      /\ \A j \in 1..n : chain[j] \in Nodes
      /\ (n = 0 <=> chain = << >>)
  BY DEF ListInv, TypeOK
<1>2. /\ made /\ pc = "popTail"
      /\ cur # NULL => mem[cur].next = NULL
  BY DEF AtTail, ListInv, WalkSound
<1>3. /\ n # 0 /\ tail = chain[n]
      /\ \A j \in 1..n : mem[chain[j]].next = IF j = n THEN NULL ELSE chain[j + 1]
  BY <1>1, <1>2 DEF ListInv, ListSound
<1>4. /\ i \in Nat /\ i < n /\ cur = chain[i + 1]
      /\ prev = IF i = 0 THEN NULL ELSE chain[i]
  BY <1>1, <1>2, <1>3 DEF ListInv, WalkSound, TypeOK
<1>5. i + 1 \in 1..n
  BY <1>1, <1>4
<1>6. cur \in Nodes /\ cur # NULL
  BY <1>1, <1>4, <1>5, ListAssumption
<1>7. ASSUME i + 1 # n PROVE FALSE
  <2>1. (i + 1) + 1 \in 1..n
    BY <1>1, <1>5, <1>7
  <2>2. mem[chain[i + 1]].next = chain[(i + 1) + 1]
    BY <1>3, <1>5, <1>7
  <2>3. chain[(i + 1) + 1] \in Nodes
    BY <1>1, <2>1
  <2> QED
    BY <1>2, <1>4, <1>6, <2>2, <2>3, ListAssumption
<1> QED
  BY <1>2, <1>3, <1>4, <1>7

LEMMA PopReturnsKeeps == ListInv /\ PopReturns => ListInv'
<1> SUFFICES ASSUME ListInv, PopReturns PROVE ListInv'
  OBVIOUS
<1> DEFINE n == Len(chain)
<1> DEFINE p == arg
<1>1. /\ chain \in Seq(Nodes) /\ n \in Nat
      /\ \A j \in 1..n : chain[j] \in Nodes
      /\ (n = 0 <=> chain = << >>)
  BY DEF ListInv, TypeOK
<1>2. made /\ i = p /\ p \in 1..(n - 2)
  BY PopPlace
<1>3. /\ p \in 1..n /\ p + 1 \in 1..n /\ p + 2 \in 1..n /\ p \in 0..(n - 1)
      /\ p + 1 # n /\ n # 0 /\ n - 1 \in Nat /\ n - 1 # 0 /\ p # 0 /\ p # n
      /\ p + 1 \in 1..(n - 1) /\ p # n - 1 /\ (p + 1) + 1 = p + 2
  BY <1>1, <1>2
<1>4. cur = chain[p + 1] /\ prev = chain[p] /\ cur \in Nodes /\ prev \in Nodes
  BY PopPlace
<1>5. /\ head = chain[1] /\ tail = chain[n] /\ count = n
      /\ \A j \in 1..n : mem[chain[j]].next = IF j = n THEN NULL ELSE chain[j + 1]
  BY <1>1, <1>2, <1>3 DEF PopReturns, ListInv, ListSound
<1>6. \A j, k \in 1..n : j # k => chain[j] # chain[k]
  BY DEF ListInv, NodesOwned
<1>7. mem[cur].next = chain[p + 2] /\ mem[cur].next \in Pointers
  BY <1>1, <1>3, <1>4, <1>5 DEF Pointers
<1>8. /\ mem' \in [Nodes -> [data : Data \cup {NULL}, next : Pointers]]
      /\ mem'[prev].next = chain[p + 2]
      /\ \A b \in Nodes \ {prev} : mem'[b] = mem[b]
  BY <1>4, <1>7, LinkSet DEF PopReturns
<1>9. /\ chain' \in Seq(Nodes) /\ Len(chain') = n - 1
      /\ \A j \in 1..(n - 1) :
           chain'[j] = IF j <= p THEN chain[j] ELSE chain[j + 1]
      /\ chain' # << >>
  <2>1. chain' = Without(p)
    BY DEF PopReturns
  <2>2. /\ chain' \in Seq(Nodes) /\ Len(chain') = n - 1
        /\ \A j \in 1..(n - 1) :
             chain'[j] = IF j <= p THEN chain[j] ELSE chain[j + 1]
    BY <1>1, <1>3, <2>1, WithoutShape
  <2> QED
    BY <1>3, <2>2
<1>10. /\ UNCHANGED <<made, head, tail>> /\ count' = n - 1 /\ pc' = "idle"
       /\ ResetLocals /\ live' = live \ {cur}
  BY <1>1, <1>3, <1>5 DEF PopReturns, AfterRemoval, Return
<1>11. NodesOwned'
  BY <1>2, <1>3, <1>4, <1>10, RemovalOwns DEF PopReturns
<1>12. TypeOK'
  <2>1. head' \in Pointers /\ tail' \in Pointers /\ live' \subseteq Nodes
    BY <1>10 DEF ListInv, TypeOK
  <2>2. made' \in BOOLEAN
    BY <1>10 DEF ListInv, TypeOK
  <2>3. /\ pc' \in PCs /\ count' \in Nat /\ arg' \in Int /\ i' \in Nat
        /\ cur' \in Pointers /\ prev' \in Pointers
    BY <1>3, <1>10 DEF PCs, ResetLocals, Pointers
  <2> QED
    BY <1>8, <1>9, <2>1, <2>2, <2>3 DEF TypeOK
<1>13. ListSound'
  <2>1. head' = chain'[1]
    <3>1. 1 \in 1..(n - 1) /\ 1 <= p
      BY <1>1, <1>2, <1>3
    <3> QED
      BY <1>5, <1>9, <1>10, <3>1
  <2>2. tail' = chain'[n - 1]
    <3>1. n - 1 \in 1..(n - 1) /\ ~(n - 1 <= p) /\ (n - 1) + 1 = n
      BY <1>1, <1>2, <1>3
    <3> QED
      BY <1>5, <1>9, <1>10, <3>1
  <2>3. ASSUME NEW j \in 1..(n - 1)
        PROVE  mem'[chain'[j]].next = IF j = n - 1 THEN NULL ELSE chain'[j + 1]
    <3>1. CASE j < p
      <4>1. /\ j \in 1..n /\ j # n /\ j # n - 1 /\ j <= p /\ j # p
            /\ j + 1 \in 1..(n - 1) /\ j + 1 <= p
        BY <1>1, <1>2, <3>1
      <4>2. chain'[j] = chain[j] /\ chain'[j + 1] = chain[j + 1]
        BY <1>9, <4>1
      <4>3. chain[j] \in Nodes /\ chain[j] # prev
        BY <1>1, <1>3, <1>4, <1>6, <4>1
      <4>4. mem'[chain[j]] = mem[chain[j]]
        BY <1>8, <4>3
      <4> QED
        BY <1>5, <4>1, <4>2, <4>4
    <3>2. CASE j = p
      <4>1. p \in 1..(n - 1) /\ p <= p /\ ~(p + 1 <= p)
        BY <1>1, <1>2, <1>3
      <4>2. chain'[p] = prev /\ chain'[p + 1] = chain[p + 2]
        BY <1>3, <1>4, <1>9, <4>1
      <4> QED
        BY <1>3, <1>8, <3>2, <4>2
    <3>3. CASE j > p
      <4>1. /\ j + 1 \in 1..n /\ ~(j <= p) /\ j + 1 # p
            /\ (j + 1 = n <=> j = n - 1)
            /\ j # n - 1 => j + 1 \in 1..(n - 1) /\ ~(j + 1 <= p)
        BY <1>1, <1>2, <3>3
      <4>2. chain'[j] = chain[j + 1]
        BY <1>9, <4>1
      <4>3. chain[j + 1] \in Nodes /\ chain[j + 1] # prev
        BY <1>1, <1>3, <1>4, <1>6, <4>1
      <4>4. mem'[chain[j + 1]] = mem[chain[j + 1]]
        BY <1>8, <4>3
      <4>5. mem[chain[j + 1]].next = IF j + 1 = n THEN NULL ELSE chain[(j + 1) + 1]
        BY <1>5, <4>1
      <4>6. j # n - 1 => chain'[j + 1] = chain[(j + 1) + 1]
        BY <1>9, <4>1
      <4> QED
        BY <4>1, <4>2, <4>4, <4>5, <4>6
    <3> QED
      BY <1>2, <3>1, <3>2, <3>3
  <2> QED
    BY <1>9, <1>10, <2>1, <2>2, <2>3 DEF ListSound
<1>14. WalkSound'
  BY <1>10 DEF WalkSound
<1> QED
  BY <1>11, <1>12, <1>13, <1>14 DEF ListInv

LEMMA PopTailReturnsKeeps == ListInv /\ PopTailReturns => ListInv'
<1> SUFFICES ASSUME ListInv, PopTailReturns PROVE ListInv'
  OBVIOUS
<1> DEFINE n == Len(chain)
<1>1. /\ chain \in Seq(Nodes) /\ n \in Nat
      /\ \A j \in 1..n : chain[j] \in Nodes
      /\ (n = 0 <=> chain = << >>)
  BY DEF ListInv, TypeOK
<1>2. AtTail /\ tail # NULL /\ prev # NULL
  BY DEF PopTailReturns
<1>3. /\ made /\ pc = "popTail" /\ n # 0 /\ i + 1 = n /\ tail = chain[n]
      /\ i # 0 /\ prev = chain[i]
  BY <1>2, TailPlace
<1>4. i \in Nat
  BY DEF ListInv, TypeOK
<1>5. /\ head = chain[1] /\ count = n
      /\ \A j \in 1..n : mem[chain[j]].next = IF j = n THEN NULL ELSE chain[j + 1]
  BY <1>1, <1>3 DEF ListInv, ListSound
<1>6. /\ i = n - 1 /\ n - 1 \in Nat /\ n - 1 # 0 /\ n - 1 \in 1..n /\ n \in 1..n
      /\ n - 1 \in 0..(n - 1) /\ (n - 1) + 1 = n /\ n - 1 # n
      /\ 1 \in 1..(n - 1) /\ n - 1 \in 1..(n - 1)
      /\ \A j \in 1..(n - 1) : j \in 1..n /\ j <= n - 1 /\ j # n
  BY <1>1, <1>3, <1>4
<1>7. prev = chain[n - 1] /\ prev \in Nodes /\ tail \in Nodes
  BY <1>1, <1>3, <1>4, <1>6
<1>8. \A j, k \in 1..n : j # k => chain[j] # chain[k]
  BY DEF ListInv, NodesOwned
<1>9. /\ mem' \in [Nodes -> [data : Data \cup {NULL}, next : Pointers]]
      /\ mem'[prev].next = NULL
      /\ \A b \in Nodes \ {prev} : mem'[b] = mem[b]
  <2>1. NULL \in Pointers
    BY DEF Pointers
  <2>2. mem' = [mem EXCEPT ![prev].next = NULL]
    BY DEF PopTailReturns
  <2> QED
    BY <1>7, <2>1, <2>2, LinkSet
<1>10. /\ chain' \in Seq(Nodes) /\ Len(chain') = n - 1
       /\ \A j \in 1..(n - 1) : chain'[j] = chain[j]
       /\ chain' # << >>
  <2>1. chain' = Without(n - 1)
    BY DEF PopTailReturns
  <2>2. /\ chain' \in Seq(Nodes) /\ Len(chain') = n - 1
        /\ \A j \in 1..(n - 1) :
             chain'[j] = IF j <= n - 1 THEN chain[j] ELSE chain[j + 1]
    BY <1>1, <1>6, <2>1, WithoutShape
  <2> QED
    BY <1>6, <2>2
<1>11. /\ UNCHANGED <<made, head>> /\ tail' = prev /\ count' = n - 1
       /\ pc' = "idle" /\ ResetLocals /\ live' = live \ {tail}
  BY <1>1, <1>5, <1>6 DEF PopTailReturns, AfterRemoval, Return
<1>12. NodesOwned'
  <2>1. chain' = Without(n - 1)
    BY DEF PopTailReturns
  <2>2. made' /\ live' = live \ {chain[(n - 1) + 1]}
    BY <1>3, <1>6, <1>11
  <2> QED
    BY <1>6, <2>1, <2>2, RemovalOwns
<1>13. TypeOK'
  <2>1. head' \in Pointers /\ tail' \in Pointers /\ live' \subseteq Nodes
    BY <1>11 DEF ListInv, TypeOK
  <2>2. made' \in BOOLEAN
    BY <1>11 DEF ListInv, TypeOK
  <2>3. /\ pc' \in PCs /\ count' \in Nat /\ arg' \in Int /\ i' \in Nat
        /\ cur' \in Pointers /\ prev' \in Pointers
    BY <1>6, <1>11 DEF PCs, ResetLocals, Pointers
  <2> QED
    BY <1>9, <1>10, <2>1, <2>2, <2>3 DEF TypeOK
<1>14. ListSound'
  <2>1. head' = chain'[1] /\ tail' = chain'[n - 1]
    BY <1>5, <1>6, <1>7, <1>10, <1>11
  <2>2. ASSUME NEW j \in 1..(n - 1)
        PROVE  mem'[chain'[j]].next = IF j = n - 1 THEN NULL ELSE chain'[j + 1]
    <3>1. CASE j = n - 1
      BY <1>7, <1>9, <1>10, <3>1
    <3>2. CASE j # n - 1
      <4>1. j \in 1..n /\ j # n /\ j + 1 \in 1..(n - 1)
        BY <1>1, <1>6, <3>2
      <4>2. chain'[j] = chain[j] /\ chain'[j + 1] = chain[j + 1]
        BY <1>10, <4>1
      <4>3. chain[j] \in Nodes /\ chain[j] # prev
        BY <1>1, <1>6, <1>7, <1>8, <3>2, <4>1
      <4>4. mem'[chain[j]] = mem[chain[j]]
        BY <1>9, <4>3
      <4> QED
        BY <1>5, <3>2, <4>1, <4>2, <4>4
    <3> QED
      BY <3>1, <3>2
  <2> QED
    BY <1>10, <1>11, <2>1, <2>2 DEF ListSound
<1>15. WalkSound'
  BY <1>11 DEF WalkSound
<1> QED
  BY <1>12, <1>13, <1>14, <1>15 DEF ListInv

(***************************************************************************)
(* Every step.                                                             *)
(***************************************************************************)
LEMMA QuietCallKeeps ==
  ASSUME ListInv, \/ InsertFails \/ Size \/ Empty
                  \/ \E p \in Positions : PopBeyond(p)
  PROVE  ListInv'
<1>1. pc = "idle" /\ made /\ ResetLocals /\ UNCHANGED <<struct, memory, pc, chain>>
  BY DEF InsertFails, Size, Empty, PopBeyond, Idle, Return
<1> QED
  BY <1>1, AnswerKeeps

LEMMA WalkCallKeeps ==
  ASSUME ListInv,
         \/ PopTail \/ Destroy
         \/ \E p \in Positions : Get(p) \/ Pop(p)
         \/ \E k \in Keys : IndexLL(k)
  PROVE  ListInv'
<1>1. CASE PopTail
  BY <1>1, WalkBegins DEF PopTail, Idle
<1>2. CASE Destroy
  BY <1>2, WalkBegins DEF Destroy
<1>3. ASSUME NEW p \in Positions, Get(p) PROVE ListInv'
  <2>1. p \in Nat
    BY <1>3, ListAssumption DEF Get
  <2> QED
    BY <1>3, <2>1, WalkBegins DEF Get, Idle
<1>4. ASSUME NEW p \in Positions, Pop(p) PROVE ListInv'
  <2>1. CASE p = count
    BY <1>4, <2>1, WalkBegins DEF Pop, Idle
  <2>2. CASE p # count
    <3>1. count = Len(chain) /\ p \in Nat /\ Len(chain) \in Nat
      BY <1>4, ListAssumption DEF Pop, Idle, ListInv, ListSound, TypeOK
    <3>2. p # 0 /\ p <= count /\ p # count - 1
      BY <1>4, ListAssumption DEF Pop, MayPop
    <3>3. p \in 1..(Len(chain) - 2)
      BY <2>2, <3>1, <3>2
    <3> QED
      BY <1>4, <2>2, <3>3, WalkBegins DEF Pop, Idle
  <2> QED
    BY <2>1, <2>2
<1>5. ASSUME NEW k \in Keys, IndexLL(k) PROVE ListInv'
  <2>1. k \in Int
    BY ListAssumption
  <2> QED
    BY <1>5, <2>1, WalkBegins DEF IndexLL, Idle
<1> QED
  BY <1>1, <1>2, <1>3, <1>4, <1>5

LEMMA AnswersKeep ==
  ASSUME ListInv, GetReturns \/ IndexLLReturns \/ PopTailOfNone
  PROVE  ListInv'
<1>1. /\ pc \in {"get", "indexLL", "popTail"} /\ pc' = "idle" /\ ResetLocals
      /\ UNCHANGED <<struct, memory, chain>>
  BY DEF GetReturns, IndexLLReturns, PopTailOfNone, AtTail, Answer, Return
<1>2. made
  BY <1>1 DEF ListInv, WalkSound
<1> QED
  BY <1>1, <1>2, AnswerKeeps

LEMMA TurnsKeep ==
  ASSUME ListInv, GetTurn \/ IndexLLTurn \/ PopTurn \/ PopTailTurn
  PROVE  ListInv'
BY TurnKeeps DEF GetTurn, IndexLLTurn, PopTurn, PopTailTurn

LEMMA InvNext == ListInv /\ [Next]_vars => ListInv'
<1> SUFFICES ASSUME ListInv, [Next]_vars PROVE ListInv'
  OBVIOUS
<1>1. CASE Client
  <2>1. CASE InitList
    BY <2>1, InitListKeeps
  <2>2. CASE \/ InsertFails \/ Size \/ Empty
             \/ \E p \in Positions : PopBeyond(p)
    BY <2>2, QuietCallKeeps
  <2>3. CASE \/ PopTail \/ Destroy
             \/ \E p \in Positions : Get(p) \/ Pop(p)
             \/ \E k \in Keys : IndexLL(k)
    BY <2>3, WalkCallKeeps
  <2>4. CASE PopHead
    BY <2>4, PopHeadKeeps
  <2>5. CASE IndexLLAborts \/ \E p \in Positions : NegativeAborts(p)
    BY <2>5, DieKeeps DEF IndexLLAborts, NegativeAborts
  <2>6. ASSUME NEW d \in Data, Insert(d) PROVE ListInv'
    BY <2>6, InsertKeeps
  <2> QED
    BY <1>1, <2>1, <2>2, <2>3, <2>4, <2>5, <2>6 DEF Client
<1>2. CASE Step
  <2>1. CASE GetTurn \/ IndexLLTurn \/ PopTurn \/ PopTailTurn
    BY <2>1, TurnsKeep
  <2>2. CASE GetReturns \/ IndexLLReturns \/ PopTailOfNone
    BY <2>2, AnswersKeep
  <2>3. CASE PopReturns
    BY <2>3, PopReturnsKeeps
  <2>4. CASE PopTailReturns
    BY <2>4, PopTailReturnsKeeps
  <2>5. CASE PopTailDies
    BY <2>5, DieKeeps DEF PopTailDies
  <2>6. CASE DestroyTurn
    BY <2>6, DestroyTurnKeeps
  <2>7. CASE DestroyReturns
    BY <2>7, DestroyReturnsKeeps
  <2> QED
    BY <1>2, <2>1, <2>2, <2>3, <2>4, <2>5, <2>6, <2>7 DEF Step
<1>3. CASE UNCHANGED vars
  <2>1. /\ UNCHANGED <<struct, memory, chain>>
        /\ UNCHANGED <<pc, arg, cur, prev, i, made>>
    BY <1>3 DEF vars, locals, struct
  <2>2. /\ pc' \in PCs /\ arg' \in Int /\ i' \in Nat
        /\ cur' \in Pointers /\ prev' \in Pointers
    BY <2>1 DEF ListInv, TypeOK
  <2>3. WalkSound'
    BY <2>1 DEF ListInv, WalkSound, memory
  <2>4. TypeOK' /\ ListSound' /\ NodesOwned'
    BY <2>1 DEF ListInv, TypeOK, ListSound, NodesOwned, struct, memory
  <2> QED
    BY <2>3, <2>4 DEF ListInv
<1> QED
  BY <1>1, <1>2, <1>3 DEF Next

LEMMA ListInvariant == Spec => []ListInv
<1> QED
  BY InvInit, InvNext, PTL DEF Spec

(***************************************************************************)
(* Types are kept by every call of LL.c, for every list however long.      *)
(***************************************************************************)
THEOREM ListTypeCorrect == Spec => []TypeOK
<1>1. ListInv => TypeOK
  BY DEF ListInv
<1> QED
  BY <1>1, ListInvariant, PTL

(***************************************************************************)
(* The pointers of LL.c are a list at every moment, and count its length.  *)
(***************************************************************************)
THEOREM PointersSound == Spec => []ListSound
<1>1. ListInv => ListSound
  BY DEF ListInv
<1> QED
  BY <1>1, ListInvariant, PTL

(***************************************************************************)
(* LL.c loses no node and frees none that the list still holds.            *)
(***************************************************************************)
THEOREM NodesAccounted == Spec => []NodesOwned
<1>1. ListInv => NodesOwned
  BY DEF ListInv
<1> QED
  BY <1>1, ListInvariant, PTL

(***************************************************************************)
(* The loops of LL.c count the nodes they pass, and pop follows no null    *)
(* pointer.                                                                *)
(***************************************************************************)
THEOREM WalksCorrect == Spec => []WalkSound
<1>1. ListInv => WalkSound
  BY DEF ListInv
<1> QED
  BY <1>1, ListInvariant, PTL

(***************************************************************************)
(* The refinement: each step is one of ListSpec, or changes nothing there. *)
(***************************************************************************)
LEMMA ElementsShape ==
  ASSUME ListInv
  PROVE  /\ pc = "destroy" => Elements = << >>
         /\ pc # "destroy" =>
              /\ Elements = [j \in 1..Len(chain) |-> mem[chain[j]].data]
              /\ Elements \in Seq(Data \cup {NULL})
              /\ Len(Elements) = Len(chain)
              /\ \A j \in 1..Len(chain) : Elements[j] = mem[chain[j]].data
              /\ (Elements = << >> <=> chain = << >>)
<1>1. CASE pc = "destroy"
  BY <1>1 DEF Elements
<1>2. CASE pc # "destroy"
  <2>1. Elements = [j \in 1..Len(chain) |-> mem[chain[j]].data]
    BY <1>2 DEF Elements
  <2>2. chain \in Seq(Nodes) /\ Len(chain) \in Nat
    BY DEF ListInv, TypeOK
  <2>3. \A j \in 1..Len(chain) : mem[chain[j]].data \in Data \cup {NULL}
    BY <2>2 DEF ListInv, TypeOK
  <2>4. Elements \in Seq(Data \cup {NULL})
    BY <2>1, <2>2, <2>3
  <2>5. Len(Elements) = Len(chain)
    BY <2>1, <2>2
  <2> QED
    BY <1>2, <2>1, <2>2, <2>4, <2>5
<1> QED
  BY <1>1, <1>2

LEMMA ElementsSame ==
  ASSUME UNCHANGED <<mem, chain>>, pc # "destroy", pc' # "destroy"
  PROVE  Elements' = Elements
BY DEF Elements

LEMMA RefInit == Init => List!Init
<1> SUFFICES ASSUME Init PROVE List!Init
  OBVIOUS
<1>1. Elements = << >>
  BY DEF Init, Elements
<1>2. RunningCall = List!NoCall
  BY DEF Init, RunningCall, List!NoCall
<1>3. ret = List!NoRet
  BY DEF Init, NoRet, List!NoRet
<1>4. (made /\ pc # "destroy") = FALSE
  BY DEF Init
<1> QED
  BY <1>1, <1>2, <1>3, <1>4 DEF List!Init

LEMMA RefQuiet ==
  ASSUME ListInv, \/ InsertFails \/ Size \/ Empty
                  \/ \E p \in Positions : PopBeyond(p)
  PROVE  List!Next
<1> DEFINE lives == made /\ pc # "destroy"
<1>1. /\ pc = "idle" /\ pc' = "idle" /\ made /\ made' /\ UNCHANGED <<struct, memory, chain>>
  BY DEF InsertFails, Size, Empty, PopBeyond, Idle, struct
<1>2. RunningCall = List!NoCall /\ RunningCall' = List!NoCall
  BY <1>1 DEF RunningCall, List!NoCall
<1>3. Elements' = Elements /\ Len(Elements) = Len(chain)
      /\ (Elements = << >> <=> chain = << >>)
  BY <1>1, ElementsShape, ElementsSame DEF memory
<1>4. lives /\ lives' = lives
  BY <1>1
<1>5. count = Len(chain) /\ (count = 0 <=> chain = << >>)
  BY <1>1 DEF ListInv, ListSound, TypeOK
<1>6. CASE InsertFails
  <2>1. List!InsertFails
    BY <1>2, <1>3, <1>4, <1>6 DEF InsertFails, Return, List!InsertFails, List!Answer
  <2> QED
    BY <2>1 DEF List!Next
<1>7. CASE Size
  <2>1. List!Size
    BY <1>2, <1>3, <1>4, <1>5, <1>7 DEF Size, Return, List!Size, List!Answer
  <2> QED
    BY <2>1 DEF List!Next
<1>8. CASE Empty
  <2>1. List!Empty
    BY <1>2, <1>3, <1>4, <1>5, <1>8 DEF Empty, Return, List!Empty, List!Answer
  <2> QED
    BY <2>1 DEF List!Next
<1>9. ASSUME NEW p \in Positions, PopBeyond(p) PROVE List!Next
  <2>1. p > Len(Elements)
    BY <1>3, <1>5, <1>9 DEF PopBeyond
  <2>2. List!PopAtOnce
    BY <1>2, <1>3, <1>4, <1>9, <2>1 DEF PopBeyond, Return, List!PopAtOnce, List!Answer
  <2> QED
    BY <2>2 DEF List!Next
<1> QED
  BY <1>6, <1>7, <1>8, <1>9

LEMMA RefWalkCall ==
  ASSUME ListInv,
         \/ PopTail \/ Destroy
         \/ \E p \in Positions : Get(p) \/ Pop(p)
         \/ \E k \in Keys : IndexLL(k)
  PROVE  List!Next
<1> DEFINE lives == made /\ pc # "destroy"
<1>1. /\ pc \in {"idle", "emptied"} /\ made /\ UNCHANGED <<struct, memory, chain>>
      /\ made'
  BY DEF PopTail, Destroy, Get, Pop, IndexLL, Idle, struct
<1>2. RunningCall = List!NoCall
  BY <1>1 DEF RunningCall, List!NoCall
<1>3. pc' # "destroy" => Elements' = Elements
  BY <1>1, ElementsSame DEF memory
<1>4. lives /\ (pc' # "destroy" => lives' = lives)
  BY <1>1
<1>5. NoRet = List!NoRet
  BY DEF NoRet, List!NoRet
<1>6. CASE PopTail
  <2>1. pc' = "popTail" /\ ret' = NoRet
    BY <1>6 DEF PopTail, WalkFrom
  <2>2. RunningCall' = [op |-> "popTail", arg |-> NULL]
    BY <2>1 DEF RunningCall, List!NoCall
  <2>3. List!Walk("popTail", NULL)
    BY <1>2, <1>3, <1>4, <1>5, <2>1, <2>2 DEF List!Walk, List!Begin
  <2> QED
    BY <2>3 DEF List!Next
<1>7. CASE Destroy
  <2>1. pc' = "destroy" /\ ret' = NoRet
    BY <1>7 DEF Destroy, WalkFrom
  <2>2. RunningCall' = [op |-> "destroy", arg |-> NULL] /\ Elements' = << >>
    BY <2>1 DEF RunningCall, List!NoCall, Elements
  <2>3. lives' = FALSE
    BY <2>1
  <2>4. List!DestroyBegins
    BY <1>2, <1>5, <2>1, <2>2, <2>3 DEF List!DestroyBegins, List!Begin
  <2> QED
    BY <2>4 DEF List!Next
<1>8. ASSUME NEW p \in Positions, Get(p) PROVE List!Next
  <2>1. pc' = "get" /\ arg' = p /\ ret' = NoRet
    BY <1>8 DEF Get, WalkFrom
  <2>2. RunningCall' = [op |-> "get", arg |-> p]
    BY <2>1 DEF RunningCall, List!NoCall
  <2>3. List!Walk("get", p)
    BY <1>2, <1>3, <1>4, <1>5, <2>1, <2>2 DEF List!Walk, List!Begin
  <2> QED
    BY <2>3 DEF List!Next
<1>9. ASSUME NEW p \in Positions, Pop(p) PROVE List!Next
  <2>1. CASE p = count
    <3>1. pc' = "popTail" /\ ret' = NoRet
      BY <1>9, <2>1 DEF Pop, WalkFrom
    <3>2. RunningCall' = [op |-> "popTail", arg |-> NULL]
      BY <3>1 DEF RunningCall, List!NoCall
    <3>3. List!Walk("popTail", NULL)
      BY <1>2, <1>3, <1>4, <1>5, <3>1, <3>2 DEF List!Walk, List!Begin
    <3> QED
      BY <3>3 DEF List!Next
  <2>2. CASE p # count
    <3>1. pc' = "pop" /\ arg' = p /\ ret' = NoRet
      BY <1>9, <2>2 DEF Pop, WalkFrom
    <3>2. RunningCall' = [op |-> "pop", arg |-> p]
      BY <3>1 DEF RunningCall, List!NoCall
    <3>3. List!Walk("pop", p)
      BY <1>2, <1>3, <1>4, <1>5, <3>1, <3>2 DEF List!Walk, List!Begin
    <3> QED
      BY <3>3 DEF List!Next
  <2> QED
    BY <2>1, <2>2
<1>10. ASSUME NEW k \in Keys, IndexLL(k) PROVE List!Next
  <2>1. pc' = "indexLL" /\ arg' = k /\ ret' = NoRet
    BY <1>10 DEF IndexLL, WalkFrom
  <2>2. RunningCall' = [op |-> "indexLL", arg |-> k]
    BY <2>1 DEF RunningCall, List!NoCall
  <2>3. List!Walk("indexLL", k)
    BY <1>2, <1>3, <1>4, <1>5, <2>1, <2>2 DEF List!Walk, List!Begin
  <2> QED
    BY <2>3 DEF List!Next
<1> QED
  BY <1>6, <1>7, <1>8, <1>9, <1>10

LEMMA RefTurn ==
  ASSUME ListInv,
         \/ GetTurn \/ IndexLLTurn \/ PopTurn \/ PopTailTurn
         \/ DestroyTurn \/ UNCHANGED vars
  PROVE  UNCHANGED List!vars
<1>1. UNCHANGED <<made, mem, pc, arg, ret>>
  BY DEF GetTurn, IndexLLTurn, PopTurn, PopTailTurn, DestroyTurn, Advance,
         vars, struct, memory, locals
<1>2. pc # "destroy" => UNCHANGED chain
  BY DEF GetTurn, IndexLLTurn, PopTurn, PopTailTurn, DestroyTurn, Advance, vars
<1>3. Elements' = Elements
  BY <1>1, <1>2 DEF Elements
<1>4. RunningCall' = RunningCall
  BY <1>1 DEF RunningCall, List!NoCall
<1>5. (made /\ pc # "destroy")' = (made /\ pc # "destroy")
  BY <1>1
<1> QED
  BY <1>1, <1>3, <1>4, <1>5 DEF List!vars

LEMMA RefDies ==
  ASSUME Die
  PROVE  List!Dies
<1>1. Elements' = << >>
  BY DEF Die, Elements
<1>2. RunningCall' = List!NoCall
  BY DEF Die, RunningCall, List!NoCall
<1>3. ret' = List!NoRet
  BY DEF Die, NoRet, List!NoRet
<1>4. (made /\ pc # "destroy")' = FALSE
  BY DEF Die
<1> QED
  BY <1>1, <1>2, <1>3, <1>4 DEF List!Dies

LEMMA RefTake ==
  ASSUME ListInv, pc # "destroy", pc' # "destroy",
         NEW p \in 0..(Len(chain) - 1), chain' = Without(p),
         \A a \in Nodes : mem'[a].data = mem[a].data
  PROVE  /\ Elements' = List!Without(p)
         /\ Elements[p + 1] = mem[chain[p + 1]].data
         /\ Elements # << >>
<1> DEFINE n == Len(chain)
<1>1. /\ chain \in Seq(Nodes) /\ n \in Nat /\ p + 1 \in 1..n /\ n # 0
      /\ \A j \in 1..n : chain[j] \in Nodes
  BY DEF ListInv, TypeOK
<1>2. /\ Len(Elements) = n
      /\ \A j \in 1..n : Elements[j] = mem[chain[j]].data
      /\ (Elements = << >> <=> chain = << >>)
  BY ElementsShape
<1>3. /\ Len(chain') = n - 1
      /\ \A j \in 1..(n - 1) :
           chain'[j] = IF j <= p THEN chain[j] ELSE chain[j + 1]
  BY <1>1, WithoutShape
<1>4. Elements' = [j \in 1..(n - 1) |-> mem'[chain'[j]].data]
  BY <1>3 DEF Elements
<1>5. ASSUME NEW j \in 1..(n - 1)
      PROVE  mem'[chain'[j]].data = IF j <= p THEN Elements[j] ELSE Elements[j + 1]
  <2>1. j \in 1..n /\ j + 1 \in 1..n
    BY <1>1
  <2> QED
    BY <1>1, <1>2, <1>3, <2>1
<1>6. Elements' = [j \in 1..(n - 1) |-> IF j <= p THEN Elements[j] ELSE Elements[j + 1]]
  BY <1>4, <1>5
<1>7. Elements' = List!Without(p)
  BY <1>2, <1>6 DEF List!Without
<1>8. chain # << >>
  BY <1>1
<1> QED
  BY <1>1, <1>2, <1>7, <1>8

LEMMA RefMake == ListInv /\ InitList => List!Next
<1> SUFFICES ASSUME ListInv, InitList PROVE List!Next
  OBVIOUS
<1> DEFINE lives == made /\ pc # "destroy"
<1>1. /\ pc = "idle" /\ pc' = "idle" /\ lives = FALSE /\ UNCHANGED <<mem, chain>>
  BY DEF InitList, memory
<1>2. RunningCall = List!NoCall /\ RunningCall' = List!NoCall /\ Elements' = Elements
  BY <1>1, ElementsSame DEF RunningCall, List!NoCall
<1>3. \/ lives' = TRUE /\ ret' = [of |-> "init", val |-> 0]
      \/ lives' = FALSE /\ ret' = [of |-> "init", val |-> -1]
  BY <1>1 DEF InitList, Return, struct
<1>4. List!Make
  BY <1>1, <1>2, <1>3 DEF List!Make, List!Answer
<1> QED
  BY <1>4 DEF List!Next

LEMMA RefInsert ==
  ASSUME ListInv, NEW d \in Data, Insert(d)
  PROVE  List!Next
<1> DEFINE n == Len(chain)
<1> DEFINE lives == made /\ pc # "destroy"
<1>1. PICK m \in Nodes \ live : mem' = Linked(m, d) /\ chain' = Append(chain, m)
  BY DEF Insert
<1>2. /\ pc = "idle" /\ pc' = "idle" /\ lives = TRUE /\ lives' = TRUE
      /\ ret' = [of |-> "insert", val |-> 0]
  BY DEF Insert, Idle, Return
<1>3. RunningCall = List!NoCall /\ RunningCall' = List!NoCall
  BY <1>2 DEF RunningCall, List!NoCall
<1>4. /\ chain \in Seq(Nodes) /\ n \in Nat /\ Len(chain') = n + 1
      /\ \A j \in 1..n : chain[j] \in Nodes /\ chain[j] # m /\ chain'[j] = chain[j]
      /\ chain'[n + 1] = m
  BY <1>1 DEF ListInv, TypeOK, NodesOwned
<1>5. mem'[m].data = d /\ \A a \in Nodes \ {m} : mem'[a].data = mem[a].data
  <2> DEFINE mm == [mem EXCEPT ![m] = [data |-> d, next |-> NULL]]
  <2>1. /\ mm \in [Nodes -> [data : Data \cup {NULL}, next : Pointers]]
        /\ mm[m].data = d
        /\ \A a \in Nodes \ {m} : mm[a] = mem[a]
    BY DEF ListInv, TypeOK, Pointers
  <2>2. CASE tail = NULL
    <3>1. mem' = mm
      BY <1>1, <2>2 DEF Linked
    <3> QED
      BY <2>1, <3>1
  <2>3. CASE tail # NULL
    <3>1. tail \in Nodes
      BY <2>3 DEF ListInv, TypeOK, Pointers
    <3>2. mem' = [mm EXCEPT ![tail].next = m]
      BY <1>1, <2>3 DEF Linked
    <3> HIDE DEF mm
    <3>3. \A a \in Nodes : mem'[a].data = mm[a].data
      BY <2>1, <3>1, <3>2
    <3> QED
      BY <2>1, <3>3
  <2> QED
    BY <2>2, <2>3
<1>6. /\ Len(Elements) = n /\ Elements \in Seq(Data \cup {NULL})
      /\ \A j \in 1..n : Elements[j] = mem[chain[j]].data
  BY <1>2, ElementsShape
<1>7. Elements' = Append(Elements, d)
  <2> DEFINE D == Data \cup {NULL}
  <2>1. Elements' = [j \in 1..(n + 1) |-> mem'[chain'[j]].data]
    BY <1>2, <1>4 DEF Elements
  <2>2. \A j \in 1..(n + 1) :
          mem'[chain'[j]].data = IF j = n + 1 THEN d ELSE Elements[j]
    BY <1>4, <1>5, <1>6
  <2>3. \A j \in 1..n : Elements[j] \in D
    BY <1>4, <1>6
  <2>4. /\ Elements' \in Seq(D) /\ Len(Elements') = n + 1
        /\ \A j \in 1..(n + 1) : Elements'[j] = IF j = n + 1 THEN d ELSE Elements[j]
    BY <1>4, <2>1, <2>2, <2>3
  <2>5. /\ Append(Elements, d) \in Seq(D) /\ Len(Append(Elements, d)) = n + 1
        /\ \A j \in 1..(n + 1) :
             Append(Elements, d)[j] = IF j = n + 1 THEN d ELSE Elements[j]
    BY <1>4, <1>6
  <2> QED
    BY <2>4, <2>5, SeqEqual
<1>8. List!Insert(d)
  BY <1>2, <1>3, <1>7 DEF List!Insert, List!Answer
<1> QED
  BY <1>8 DEF List!Next

LEMMA RefPopHead == ListInv /\ PopHead => List!Next
<1> SUFFICES ASSUME ListInv, PopHead PROVE List!Next
  OBVIOUS
<1> DEFINE lives == made /\ pc # "destroy"
<1>1. /\ pc = "idle" /\ pc' \in {"idle", "emptied"} /\ made /\ made' = made /\ mem' = mem
      /\ lives' = lives
  BY DEF PopHead, Idle, AfterRemoval
<1>2. RunningCall = List!NoCall /\ RunningCall' = List!NoCall
  BY <1>1 DEF RunningCall, List!NoCall
<1>3. CASE head # NULL
  <2>1. /\ chain \in Seq(Nodes) /\ Len(chain) \in Nat
        /\ (Len(chain) = 0 <=> chain = << >>)
    BY DEF ListInv, TypeOK
  <2>2. head = chain[1] /\ 0 \in 0..(Len(chain) - 1) /\ 0 + 1 = 1
    BY <1>1, <1>3, <2>1, Ends DEF ListInv, ListSound
  <2>3. chain' = Without(0) /\ ret' = [of |-> "pop", val |-> mem[chain[1]].data]
    BY <1>3, <2>2 DEF PopHead, Return
  <2>4. /\ Elements' = List!Without(0) /\ Elements[1] = mem[chain[1]].data
        /\ Elements # << >>
    BY <1>1, <2>2, <2>3, RefTake
  <2>5. List!PopAtOnce
    BY <1>1, <1>2, <2>2, <2>3, <2>4 DEF List!PopAtOnce, List!Take, List!Answer
  <2> QED
    BY <2>5 DEF List!Next
<1>4. CASE head = NULL
  <2>1. ret' = [of |-> "pop", val |-> NULL] /\ chain' = chain
    BY <1>4 DEF PopHead, Return
  <2>2. Elements' = Elements
    BY <1>1, <2>1, ElementsSame
  <2>3. Elements = << >>
    <3>1. ASSUME chain # << >> PROVE FALSE
      <4>1. chain \in Seq(Nodes) /\ Len(chain) \in Nat /\ Len(chain) # 0
        BY <3>1 DEF ListInv, TypeOK
      <4>2. chain[1] \in Nodes
        BY <4>1, Ends
      <4> QED
        BY <1>1, <1>4, <3>1, <4>2, ListAssumption DEF ListInv, ListSound
    <3> QED
      BY <1>1, <3>1, ElementsShape
  <2>4. List!PopAtOnce
    BY <1>1, <1>2, <2>1, <2>2, <2>3 DEF List!PopAtOnce, List!Answer
  <2> QED
    BY <2>4 DEF List!Next
<1> QED
  BY <1>3, <1>4

LEMMA RefPop == ListInv /\ PopReturns => List!Next
<1> SUFFICES ASSUME ListInv, PopReturns PROVE List!Next
  OBVIOUS
<1> DEFINE lives == made /\ pc # "destroy"
<1>1. /\ arg \in 0..(Len(chain) - 1) /\ cur = chain[arg + 1]
      /\ prev \in Nodes /\ mem[cur].next \in Pointers
  BY PopPlace DEF ListInv, TypeOK
<1>2. /\ pc = "pop" /\ pc' \in {"idle", "emptied"} /\ made' = made
      /\ chain' = Without(arg) /\ ret' = [of |-> "pop", val |-> mem[cur].data]
      /\ mem' = [mem EXCEPT ![prev].next = mem[cur].next]
  BY DEF PopReturns, AfterRemoval, Return
<1>3. RunningCall = [op |-> "pop", arg |-> arg] /\ RunningCall' = List!NoCall
  BY <1>2 DEF RunningCall, List!NoCall
<1>4. \A a \in Nodes : mem'[a].data = mem[a].data
  BY <1>1, <1>2, LinkSet
<1>5. /\ Elements' = List!Without(arg)
      /\ Elements[arg + 1] = mem[chain[arg + 1]].data
  BY <1>1, <1>2, <1>4, RefTake
<1>6. Len(Elements) = Len(chain)
  BY <1>2, ElementsShape
<1>7. lives' = lives
  BY <1>2
<1>8. RunningCall.op = "pop" /\ RunningCall.arg = arg
  BY <1>3
<1>9. List!Pop
  BY <1>1, <1>2, <1>3, <1>5, <1>6, <1>7, <1>8
     DEF List!Pop, List!Running, List!Take, List!Answer
<1> QED
  BY <1>9 DEF List!Next

LEMMA RefPopTail ==
  ASSUME ListInv, PopTailReturns \/ PopTailOfNone \/ PopTailDies
  PROVE  List!Next
<1> DEFINE n == Len(chain)
<1> DEFINE lives == made /\ pc # "destroy"
<1>1. /\ pc = "popTail" /\ AtTail /\ n \in Nat /\ i \in Nat
      /\ chain \in Seq(Nodes) /\ (\A j \in 1..n : chain[j] \in Nodes)
      /\ (n = 0 <=> chain = << >>)
  BY DEF PopTailReturns, PopTailOfNone, PopTailDies, AtTail, ListInv, TypeOK
<1>2. RunningCall.op = "popTail"
  BY <1>1 DEF RunningCall
<1>3. Len(Elements) = n /\ (Elements = << >> <=> chain = << >>)
  BY <1>1, ElementsShape
<1>4. CASE PopTailReturns
  <2>1. tail # NULL /\ prev # NULL
    BY <1>4 DEF PopTailReturns
  <2>2. i + 1 = n /\ tail = chain[n] /\ i # 0 /\ prev = chain[i]
    BY <1>1, <2>1, TailPlace
  <2>3. /\ n - 1 \in 0..(n - 1) /\ n > 1 /\ (n - 1) + 1 = n /\ i \in 1..n
    BY <1>1, <2>2
  <2>4. /\ pc' \in {"idle", "emptied"} /\ made' = made
        /\ chain' = Without(n - 1) /\ ret' = [of |-> "popTail", val |-> mem[tail].data]
        /\ mem' = [mem EXCEPT ![prev].next = NULL]
    BY <1>4 DEF PopTailReturns, AfterRemoval, Return
  <2>5. prev \in Nodes /\ NULL \in Pointers
    BY <1>1, <2>2, <2>3 DEF Pointers
  <2>6. \A a \in Nodes : mem'[a].data = mem[a].data
    BY <2>4, <2>5, LinkSet
  <2>7. Elements' = List!Without(n - 1) /\ Elements[n] = mem[chain[n]].data
    BY <1>1, <2>3, <2>4, <2>6, RefTake
  <2>8. RunningCall' = List!NoCall
    BY <2>4 DEF RunningCall, List!NoCall
  <2>9. lives' = lives
    BY <1>1, <2>4
  <2>10. List!PopTail
    BY <1>2, <1>3, <2>2, <2>3, <2>4, <2>7, <2>8, <2>9
       DEF List!PopTail, List!Running, List!Take, List!Answer
  <2> QED
    BY <2>10 DEF List!Next
<1>5. CASE PopTailOfNone
  <2>1. /\ tail = NULL /\ pc' = "idle" /\ UNCHANGED <<struct, memory, chain>>
        /\ ret' = [of |-> "popTail", val |-> NULL]
    BY <1>1, <1>5 DEF PopTailOfNone, Answer, Return
  <2>2. chain = << >>
    <3>1. made
      BY <1>1 DEF ListInv, WalkSound
    <3>2. ASSUME chain # << >> PROVE FALSE
      <4>1. n \in 1..n
        BY <1>1, <3>2
      <4>2. tail = chain[n]
        BY <3>1, <3>2 DEF ListInv, ListSound
      <4> QED
        BY <1>1, <2>1, <4>1, <4>2, ListAssumption
    <3> QED
      BY <3>2
  <2>3. Elements' = Elements /\ RunningCall' = List!NoCall
    BY <1>1, <2>1, ElementsSame DEF memory, RunningCall, List!NoCall
  <2>4. lives' = lives
    BY <1>1, <2>1 DEF struct
  <2>5. List!PopTail
    BY <1>2, <1>3, <2>1, <2>2, <2>3, <2>4 DEF List!PopTail, List!Running, List!Answer
  <2> QED
    BY <2>5 DEF List!Next
<1>6. CASE PopTailDies
  <2>1. tail # NULL /\ prev = NULL /\ Die
    BY <1>6 DEF PopTailDies
  <2>2. i + 1 = n /\ prev = IF i = 0 THEN NULL ELSE chain[i]
    BY <1>1, <2>1, TailPlace
  <2>3. i # 0 => i \in 1..n
    BY <1>1, <2>2
  <2>4. n = 1
    BY <1>1, <2>1, <2>2, <2>3, ListAssumption
  <2>5. List!PopTail
    BY <1>2, <1>3, <2>1, <2>4, RefDies DEF List!PopTail, List!Running
  <2> QED
    BY <2>5 DEF List!Next
<1> QED
  BY <1>4, <1>5, <1>6

LEMMA RefGet == ListInv /\ GetReturns => List!Next
<1> SUFFICES ASSUME ListInv, GetReturns PROVE List!Next
  OBVIOUS
<1> DEFINE n == Len(chain)
<1> DEFINE lives == made /\ pc # "destroy"
<1>1. /\ pc = "get" /\ pc' = "idle" /\ UNCHANGED <<struct, memory, chain>>
      /\ (cur = NULL \/ i >= arg)
      /\ ret' = [of |-> "get", val |-> IF cur = NULL THEN NULL ELSE mem[cur].data]
  BY DEF GetReturns, Answer, Return
<1>2. RunningCall.op = "get" /\ RunningCall.arg = arg /\ RunningCall' = List!NoCall
  BY <1>1 DEF RunningCall, List!NoCall
<1>3. /\ n \in Nat /\ i \in Nat /\ arg \in Int
      /\ \A j \in 1..n : chain[j] \in Nodes
  BY DEF ListInv, TypeOK
<1>4. /\ i <= n /\ i <= arg
      /\ cur = IF i = n THEN NULL ELSE chain[i + 1]
  BY <1>1 DEF ListInv, WalkSound
<1>5. /\ Elements' = Elements /\ Len(Elements) = n
      /\ \A j \in 1..n : Elements[j] = mem[chain[j]].data
  BY <1>1, ElementsShape, ElementsSame DEF memory
<1>6. ret' = [of |-> "get",
              val |-> IF arg < Len(Elements) THEN Elements[arg + 1] ELSE NULL]
  <2>1. CASE i = n
    <3>1. ~(arg < Len(Elements)) /\ cur = NULL
      BY <1>3, <1>4, <1>5, <2>1
    <3> QED
      BY <1>1, <3>1
  <2>2. CASE i # n
    <3>1. i + 1 \in 1..n
      BY <1>3, <1>4, <2>2
    <3>2. cur = chain[i + 1] /\ cur # NULL
      BY <1>3, <1>4, <2>2, <3>1, ListAssumption
    <3>3. i = arg /\ arg < Len(Elements)
      BY <1>1, <1>3, <1>4, <1>5, <2>2, <3>2
    <3> QED
      BY <1>1, <1>5, <3>1, <3>2, <3>3
  <2> QED
    BY <2>1, <2>2
<1>7. lives' = lives
  BY <1>1 DEF struct
<1>8. List!Get
  BY <1>2, <1>5, <1>6, <1>7 DEF List!Get, List!Running, List!Answer
<1> QED
  BY <1>8 DEF List!Next

LEMMA RefIndexLL == ListInv /\ IndexLLReturns => List!Next
<1> SUFFICES ASSUME ListInv, IndexLLReturns PROVE List!Next
  OBVIOUS
<1> DEFINE n == Len(chain)
<1> DEFINE lives == made /\ pc # "destroy"
<1>1. /\ pc = "indexLL" /\ pc' = "idle" /\ UNCHANGED <<struct, memory, chain>>
      /\ \/ cur = NULL /\ ret' = [of |-> "indexLL", val |-> -1]
         \/ cur # NULL /\ Match /\ ret' = [of |-> "indexLL", val |-> i]
  BY DEF IndexLLReturns, Answer, Return
<1>2. RunningCall.op = "indexLL" /\ RunningCall.arg = arg /\ RunningCall' = List!NoCall
  BY <1>1 DEF RunningCall, List!NoCall
<1>3. /\ n \in Nat /\ i \in Nat
      /\ \A j \in 1..n : chain[j] \in Nodes
  BY DEF ListInv, TypeOK
<1>4. /\ i <= n /\ (\A j \in 1..i : Key[mem[chain[j]].data] # arg)
      /\ cur = IF i = n THEN NULL ELSE chain[i + 1]
  BY <1>1 DEF ListInv, WalkSound
<1>5. /\ Elements' = Elements /\ Len(Elements) = n
      /\ \A j \in 1..n : Elements[j] = mem[chain[j]].data
  BY <1>1, ElementsShape, ElementsSame DEF memory
<1>6. lives' = lives
  BY <1>1 DEF struct
<1>7. i # n => i + 1 \in 1..n /\ cur # NULL
  <2>1. i # n => i + 1 \in 1..n
    BY <1>3, <1>4
  <2> QED
    BY <1>3, <1>4, <2>1, ListAssumption
<1>8. CASE cur = NULL
  <2>1. i = n /\ ret' = [of |-> "indexLL", val |-> -1]
    BY <1>1, <1>7, <1>8
  <2>2. \A j \in 1..Len(Elements) : Key[Elements[j]] # arg
    BY <1>4, <1>5, <2>1
  <2>3. List!Index
    BY <1>2, <1>5, <1>6, <2>1, <2>2 DEF List!Index, List!Running, List!Answer
  <2> QED
    BY <2>3 DEF List!Next
<1>9. CASE cur # NULL
  <2>1. i # n /\ Match /\ ret' = [of |-> "indexLL", val |-> i]
    BY <1>1, <1>4, <1>9
  <2>2. /\ i + 1 \in 1..Len(Elements) /\ (i + 1) - 1 = i
        /\ Key[Elements[i + 1]] = arg
    BY <1>3, <1>4, <1>5, <1>7, <2>1 DEF Match
  <2>3. \A j \in 1..i : Key[Elements[j]] # arg
    BY <1>3, <1>4, <1>5
  <2>4. List!Index
    BY <1>2, <1>5, <1>6, <2>1, <2>2, <2>3 DEF List!Index, List!Running, List!Answer
  <2> QED
    BY <2>4 DEF List!Next
<1> QED
  BY <1>8, <1>9

LEMMA RefDestroy == ListInv /\ DestroyReturns => List!Next
<1> SUFFICES ASSUME ListInv, DestroyReturns PROVE List!Next
  OBVIOUS
<1> DEFINE lives == made /\ pc # "destroy"
<1>1. /\ pc = "destroy" /\ pc' = "idle" /\ made' = FALSE /\ UNCHANGED <<memory, chain>>
      /\ head = NULL /\ ret' = [of |-> "destroy", val |-> 0]
  BY DEF DestroyReturns, Return
<1>2. RunningCall.op = "destroy" /\ RunningCall' = List!NoCall
  BY <1>1 DEF RunningCall, List!NoCall
<1>3. Elements = << >> /\ lives = FALSE /\ lives' = FALSE
  BY <1>1 DEF Elements
<1>4. chain' = << >>
  <2>1. chain \in Seq(Nodes) /\ made
    BY <1>1 DEF ListInv, TypeOK, WalkSound
  <2>2. ASSUME chain # << >> PROVE FALSE
    <3>1. chain[1] \in Nodes
      BY <2>1, <2>2
    <3> QED
      BY <1>1, <2>1, <2>2, <3>1, ListAssumption DEF ListInv, ListSound
  <2> QED
    BY <1>1, <2>2
<1>5. Elements' = << >>
  <2>1. Len(chain') = 0
    BY <1>4
  <2>2. Elements' = [j \in 1..0 |-> mem'[chain'[j]].data]
    BY <1>1, <2>1 DEF Elements
  <2> QED
    BY <2>2
<1>6. List!DestroyReturns
  BY <1>1, <1>2, <1>3, <1>5 DEF List!DestroyReturns, List!Running, List!Answer
<1> QED
  BY <1>6 DEF List!Next

LEMMA RefAborts ==
  ASSUME ListInv, IndexLLAborts \/ \E p \in Positions : NegativeAborts(p)
  PROVE  List!Next
<1> DEFINE lives == made /\ pc # "destroy"
<1>1. pc = "idle" /\ lives /\ Die
  BY DEF IndexLLAborts, NegativeAborts, Idle
<1>2. RunningCall = List!NoCall
  BY <1>1 DEF RunningCall, List!NoCall
<1>3. List!Aborts
  BY <1>1, <1>2, RefDies DEF List!Aborts
<1> QED
  BY <1>3 DEF List!Next

LEMMA RefNext == ListInv /\ [Next]_vars => [List!Next]_(List!vars)
<1> SUFFICES ASSUME ListInv, [Next]_vars PROVE [List!Next]_(List!vars)
  OBVIOUS
<1>1. CASE Client
  <2>1. CASE \/ InsertFails \/ Size \/ Empty
             \/ \E p \in Positions : PopBeyond(p)
    BY <2>1, RefQuiet
  <2>2. CASE \/ PopTail \/ Destroy
             \/ \E p \in Positions : Get(p) \/ Pop(p)
             \/ \E k \in Keys : IndexLL(k)
    BY <2>2, RefWalkCall
  <2>3. CASE \/ InitList \/ PopHead \/ IndexLLAborts
             \/ \E p \in Positions : NegativeAborts(p)
    BY <2>3, RefMake, RefPopHead, RefAborts
  <2>4. ASSUME NEW d \in Data, Insert(d) PROVE List!Next
    BY <2>4, RefInsert
  <2> QED
    BY <1>1, <2>1, <2>2, <2>3, <2>4 DEF Client
<1>2. CASE Step
  <2>1. CASE GetTurn \/ IndexLLTurn \/ PopTurn \/ PopTailTurn \/ DestroyTurn
    BY <2>1, RefTurn
  <2>2. CASE GetReturns \/ IndexLLReturns \/ PopReturns \/ DestroyReturns
    BY <2>2, RefGet, RefIndexLL, RefPop, RefDestroy
  <2>3. CASE PopTailReturns \/ PopTailOfNone \/ PopTailDies
    BY <2>3, RefPopTail
  <2> QED
    BY <1>2, <2>1, <2>2, <2>3 DEF Step
<1>3. CASE UNCHANGED vars
  BY <1>3, RefTurn
<1> QED
  BY <1>1, <1>2, <1>3 DEF Next

(***************************************************************************)
(* LL.c implements the sequence that LL.h promises: every call, with all   *)
(* the turns of its loop, has the effect and the result of one step of     *)
(* ListSpec.                                                               *)
(***************************************************************************)
THEOREM PointersImplementSequence == Spec => ImplementsList
<1>1. ListInv /\ [Next]_vars => [List!Next]_(List!vars)
  BY RefNext
<1> QED
  BY <1>1, RefInit, ListInvariant, PTL DEF Spec, ImplementsList, List!Spec
=============================================================================
