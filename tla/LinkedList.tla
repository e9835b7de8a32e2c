----------------------------- MODULE LinkedList -----------------------------
(***************************************************************************)
(* The singly linked list of LL.c, pointer by pointer.  A node is freed by *)
(* taking it out of live; its memory keeps what was there, and malloc may  *)
(* give any free node again, so a pointer that is kept too long leads to   *)
(* somebody else's node.  A call that walks takes a step per turn of its   *)
(* loop.                                                                   *)
(*                                                                         *)
(* The client is one that obeys two rules libTinyFS.c keeps to, because    *)
(* popHead and pop do not maintain tail: it destroys a list it has emptied *)
(* (libTinyFS.c:220) before it makes another call, and it does not remove  *)
(* the last of several elements by its position.                           *)
(*                                                                         *)
(* chain is a history variable, read by no action: the nodes of the list   *)
(* in order.                                                               *)
(***************************************************************************)
EXTENDS Integers, Sequences, FiniteSets

CONSTANTS
  Nodes,       \* addresses malloc may return for a Node
  NULL,        \* the null pointer
  Data,        \* data pointers a client inserts
  Key,         \* what comparator compares: the fd of an FTE
  Positions,   \* positions a client passes
  Keys         \* numbers a client looks for

ASSUME ListAssumption ==
  /\ NULL \notin Nodes
  /\ Key \in [Data -> Int]
  /\ Positions \subseteq Int
  /\ Keys \subseteq Int

VARIABLES
  made,              \* whether the LinkedList struct is allocated
  head, tail, count, \* its fields
  mem,               \* the data and the next of every node
  live,              \* the nodes that are allocated
  pc,                \* where the running call is
  arg,               \* its argument, a position or a key
  cur, prev, i,      \* its locals
  ret,               \* which call returned last, and what
  chain              \* history: the nodes of the list

struct == <<made, head, tail, count>>
memory == <<mem, live>>
locals == <<arg, cur, prev, i>>
vars == <<struct, memory, pc, locals, ret, chain>>

Pointers == Nodes \cup {NULL}

PCs == {"idle", "emptied", "get", "indexLL", "pop", "popTail", "destroy"}

NoRet == [of |-> "none", val |-> NULL]

(* Every variable has its type. *)
TypeOK ==
  /\ made \in BOOLEAN
  /\ head \in Pointers /\ tail \in Pointers /\ count \in Nat
  /\ mem \in [Nodes -> [data : Data \cup {NULL}, next : Pointers]]
  /\ live \subseteq Nodes
  /\ pc \in PCs
  /\ arg \in Int /\ cur \in Pointers /\ prev \in Pointers /\ i \in Nat
  /\ chain \in Seq(Nodes)

Init ==
  /\ made = FALSE
  /\ head = NULL /\ tail = NULL /\ count = 0
  /\ mem = [n \in Nodes |-> [data |-> NULL, next |-> NULL]]
  /\ live = {}
  /\ pc = "idle"
  /\ arg = 0 /\ cur = NULL /\ prev = NULL /\ i = 0
  /\ ret = NoRet
  /\ chain = << >>

-----------------------------------------------------------------------------
(* The shape of a call *)

ResetLocals == arg' = 0 /\ cur' = NULL /\ prev' = NULL /\ i' = 0

Return(op, v) == ret' = [of |-> op, val |-> v] /\ ResetLocals

(* The locals of a walk from the head. *)
WalkFrom(op, a) ==
  /\ pc' = op
  /\ arg' = a /\ cur' = head /\ prev' = NULL /\ i' = 0
  /\ ret' = NoRet

(* The client's call on a list. *)
Idle == pc = "idle" /\ made

(* Mutation: the client keeps a list it has emptied. *)
AfterRemovalKeeps(n) == "idle"

(* The client looks at the size after a removal that leaves n elements. *)
AfterRemoval(n) == IF n = 0 THEN "emptied" ELSE "idle"

(* The client's rule on positions; see above. *)
MayPop(p) == p = 0 \/ p # count - 1

Without(p) ==
  [j \in 1..(Len(chain) - 1) |-> IF j <= p THEN chain[j] ELSE chain[j + 1]]

(* A failed assertion, or a null pointer followed: the process ends, and   *)
(* the next one has no list.                                               *)
Die ==
  /\ made' = FALSE
  /\ head' = NULL /\ tail' = NULL /\ count' = 0
  /\ live' = {} /\ UNCHANGED mem
  /\ pc' = "idle"
  /\ ResetLocals
  /\ ret' = NoRet
  /\ chain' = << >>

-----------------------------------------------------------------------------
(* init, insert, size, empty *)

InitList ==
  /\ pc = "idle" /\ ~made
  /\ \/ /\ made' = TRUE
        /\ head' = NULL /\ tail' = NULL /\ count' = 0
        /\ Return("init", 0)
     \/ UNCHANGED struct /\ Return("init", -1)
  /\ UNCHANGED <<memory, pc, chain>>

(* Memory when node n holds d and is linked to the old tail. *)
Linked(n, d) ==
  LET m == [mem EXCEPT ![n] = [data |-> d, next |-> NULL]]
  IN  IF tail = NULL THEN m ELSE [m EXCEPT ![tail].next = n]

Insert(d) ==
  /\ Idle
  /\ \E n \in Nodes \ live :
       /\ live' = live \cup {n}
       /\ mem' = Linked(n, d)
       /\ head' = IF count = 0 THEN n ELSE head
       /\ tail' = n
       /\ count' = count + 1
       /\ chain' = Append(chain, n)
  /\ Return("insert", 0)
  /\ UNCHANGED <<made, pc>>

InsertFails ==
  /\ Idle
  /\ Return("insert", -1)
  /\ UNCHANGED <<struct, memory, pc, chain>>

Size == Idle /\ Return("size", count) /\ UNCHANGED <<struct, memory, pc, chain>>

Empty ==
  Idle /\ Return("empty", count = 0) /\ UNCHANGED <<struct, memory, pc, chain>>

-----------------------------------------------------------------------------
(* get and indexLL *)

(* One turn of the loop of get, indexLL, popTail or pop.  Two of them keep *)
(* no prev, one no count: it is kept here for all.                         *)
Advance ==
  /\ cur' = mem[cur].next
  /\ prev' = cur
  /\ i' = i + 1
  /\ UNCHANGED <<struct, memory, pc, arg, ret, chain>>

Answer(v) ==
  /\ Return(pc, v)
  /\ pc' = "idle"
  /\ UNCHANGED <<struct, memory, chain>>

Get(p) ==
  Idle /\ p >= 0 /\ WalkFrom("get", p) /\ UNCHANGED <<struct, memory, chain>>

(* get and pop assert that a position is not negative. *)
NegativeAborts(p) == Idle /\ p < 0 /\ Die

GetTurn == pc = "get" /\ cur # NULL /\ i < arg /\ Advance

GetReturns ==
  /\ pc = "get"
  /\ cur = NULL \/ i >= arg
  /\ Answer(IF cur = NULL THEN NULL ELSE mem[cur].data)

(* The assertion on data refuses the key 0. *)
IndexLL(k) ==
  Idle /\ k # 0 /\ WalkFrom("indexLL", k) /\ UNCHANGED <<struct, memory, chain>>

IndexLLAborts == Idle /\ 0 \in Keys /\ Die

Match == Key[mem[cur].data] = arg

IndexLLTurn == pc = "indexLL" /\ cur # NULL /\ ~Match /\ Advance

IndexLLReturns ==
  /\ pc = "indexLL"
  /\ \/ cur = NULL /\ Answer(-1)
     \/ cur # NULL /\ Match /\ Answer(i)

-----------------------------------------------------------------------------
(* pop, popHead, popTail *)

(* Mutation: the count is lowered for a list without a node too. *)
PopHeadUncounted ==
  /\ Idle
  /\ IF head # NULL
       THEN /\ Return("pop", mem[head].data)
            /\ head' = mem[head].next
            /\ live' = live \ {head}
            /\ pc' = AfterRemoval(count - 1)
            /\ chain' = Without(0)
       ELSE Return("pop", NULL) /\ UNCHANGED <<head, live, pc, chain>>
  /\ count' = count - 1
  /\ UNCHANGED <<made, tail, mem>>

(* popHead leaves tail as it is. *)
PopHead ==
  /\ Idle
  /\ IF head # NULL
       THEN /\ Return("pop", mem[head].data)
            /\ head' = mem[head].next
            /\ count' = count - 1
            /\ live' = live \ {head}
            /\ pc' = AfterRemoval(count - 1)
            /\ chain' = Without(0)
       ELSE Return("pop", NULL) /\ UNCHANGED <<head, count, live, pc, chain>>
  /\ UNCHANGED <<made, tail, mem>>

(* Position count is taken for that of the last element. *)
Pop(p) ==
  /\ Idle
  /\ p > 0 /\ p <= count /\ MayPop(p)
  /\ IF p = count THEN WalkFrom("popTail", 0) ELSE WalkFrom("pop", p)
  /\ UNCHANGED <<struct, memory, chain>>

PopBeyond(p) ==
  /\ Idle
  /\ p > count
  /\ Return("pop", NULL)
  /\ UNCHANGED <<struct, memory, pc, chain>>

(* Mutation: the loop makes one turn too many. *)
PopTurnTooFar ==
  pc = "pop" /\ cur # NULL /\ i <= arg /\ Advance

PopTurn == pc = "pop" /\ cur # NULL /\ i <= arg - 1 /\ Advance

(* Mutation: the node stays linked. *)
PopReturnsLinked ==
  /\ pc = "pop"
  /\ i > arg - 1
  /\ Return("pop", mem[cur].data)
  /\ live' = live \ {cur}
  /\ count' = count - 1
  /\ pc' = AfterRemoval(count - 1)
  /\ chain' = Without(arg)
  /\ UNCHANGED <<made, head, tail, mem>>

(* It unlinks the node behind prev.  A walk that ended early would follow  *)
(* the null pointer here.                                                  *)
PopReturns ==
  /\ pc = "pop"
  /\ i > arg - 1
  /\ Return("pop", mem[cur].data)
  /\ mem' = [mem EXCEPT ![prev].next = mem[cur].next]
  /\ live' = live \ {cur}
  /\ count' = count - 1
  /\ pc' = AfterRemoval(count - 1)
  /\ chain' = Without(arg)
  /\ UNCHANGED <<made, head, tail>>

PopTail == Idle /\ WalkFrom("popTail", 0) /\ UNCHANGED <<struct, memory, chain>>

PopTailTurn ==
  pc = "popTail" /\ cur # NULL /\ mem[cur].next # NULL /\ Advance

AtTail == pc = "popTail" /\ (cur # NULL => mem[cur].next = NULL)

(* Mutation: the node is not freed. *)
PopTailReturnsUnfreed ==
  /\ AtTail
  /\ tail # NULL /\ prev # NULL
  /\ Return("popTail", mem[tail].data)
  /\ tail' = prev
  /\ mem' = [mem EXCEPT ![prev].next = NULL]
  /\ count' = count - 1
  /\ pc' = AfterRemoval(count - 1)
  /\ chain' = Without(Len(chain) - 1)
  /\ UNCHANGED <<made, head, live>>

PopTailReturns ==
  /\ AtTail
  /\ tail # NULL /\ prev # NULL
  /\ Return("popTail", mem[tail].data)
  /\ tail' = prev
  /\ mem' = [mem EXCEPT ![prev].next = NULL]
  /\ live' = live \ {tail}
  /\ count' = count - 1
  /\ pc' = AfterRemoval(count - 1)
  /\ chain' = Without(Len(chain) - 1)
  /\ UNCHANGED <<made, head>>

PopTailOfNone == AtTail /\ tail = NULL /\ Answer(NULL)

(* The only element: tail becomes NULL and is followed. *)
PopTailDies == AtTail /\ tail # NULL /\ prev = NULL /\ Die

-----------------------------------------------------------------------------
(* destroy *)

Destroy ==
  /\ made /\ pc \in {"idle", "emptied"}
  /\ WalkFrom("destroy", 0)
  /\ UNCHANGED <<struct, memory, chain>>

(* Mutation: the head does not move. *)
DestroyTurnStays ==
  /\ pc = "destroy" /\ head # NULL
  /\ live' = live \ {head}
  /\ UNCHANGED <<struct, mem, pc, locals, ret, chain>>

DestroyTurn ==
  /\ pc = "destroy" /\ head # NULL
  /\ head' = mem[head].next
  /\ live' = live \ {head}
  /\ chain' = Without(0)
  /\ UNCHANGED <<made, tail, count, mem, pc, locals, ret>>

DestroyReturns ==
  /\ pc = "destroy" /\ head = NULL
  /\ made' = FALSE /\ tail' = NULL /\ count' = 0
  /\ pc' = "idle"
  /\ Return("destroy", 0)
  /\ UNCHANGED <<head, memory, chain>>

-----------------------------------------------------------------------------
(* The specification *)

Client ==
  \/ InitList \/ InsertFails \/ Size \/ Empty \/ PopHead \/ PopTail \/ Destroy
  \/ IndexLLAborts
  \/ \E d \in Data : Insert(d)
  \/ \E p \in Positions : Get(p) \/ Pop(p) \/ PopBeyond(p) \/ NegativeAborts(p)
  \/ \E k \in Keys : IndexLL(k)

Step ==
  \/ GetTurn \/ GetReturns \/ IndexLLTurn \/ IndexLLReturns
  \/ PopTurn \/ PopReturns
  \/ PopTailTurn \/ PopTailReturns \/ PopTailOfNone \/ PopTailDies
  \/ DestroyTurn \/ DestroyReturns

Next == Client \/ Step

(* A call that walks goes on; the client may stop calling. *)
Spec == Init /\ [][Next]_vars /\ WF_vars(Step)

-----------------------------------------------------------------------------
(* Properties *)

(* The pointers are a list: from head, next leads through chain and ends,  *)
(* count is its length, and tail is the last node, or NULL; but for a list *)
(* that was emptied, which has nothing but a stale tail.                   *)
ListSound ==
  made =>
    /\ head = IF chain = << >> THEN NULL ELSE chain[1]
    /\ \A j \in 1..Len(chain) :
         mem[chain[j]].next = IF j = Len(chain) THEN NULL ELSE chain[j + 1]
    /\ chain # << >> => tail = chain[Len(chain)]
    /\ pc # "destroy" => count = Len(chain)
    /\ chain = << >> /\ pc \notin {"emptied", "destroy"} => tail = NULL

(* Exactly the nodes of the list are allocated, each once in it: none is   *)
(* lost, and none is freed while a pointer leads to it.                    *)
NodesOwned ==
  /\ live = {chain[j] : j \in 1..Len(chain)}
  /\ \A j, k \in 1..Len(chain) : j # k => chain[j] # chain[k]
  /\ ~made => chain = << >>

(* A walk is where its counter says: at node i of the list with prev the   *)
(* node before, or off its end; get and pop do not pass their position,    *)
(* and indexLL passes no node that has the key.                            *)
WalkSound ==
  /\ pc # "idle" => made
  /\ pc \in {"get", "indexLL", "pop", "popTail"} =>
       /\ i <= Len(chain)
       /\ cur = IF i = Len(chain) THEN NULL ELSE chain[i + 1]
       /\ prev = IF i = 0 THEN NULL ELSE chain[i]
       /\ pc = "get" => i <= arg
       /\ pc = "indexLL" => \A j \in 1..i : Key[mem[chain[j]].data] # arg
       /\ pc = "pop" => i <= arg /\ arg \in 1..(Len(chain) - 2)
       /\ pc = "popTail" => chain = << >> \/ i < Len(chain)

(* The list and the call as ListSpec has them. *)
Elements ==
  IF pc = "destroy" THEN << >> ELSE [j \in 1..Len(chain) |-> mem[chain[j]].data]

RunningCall ==
  CASE pc \in {"idle", "emptied"}       -> [op |-> "none", arg |-> NULL]
    [] pc \in {"get", "indexLL", "pop"} -> [op |-> pc, arg |-> arg]
    [] pc \in {"popTail", "destroy"}    -> [op |-> pc, arg |-> NULL]

List == INSTANCE ListSpec WITH
          made <- made /\ pc # "destroy", seq <- Elements,
          call <- RunningCall

(* Every behaviour of the pointers is one of a sequence: a call that walks *)
(* has the effect, and returns what, it has on the sequence at one moment, *)
(* and no call disturbs the elements it is not about.                      *)
ImplementsList == List!Spec

(* Every walk along the list ends, and the call with it. *)
WalksEnd == pc \notin {"idle", "emptied"} ~> pc \in {"idle", "emptied"}

=============================================================================
