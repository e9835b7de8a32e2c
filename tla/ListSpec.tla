------------------------------ MODULE ListSpec ------------------------------
(***************************************************************************)
(* What LL.h promises: a list is a sequence.  insert adds at the end, get  *)
(* and pop count from 0, a call has its effect at one moment.              *)
(***************************************************************************)
EXTENDS Integers, Sequences

CONSTANTS
  Data,   \* what is kept: the FTEs of libTinyFS.c
  Key,    \* the number compare looks at: their fd
  Positions, Keys, \* what a client asks for
  NULL    \* no data; no argument

VARIABLES
  made,   \* whether there is a list
  seq,    \* its elements
  call,   \* the call that runs, with its argument; NoCall between calls
  ret     \* which call returned last, and what

vars == <<made, seq, call, ret>>

NoRet == [of |-> "none", val |-> NULL]

NoCall == [op |-> "none", arg |-> NULL]

Init == made = FALSE /\ seq = << >> /\ call = NoCall /\ ret = NoRet

Begin(op, arg) == call = NoCall /\ call' = [op |-> op, arg |-> arg] /\ ret' = NoRet

Running(op) == call.op = op

Answer(op, v) == call' = NoCall /\ ret' = [of |-> op, val |-> v]

(* The sequence without the element at position i. *)
Without(i) ==
  [j \in 1..(Len(seq) - 1) |-> IF j <= i THEN seq[j] ELSE seq[j + 1]]

Take(op, i) == seq' = Without(i) /\ Answer(op, seq[i + 1])

(* The process ends, and the list with it. *)
Dies == made' = FALSE /\ seq' = << >> /\ call' = NoCall /\ ret' = NoRet

Make ==
  /\ call = NoCall /\ ~made
  /\ \/ made' = TRUE /\ Answer("init", 0)
     \/ made' = FALSE /\ Answer("init", -1)
  /\ UNCHANGED seq

Insert(d) ==
  /\ call = NoCall /\ made
  /\ seq' = Append(seq, d) /\ Answer("insert", 0)
  /\ UNCHANGED made

(* There is no memory for a node. *)
InsertFails ==
  call = NoCall /\ made /\ Answer("insert", -1) /\ UNCHANGED <<made, seq>>

Size == call = NoCall /\ Answer("size", Len(seq)) /\ UNCHANGED <<made, seq>>

Empty == call = NoCall /\ Answer("empty", seq = << >>) /\ UNCHANGED <<made, seq>>

(* The calls that walk. *)
Walk(op, arg) == Begin(op, arg) /\ UNCHANGED <<made, seq>>

(* indexLL refuses the key 0, get and pop a negative position, by an       *)
(* assertion.                                                              *)
Aborts == call = NoCall /\ made /\ Dies

Get ==
  /\ Running("get")
  /\ Answer("get", IF call.arg < Len(seq) THEN seq[call.arg + 1] ELSE NULL)
  /\ UNCHANGED <<made, seq>>

(* The first element that has the key, by position. *)
Index ==
  /\ Running("indexLL")
  /\ UNCHANGED <<made, seq>>
  /\ \/ /\ \A j \in 1..Len(seq) : Key[seq[j]] # call.arg
        /\ Answer("indexLL", -1)
     \/ \E i \in 1..Len(seq) :
          /\ Key[seq[i]] = call.arg
          /\ \A j \in 1..(i - 1) : Key[seq[j]] # call.arg
          /\ Answer("indexLL", i - 1)

(* Without a walk at position 0, and past the end, where there is nothing. *)
PopAtOnce ==
  /\ call = NoCall
  /\ UNCHANGED made
  /\ \/ seq # << >> /\ Take("pop", 0)
     \/ /\ seq = << >> \/ \E p \in Positions : p > Len(seq)
        /\ UNCHANGED seq /\ Answer("pop", NULL)

Pop ==
  /\ Running("pop")
  /\ call.arg \in 0..(Len(seq) - 1)
  /\ Take("pop", call.arg)
  /\ UNCHANGED made

(* The last element; what the call does to the only one is not defined.    *)
PopTail ==
  /\ Running("popTail")
  /\ \/ /\ Len(seq) > 1
        /\ Take("popTail", Len(seq) - 1)
        /\ UNCHANGED made
     \/ /\ seq = << >>
        /\ Answer("popTail", NULL)
        /\ UNCHANGED <<made, seq>>
     \/ Len(seq) = 1 /\ Dies

(* The list is gone when the call begins. *)
DestroyBegins ==
  /\ Begin("destroy", NULL) /\ made' = FALSE /\ seq' = << >>

DestroyReturns ==
  Running("destroy") /\ Answer("destroy", 0) /\ UNCHANGED <<made, seq>>

Next ==
  \/ Make \/ (\E d \in Data : Insert(d)) \/ InsertFails \/ Size \/ Empty
  \/ \E p \in Positions : Walk("get", p) \/ Walk("pop", p)
  \/ \E k \in Keys : Walk("indexLL", k)
  \/ Walk("popTail", NULL)
  \/ Get \/ Index \/ Aborts \/ PopAtOnce \/ Pop \/ PopTail
  \/ DestroyBegins \/ DestroyReturns

Spec == Init /\ [][Next]_vars

=============================================================================
