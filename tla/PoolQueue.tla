----------------------------- MODULE PoolQueue -----------------------------
(***************************************************************************)
(* The list of ThreadPool as a queue: how its pointers, and the local       *)
(* variables of the consumers, implement RequestQueue.                     *)
(***************************************************************************)
EXTENDS ThreadPool, Sequences

\* The nodes from the tail on, as ll_remove_tail() will meet them.
FromTail[k \in 0 .. NumRequests] ==
  IF k = 0 THEN tail
  ELSE IF FromTail[k - 1] = None THEN None ELSE prev[FromTail[k - 1]]

Waiting ==
  [k \in 1 .. Cardinality({j \in DOMAIN FromTail : FromTail[j] # None})
     |-> FromTail[k - 1]]

\* A connection arrives in the queue at line 36 of thread_pool.c.
Arrived == IF pc[Main] \in {"putLock", "insert"} THEN accepted - 1 ELSE accepted

Queue == INSTANCE RequestQueue WITH
           arrived <- Arrived, waiting <- Waiting, serving <- req

\* As long as the mutex is respected and no more than two requests ever
\* waited, every step of the pool is a step of the queue or leaves it alone:
\* requests are given away in the order of arrival, each once, to a thread that
\* serves no other, and none is lost in the list.  With three waiting,
\* ll_remove_tail() loses the newest.
ServedInOrder ==
  /\ Queue!Init
  /\ [][~broken /\ highest' <= 2 => [Queue!Next]_(Queue!vars)]_vars
=============================================================================
