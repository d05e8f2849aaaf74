---------------------------- MODULE RequestQueue ----------------------------
(***************************************************************************)
(* What thread_pool.c promises of its list: a request that was put waits    *)
(* until a thread opens up, and the threads take the requests in the order  *)
(* of their arrival, each one once.  Requests are numbered as they arrive.  *)
(***************************************************************************)
EXTENDS Integers, Sequences

CONSTANTS
  Consumers,    \* the threads that serve
  None          \* not a request

VARIABLES
  arrived,      \* how many requests were put
  waiting,      \* those not taken, in order
  serving       \* what each thread serves

vars == <<arrived, waiting, serving>>

Init ==
  /\ arrived = 0
  /\ waiting = <<>>
  /\ serving = [c \in Consumers |-> None]

Put ==
  /\ arrived' = arrived + 1
  /\ waiting' = Append(waiting, arrived')
  /\ UNCHANGED serving

Take(c) ==
  /\ waiting # <<>> /\ serving[c] = None
  /\ serving' = [serving EXCEPT ![c] = Head(waiting)]
  /\ waiting' = Tail(waiting)
  /\ UNCHANGED arrived

Finish(c) ==
  /\ serving[c] # None
  /\ serving' = [serving EXCEPT ![c] = None]
  /\ UNCHANGED <<arrived, waiting>>

Next == Put \/ \E c \in Consumers : Take(c) \/ Finish(c)

Spec == Init /\ [][Next]_vars
=============================================================================
