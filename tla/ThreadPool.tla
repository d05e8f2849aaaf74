----------------------------- MODULE ThreadPool -----------------------------
(***************************************************************************)
(* The running web server of HW1: main() calls server_fork(), whose main    *)
(* thread accepts connections and hands each one to the thread pool of      *)
(* thread_pool.c through the linked list of ll_double.c.                    *)
(*                                                                         *)
(* One action is one pthread call or one statement on shared memory.       *)
(* Several statements are not protected by queue_lock: `finish` at line    *)
(* 44, `queue_size` at line 47 after a request was served, and everything  *)
(* once a thread has lost the mutex it believes it holds.                  *)
(*                                                                         *)
(* pthread_cond_wait() called by a thread that does not hold the mutex is  *)
(* undefined behaviour: here it either releases the mutex, whoever holds   *)
(* it, or leaves it alone.  The history variable `broken` records that a   *)
(* mutex was released under the thread that held it.  From then on the     *)
(* critical sections race with each other, and only TypeOK is claimed.     *)
(***************************************************************************)
EXTENDS Integers, FiniteSets

CONSTANTS
  Consumers,        \* the threads start_threads() creates (NUM_THREADS = 16)
  Main,             \* the main thread, in server_fork()
  None,             \* a null pointer, or a free mutex
  NumRequests,      \* bound: how many connections ever arrive
  Paced,            \* TRUE: connections and ends of replies come one by one
  SpuriousWakeups   \* TRUE: pthread_cond_wait() may return unsignalled

Requests == 1 .. NumRequests
Threads  == Consumers \cup {Main}

ASSUME PoolAssumption ==
  /\ NumRequests \in Nat
  /\ Main \notin Consumers
  /\ None \notin Threads
  /\ None \notin Nat
  /\ Paced \in BOOLEAN
  /\ SpuriousWakeups \in BOOLEAN

VARIABLES
  pc,                    \* the line each thread executes next
  lock,                  \* queue_lock: the thread that holds it, or None
  waiters,               \* threads blocked on queue_not_empty
  broken,                \* history: a mutex was released under its holder
  head, tail, prev,      \* the list; a node is named by its request
  queue_size,
  highest,               \* history: the highest value queue_size ever had
  accepted,              \* how many connections accept_client() has returned
  stage,                 \* where each request is in its life
  req,                   \* the local variable `request` of each consumer
  operations_completed,
  finish, done,          \* the flags of finish_threads() and of SIGTERM
  ended                  \* "no", or how the process ended: "crash", "exit"

syncVars == <<lock, waiters, broken>>
listVars == <<head, tail, prev, queue_size, highest>>
lifeVars == <<accepted, stage, req, operations_completed>>
flagVars == <<finish, done, ended>>
vars == <<pc, syncVars, listVars, lifeVars, flagVars>>

\* Program points inside a critical section, by the code's own reckoning.
ConsumerSection == {"check", "woken", "fetch", "decrement", "unlock"}
MainSection     == {"insert", "increment", "signal", "putUnlock", "finSet",
                    "finBroadcast", "finUnlock"}
ConsumerPoints  == ConsumerSection \cup {"loop", "lock", "recheck", "wait",
                    "waiting", "relock", "serve", "free", "done"}
MainPoints      == MainSection \cup {"while", "accept", "putLock", "finLock",
                    "join", "returned"}

InSection(t) == pc[t] \in ConsumerSection \cup MainSection
Quiet        == \A t \in Threads : ~InSection(t)
Queued       == {r \in Requests : stage[r] = "queued"}

\* Every thread is at rest: in accept(), in the wait, or in a reply.
Settled ==
  /\ pc[Main] \in {"while", "accept"}
  /\ \A c \in Consumers : pc[c] \in {"waiting", "serve"}

-----------------------------------------------------------------------------
(* start_threads(): the mutex is free, the list empty, and every consumer  *)
(* at the top of consumer().  A thread not yet created is one that has not *)
(* been scheduled.                                                         *)
Init ==
  /\ pc = [t \in Threads |-> IF t = Main THEN "while" ELSE "loop"]
  /\ lock = None /\ waiters = {} /\ broken = FALSE
  /\ head = None /\ tail = None /\ prev = [r \in Requests |-> None]
  /\ queue_size = 0 /\ highest = 0
  /\ accepted = 0
  /\ stage = [r \in Requests |-> "none"]
  /\ req = [c \in Consumers |-> None]
  /\ operations_completed = 0
  /\ finish = FALSE /\ done = FALSE /\ ended = "no"

At(t, from)     == ended = "no" /\ pc[t] = from
Go(t, from, to) == At(t, from) /\ pc' = [pc EXCEPT ![t] = to]

Acquire(t) == lock = None /\ lock' = t /\ UNCHANGED <<waiters, broken>>

\* An unlock frees the mutex even when another thread holds it.
Drop(t) == lock' = None /\ broken' = (broken \/ lock \notin {None, t})
Release(t) == Drop(t) /\ UNCHANGED waiters

-----------------------------------------------------------------------------
(* consumer(), thread_pool.c:42-73.                                        *)

\* Line 44.  Reached with the mutex held when line 47 found queue_size > 0.
LoopTest(c) ==
  /\ Go(c, "loop", IF finish THEN "done" ELSE "lock")
  /\ UNCHANGED <<syncVars, listVars, lifeVars, flagVars>>

\* Line 45.  A consumer that already holds the mutex blocks here for good.
Lock(c) ==
  /\ Go(c, "lock", "check")
  /\ Acquire(c)
  /\ UNCHANGED <<listVars, lifeVars, flagVars>>

\* Line 47, the first time with the mutex, after a request without it.
QueueTest(c) ==
  /\ \E from \in {"check", "recheck"} :
       Go(c, from, IF queue_size = 0 THEN "wait" ELSE "loop")
  /\ UNCHANGED <<syncVars, listVars, lifeVars, flagVars>>

\* Line 48, going to sleep, perhaps without the mutex.
Wait(c) ==
  /\ Go(c, "wait", "waiting")
  /\ waiters' = waiters \cup {c}
  /\ \/ Drop(c)
     \/ lock # c /\ UNCHANGED <<lock, broken>>
  /\ UNCHANGED <<listVars, lifeVars, flagVars>>

\* Line 48, POSIX allows a wait to return without a signal.
SpuriousWake(c) ==
  /\ SpuriousWakeups
  /\ Go(c, "waiting", "relock")
  /\ waiters' = waiters \ {c}
  /\ UNCHANGED <<lock, broken, listVars, lifeVars, flagVars>>

\* Variant: the wait returns without the mutex.
RelockUnowned(c) ==
  /\ Go(c, "relock", "woken")
  /\ UNCHANGED <<syncVars, listVars, lifeVars, flagVars>>

\* Line 48, returning.
Relock(c) ==
  /\ Go(c, "relock", "woken")
  /\ Acquire(c)
  /\ UNCHANGED <<listVars, lifeVars, flagVars>>

\* Variant: the consumer does not look at finish.
FinishTestMissing(c) ==
  /\ Go(c, "woken", "fetch")
  /\ UNCHANGED <<syncVars, listVars, lifeVars, flagVars>>

\* Lines 49-52.  The request that woke the consumer stays in the list.
FinishTest(c) ==
  /\ \/ finish /\ Go(c, "woken", "loop") /\ Release(c)
     \/ ~finish /\ Go(c, "woken", "fetch") /\ UNCHANGED syncVars
  /\ UNCHANGED <<listVars, lifeVars, flagVars>>

\* Variant: the tail does not move.
UnlinkNothing == UNCHANGED <<head, tail, prev>>

\* Variant: an empty list keeps its head.
UnlinkKeepHead ==
  /\ tail' = prev[tail]
  /\ prev' = IF tail' = None THEN prev ELSE [prev EXCEPT ![tail'] = None]
  /\ UNCHANGED head

\* ll_remove_tail() on a list that is not empty.  The new tail's prev is
\* set to NULL, which detaches every newer node from it.
Unlink ==
  /\ tail' = prev[tail]
  /\ IF tail' = None
     THEN head' = None /\ UNCHANGED prev
     ELSE prev' = [prev EXCEPT ![tail'] = None] /\ UNCHANGED head

\* Line 53.  On an empty list ll_remove_tail() returns NULL, whose ->data
\* the consumer reads.  queue_size is not tested again after the wait.
Fetch(c) ==
  /\ \/ /\ At(c, "fetch") /\ tail = None
        /\ ended' = "crash"
        /\ UNCHANGED <<pc, listVars, req, stage>>
     \/ /\ Go(c, "fetch", "decrement") /\ tail # None
        /\ req' = [req EXCEPT ![c] = tail]
        /\ stage' = [stage EXCEPT ![tail] = "fetched"]
        /\ Unlink
        /\ UNCHANGED <<queue_size, highest, ended>>
  /\ UNCHANGED <<syncVars, accepted, operations_completed, finish, done>>

\* Variant: the decrement is missing.
DecrementMissing(c) ==
  /\ Go(c, "decrement", "unlock")
  /\ UNCHANGED <<syncVars, listVars, lifeVars, flagVars>>

\* Line 54.
Decrement(c) ==
  /\ Go(c, "decrement", "unlock")
  /\ queue_size' = queue_size - 1
  /\ UNCHANGED <<syncVars, head, tail, prev, highest, lifeVars, flagVars>>

\* Line 55.
Unlock(c) ==
  /\ Go(c, "unlock", "serve")
  /\ Release(c)
  /\ UNCHANGED <<listVars, lifeVars, flagVars>>

\* Lines 58-65: read_request() and write_reply() (module ClientService),
\* and the count of those that ended with STATUS_OK.  Many replies can be under
\* way; this is the end of one.
Serve(c) ==
  /\ Go(c, "serve", "free")
  /\ Paced => Settled
  /\ \E ok \in {0, 1} : operations_completed' = operations_completed + ok
  /\ UNCHANGED <<syncVars, listVars, accepted, stage, req, flagVars>>

\* Lines 67-68, and back to line 47 without the mutex.
FreeRequest(c) ==
  /\ Go(c, "free", "recheck")
  /\ stage' = [stage EXCEPT ![req[c]] = "freed"]
  /\ req' = [req EXCEPT ![c] = None]
  /\ UNCHANGED <<syncVars, listVars, accepted, operations_completed, flagVars>>

ConsumerStep(c) ==
  \/ LoopTest(c) \/ Lock(c) \/ QueueTest(c) \/ Wait(c) \/ Relock(c)
  \/ FinishTest(c) \/ Fetch(c) \/ Decrement(c) \/ Unlock(c) \/ Serve(c)
  \/ FreeRequest(c)

-----------------------------------------------------------------------------
(* The main thread: server_fork.c:56-97, put_request(), finish_threads().  *)

\* server_fork.c:56.
WhileTest ==
  /\ Go(Main, "while", IF done THEN "finLock" ELSE "accept")
  /\ UNCHANGED <<syncVars, listVars, lifeVars, flagVars>>

\* server_fork.c:60-70: a connection, or an error other than EINTR, whose
\* socket -1 becomes a client just the same.
Accept ==
  /\ Go(Main, "accept", "putLock")
  /\ accepted < NumRequests
  /\ Paced => Settled /\ waiters # {}
  /\ accepted' = accepted + 1
  /\ stage' = [stage EXCEPT ![accepted'] = "accepted"]
  /\ UNCHANGED <<syncVars, listVars, req, operations_completed, flagVars>>

\* server_fork.c:63-65: any handled signal interrupts accept_client().
AcceptInterrupted ==
  /\ Go(Main, "accept", "while")
  /\ UNCHANGED <<syncVars, listVars, lifeVars, flagVars>>

\* termHandler(), in whichever thread the signal is delivered to.
Sigterm ==
  /\ ended = "no" /\ ~done
  /\ done' = TRUE
  /\ UNCHANGED <<pc, syncVars, listVars, lifeVars, finish, ended>>

\* Variant: the mutex is not taken.
MainLockMissing(from, to) ==
  /\ Go(Main, from, to)
  /\ UNCHANGED <<syncVars, listVars, lifeVars, flagVars>>

\* thread_pool.c:33 and, for finish_threads(), line 89.
MainLock(from, to) ==
  /\ Go(Main, from, to)
  /\ Acquire(Main)
  /\ UNCHANGED <<listVars, lifeVars, flagVars>>

\* Variant: the newest request goes to the tail.
InsertLast ==
  /\ Go(Main, "insert", "increment")
  /\ tail' = accepted
  /\ prev' = [prev EXCEPT ![accepted] = tail]
  /\ head' = IF head = None THEN accepted ELSE head
  /\ UNCHANGED <<syncVars, queue_size, highest, lifeVars, flagVars>>

\* thread_pool.c:36, ll_insert_head(); the next pointers are never read.
Insert ==
  /\ Go(Main, "insert", "increment")
  /\ head' = accepted
  /\ IF head = None
     THEN tail' = accepted /\ UNCHANGED prev
     ELSE prev' = [prev EXCEPT ![head] = accepted] /\ UNCHANGED tail
  /\ UNCHANGED <<syncVars, queue_size, highest, lifeVars, flagVars>>

\* thread_pool.c:37.
Increment ==
  /\ Go(Main, "increment", "signal")
  /\ queue_size' = queue_size + 1
  /\ highest' = IF queue_size' > highest THEN queue_size' ELSE highest
  /\ stage' = [stage EXCEPT ![accepted] = "queued"]
  /\ UNCHANGED <<syncVars, head, tail, prev, accepted, req,
                 operations_completed, flagVars>>

\* All waiters wake: each must take the mutex again.
WakeAll(from, to) ==
  /\ At(Main, from)
  /\ waiters' = {}
  /\ pc' = [t \in Threads |-> IF t = Main THEN to
                              ELSE IF t \in waiters THEN "relock" ELSE pc[t]]
  /\ UNCHANGED <<lock, broken, listVars, lifeVars, flagVars>>

\* Variant: every waiter wakes.
SignalAll == WakeAll("signal", "putUnlock")

\* Variant: nobody wakes.
SignalNone ==
  /\ Go(Main, "signal", "putUnlock")
  /\ UNCHANGED <<syncVars, listVars, lifeVars, flagVars>>

\* thread_pool.c:38: one waiter wakes, if there is one.
Signal ==
  /\ \/ /\ waiters = {} /\ Go(Main, "signal", "putUnlock")
        /\ UNCHANGED waiters
     \/ /\ At(Main, "signal")
        /\ \E c \in waiters :
             /\ waiters' = waiters \ {c}
             /\ pc' = [pc EXCEPT ![Main] = "putUnlock", ![c] = "relock"]
  /\ UNCHANGED <<lock, broken, listVars, lifeVars, flagVars>>

\* thread_pool.c:39, and line 92 for finish_threads().
MainUnlock(from, to) ==
  /\ Go(Main, from, to)
  /\ Release(Main)
  /\ UNCHANGED <<listVars, lifeVars, flagVars>>

\* thread_pool.c:90.
FinishSet ==
  /\ Go(Main, "finSet", "finBroadcast")
  /\ finish' = TRUE
  /\ UNCHANGED <<syncVars, listVars, lifeVars, done, ended>>

\* Variant: the broadcast empties the wait set and wakes nobody.
BroadcastLost ==
  /\ Go(Main, "finBroadcast", "finUnlock")
  /\ waiters' = {}
  /\ UNCHANGED <<lock, broken, listVars, lifeVars, flagVars>>

\* thread_pool.c:91.
FinishBroadcast == WakeAll("finBroadcast", "finUnlock")

\* thread_pool.c:93-95 and server_fork.c:97.  threads[] was never assigned:
\* joining its null entries is undefined.  It fails at once, and main()
\* returns, or it crashes.
JoinAndReturn ==
  /\ Go(Main, "join", "returned")
  /\ ended' \in {"exit", "crash"}
  /\ UNCHANGED <<syncVars, listVars, lifeVars, finish, done>>

MainStep ==
  \/ WhileTest \/ MainLock("putLock", "insert") \/ Insert \/ Increment
  \/ Signal \/ MainUnlock("putUnlock", "while")
  \/ MainLock("finLock", "finSet") \/ FinishSet \/ FinishBroadcast
  \/ MainUnlock("finUnlock", "join") \/ JoinAndReturn

-----------------------------------------------------------------------------
Next ==
  \/ MainStep \/ Accept \/ AcceptInterrupted \/ Sigterm
  \/ \E c \in Consumers : ConsumerStep(c) \/ SpuriousWake(c)

Spec == Init /\ [][Next]_vars

\* The kernel runs every thread that can run, and a peer answers or hangs
\* up (Serve).  Connections and signals need not come.
Fairness ==
  /\ WF_vars(MainStep)
  /\ \A c \in Consumers : WF_vars(ConsumerStep(c))
FairSpec == Spec /\ Fairness

-----------------------------------------------------------------------------
(* What holds of the code as it stands.                                    *)

Fetching == {"decrement", "unlock", "serve", "free"}
Putting  == {"putLock", "insert", "increment", "signal", "putUnlock"}

\* Every variable keeps its type; the waiters are the threads blocked in
\* pthread_cond_wait(); a thread between fetching and freeing has a
\* request, and put_request() has one to put.
TypeOK ==
  /\ pc \in [Threads -> ConsumerPoints \cup MainPoints]
  /\ pc[Main] \in MainPoints
  /\ \A c \in Consumers : pc[c] \in ConsumerPoints
  /\ lock \in Threads \cup {None}
  /\ waiters = {c \in Consumers : pc[c] = "waiting"}
  /\ broken \in BOOLEAN
  /\ head \in Requests \cup {None}
  /\ tail \in Requests \cup {None}
  /\ prev \in [Requests -> Requests \cup {None}]
  /\ queue_size \in Int
  /\ highest \in Int
  /\ accepted \in 0 .. NumRequests
  /\ pc[Main] \in Putting => accepted # 0
  /\ stage \in [Requests -> {"none", "accepted", "queued", "fetched", "freed"}]
  /\ req \in [Consumers -> Requests \cup {None}]
  /\ \A c \in Consumers : pc[c] \in Fetching => req[c] # None
  /\ operations_completed \in Nat
  /\ finish \in BOOLEAN
  /\ done \in BOOLEAN
  /\ ended \in {"no", "crash", "exit"}

\* The critical sections of put_request(), consumer() and finish_threads()
\* exclude each other until the first time a mutex is released under its
\* holder: whoever is in one holds queue_lock.
Exclusion == ~broken => \A t \in Threads : InSection(t) => lock = t

\* The only call that can release a mutex under its holder is the
\* pthread_cond_wait() of a consumer that came back to line 47 without it.
UnownedWait(c) == pc[c] = "wait" /\ lock # c /\ lock # None
OnlyUnownedWait ==
  [][~broken /\ broken' => \E c \in Consumers : UnownedWait(c)]_vars

\* While the mutex is respected queue_size++ and queue_size-- lose no
\* update: outside the sections queue_size counts the waiting requests.
QueueSizeAgrees == ~broken /\ Quiet => queue_size = Cardinality(Queued)

\* As long as no more than two requests ever waited, the list holds exactly
\* the waiting ones, oldest at the tail: requests are served in order.
ListIntact ==
  ~broken /\ Quiet /\ highest <= 2 =>
     /\ (head = None) = (Queued = {})
     /\ (tail = None) = (Queued = {})
     /\ \A r \in Queued : tail <= r /\ r <= head
     /\ \A r \in Queued : prev[r] = IF r = head THEN None ELSE r + 1

\* No request is served by two consumers, or used after free(request):
\* line 53 gives each request away once.
ServedOnce ==
  ~broken => \A c, d \in Consumers :
     /\ pc[c] \in Fetching => stage[req[c]] = "fetched"
     /\ pc[c] \in Fetching /\ pc[d] \in Fetching /\ c # d => req[c] # req[d]

\* finish_threads() never cuts in between the test of `finish` and the unlock of
\* a consumer, and from then on no request is taken: those still waiting stay
\* in the list.
NoneTakenAfterFinish ==
  ~broken /\ finish =>
     \A c \in Consumers : pc[c] \notin {"fetch", "decrement", "unlock"}

-----------------------------------------------------------------------------
(* What holds when each connection finds the threads at rest and one of    *)
(* them waiting, and so does the end of each reply (Paced), no wakeup is   *)
(* spurious and nobody asks the server to stop, and not otherwise.         *)

SelfDeadlocked(c) == pc[c] = "lock" /\ lock = c

\* The pool reaches none of its undefined states: nothing crashes, the
\* mutex is never released under its holder, no consumer locks it twice.
PacedSafe ==
  ~done => /\ ended = "no"
           /\ ~broken
           /\ \A c \in Consumers : ~SelfDeadlocked(c)

\* "The request will be taken care of when a thread opens up"
\* (thread_pool.c:32): every accepted connection is served and freed.
EveryRequestServed ==
  \A r \in Requests :
     stage[r] = "accepted" ~> (stage[r] = "freed" \/ done)
=============================================================================
