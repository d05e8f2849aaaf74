------------------------------- MODULE Threads -------------------------------
(***************************************************************************)
(* The user-level threads of HW2: threads.c and synchronization.c, used as  *)
(* producer-consumer1.c and producer-consumer2.c use them.  The main thread *)
(* creates workers and joins them; a worker may exit.  Every thread runs    *)
(* the loops of the two programs' producers and consumers, one of the four  *)
(* each time, and yields; the main thread may, too, as otherwise the       *)
(* programs end before a worker runs (JoinWaits).                          *)
(*                                                                         *)
(* There is one processor.  `running` is the thread whose stack it is on    *)
(* and `pc` where it is; `current` is what current_thread_context points    *)
(* to.  A context switch is a setjmp() into the buffer of `current` and a   *)
(* longjmp() to another's.  SIGALRM, once the timer is on, can come between *)
(* any two steps.                                                          *)
(*                                                                         *)
(* Three ends leave no behaviour to model: "mixed", when a thread's context *)
(* was saved over another's; "undefined", when a longjmp() has no saved     *)
(* context to go to, or a thread function returns into the signal handler   *)
(* that started it, whose frame is gone; and "exit", when main() returns.   *)
(***************************************************************************)
EXTENDS Integers, Sequences, FiniteSetsExt, LinkedList

CONSTANTS
  MaxThreads,      \* MAX_THREADS (128)
  MaxWaits,        \* bound: the longest list of waiters
  MaxQueue         \* bound: what is produced and not consumed

Main    == 0
Slots   == 0 .. MaxThreads - 1
Workers == Slots \ {Main}

ASSUME ThreadsAssumption ==
  /\ MaxThreads \in Nat /\ MaxThreads > 1
  /\ MaxWaits \in Nat
  /\ MaxQueue \in Nat

VARIABLES
  running, pc,                     \* the processor
  current,                         \* current_thread_context
  state, joiner,                   \* of each thread_context[]
  buffer,                          \* the context saved there
  target,                          \* argument of main's thread_join()
  alarm,                           \* the interval timer is on
  locked,                          \* the mutex of the program
  internal,                        \* the condition variable's own mutex
  waiters,                         \* its list; a node points to a thread
  node,                            \* new_node or result of each thread
  queue_size,                      \* of the programs
  loaded,                          \* what each thread read of it, to change it
  stock,                           \* history: produced and not consumed
  ended                            \* "no", or how the program ended

cpuVars  == <<running, pc, current, buffer, alarm>>
lockVars == <<locked, internal>>
listVars == <<waiters, node>>
queueVars == <<queue_size, loaded, stock>>
vars ==
  <<cpuVars, state, joiner, target, lockVars, listVars, queueVars, ended>>

\* Program points that hold the mutex, and the condition variable's own.
HoldingPoints  == {"critical", "produce", "retest", "take", "consume", "leave",
                   "waitLock", "waitQueue", "waitLink", "waitTail", "waitHead",
                   "waitBlock", "waitUnlock",
                   "signalLock", "signalRemove", "signalHead", "signalCut",
                   "signalActive", "signalUnlock",
                   "broadcastLock", "broadcastRemove", "broadcastHead",
                   "broadcastCut", "broadcastActive", "broadcastAgain",
                   "broadcastUnlock", "broadcastEnd"}
InternalPoints == {"waitQueue", "waitLink", "waitTail", "waitHead",
                   "waitBlock", "waitUnlock", "waitUnlockInternal",
                   "signalRemove", "signalHead", "signalCut", "signalActive",
                   "signalUnlock", "broadcastRemove", "broadcastHead",
                   "broadcastCut", "broadcastActive", "broadcastAgain",
                   "broadcastUnlock"}
Points == HoldingPoints \cup InternalPoints \cup
          {"user", "lock", "relock", "waitYield", "createRaise", "joinSave",
           "joinCurrent", "joinJump", "exitActive", "exitSave", "exitCurrent",
           "exitJump", "exited"}

\* A saved context: where it goes on, and whether it goes on in
\* thread_yield(), which turns the timer on.
NoContext == [at |-> "user", rearm |-> FALSE, saved |-> FALSE]
Context(at, rearm) == [at |-> at, rearm |-> rearm, saved |-> TRUE]

\* thread_context[i].number: no line of threads.c assigns it.
NumberOf(i) == 0

-----------------------------------------------------------------------------
\* thread_init().
Init ==
  /\ running = Main /\ pc = "user" /\ current = Main
  /\ state = [i \in Slots |-> IF i = Main THEN "ACTIVE" ELSE "INVALID"]
  /\ joiner = [i \in Slots |-> 0]
  /\ buffer = [i \in Slots |-> NoContext]
  /\ target = 0
  /\ alarm = FALSE
  /\ locked = FALSE /\ internal = FALSE
  /\ waiters = EmptyList(1 .. MaxWaits, Main)
  /\ node = [i \in Slots |-> Null]
  /\ queue_size = 0 /\ stock = 0
  /\ loaded = [i \in Slots |-> 0]
  /\ ended = "no"

At(from)     == ended = "no" /\ pc = from
Go(from, to) == At(from) /\ pc' = to
Stay         == UNCHANGED <<running, current, buffer, alarm, ended>>

\* setjmp() into the buffer of `current`, going on at a point.
Save(at, rearm) == [buffer EXCEPT ![current] = Context(at, rearm)]

\* longjmp() to the context of thread i.
Jump(i, buffers) ==
  /\ running' = i
  /\ pc' = buffers[i].at
  /\ ended' = IF buffers[i].saved THEN "no" ELSE "undefined"

\* Variant: only blocked threads are passed over.
ActiveUnblocked ==
  {x \in 0 .. MaxThreads - 2 :
     state[(NumberOf(current) + 1 + x) % MaxThreads] # "BLOCKED"}

\* What the scan of thread_yield() can stop at: distances from `current`.
Active ==
  {x \in 0 .. MaxThreads - 2 :
     state[(NumberOf(current) + 1 + x) % MaxThreads] = "ACTIVE"}

\* thread_yield(), going on at a point when it returns.
Yield(at) ==
  IF Active = {}
  THEN /\ pc' = at /\ alarm' = FALSE
       /\ UNCHANGED <<running, current, buffer, ended>>
  ELSE IF running # current
  THEN ended' = "mixed" /\ UNCHANGED cpuVars
  ELSE LET i == (NumberOf(current) + 1 + Min(Active)) % MaxThreads IN
       /\ buffer' = Save(at, TRUE)
       /\ current' = i
       /\ Jump(i, buffer')
       /\ alarm' = buffer'[i].rearm

\* sigalm_handler(): a yield between any two steps.
Preempt ==
  /\ ended = "no" /\ alarm
  /\ Yield(pc)
  /\ UNCHANGED <<state, joiner, target, lockVars, listVars, queueVars>>

YieldCall ==
  /\ At("user")
  /\ Yield("user")
  /\ UNCHANGED <<state, joiner, target, lockVars, listVars, queueVars>>

-----------------------------------------------------------------------------
(* thread_create() and thread_join() by the main thread.                    *)

\* Lines 92-108: the new thread is active before its context is saved.
CreateActive ==
  /\ running = Main /\ Go("user", "createRaise")
  /\ \E i \in Slots : /\ state[i] = "INVALID"
                      /\ \A j \in 0 .. i - 1 : state[j] # "INVALID"
                      /\ state' = [state EXCEPT ![i] = "ACTIVE"]
  /\ Stay /\ UNCHANGED <<joiner, target, lockVars, listVars, queueVars>>

\* Variant: new_pos is assigned after raise().
NewPosLate == Max({i \in Slots : state[i] # "INVALID"}) - 1

\* Line 98, new_pos: the last thread made active.
NewPos == Max({i \in Slots : state[i] # "INVALID"})

\* Line 110: sigusr_handler() saves the context of the new thread.
CreateRaise ==
  /\ Go("createRaise", "user")
  /\ buffer' = [buffer EXCEPT ![NewPos] = Context("user", FALSE)]
  /\ UNCHANGED <<running, current, alarm, ended, state, joiner, target,
                 lockVars, listVars, queueVars>>

\* Lines 153-159.  The argument is what a thread_create() returned.
JoinBlock ==
  /\ running = Main /\ At("user")
  /\ \E w \in Workers : state[w] # "INVALID" /\ target' = NumberOf(w)
  /\ IF state[target'] = "FINISHED"
     THEN /\ state' = [state EXCEPT ![target'] = "INVALID"]
          /\ UNCHANGED <<pc, joiner>>
     ELSE /\ state' = [state EXCEPT ![current] = "BLOCKED"]
          /\ joiner' = [joiner EXCEPT ![target'] = NumberOf(current)]
          /\ pc' = "joinSave"
  /\ Stay /\ UNCHANGED <<lockVars, listVars, queueVars>>

\* Line 160.
JoinSave ==
  /\ Go("joinSave", "joinCurrent")
  /\ buffer' = Save("user", FALSE)
  /\ UNCHANGED <<running, current, alarm, ended, state, joiner, target,
                 lockVars, listVars, queueVars>>

\* Line 161.
JoinCurrent ==
  /\ Go("joinCurrent", "joinJump")
  /\ current' = target
  /\ UNCHANGED <<running, buffer, alarm, ended, state, joiner, target,
                 lockVars, listVars, queueVars>>

\* Line 162.
JoinJump ==
  /\ At("joinJump")
  /\ Jump(target, buffer)
  /\ alarm' = (alarm \/ buffer[target].rearm)
  /\ UNCHANGED <<current, buffer, state, joiner, target, lockVars, listVars,
                 queueVars>>

MainReturn ==
  /\ running = Main /\ At("user")
  /\ ended' = "exit"
  /\ UNCHANGED <<cpuVars, state, joiner, target, lockVars, listVars,
                 queueVars>>

-----------------------------------------------------------------------------
(* thread_exit(), lines 136-150.  joiner is never -1.                       *)

\* Lines 137-138.
ExitFinish ==
  /\ running # Main /\ Go("user", "exitActive")
  /\ state' = [state EXCEPT ![current] = "FINISHED"]
  /\ Stay /\ UNCHANGED <<joiner, target, lockVars, listVars, queueVars>>

\* Line 144.
ExitActive ==
  /\ Go("exitActive", "exitSave")
  /\ state' = [state EXCEPT ![current] = "ACTIVE"]
  /\ Stay /\ UNCHANGED <<joiner, target, lockVars, listVars, queueVars>>

\* Line 145.
ExitSave ==
  /\ Go("exitSave", "exitCurrent")
  /\ buffer' = Save("exited", FALSE)
  /\ UNCHANGED <<running, current, alarm, ended, state, joiner, target,
                 lockVars, listVars, queueVars>>

\* Line 146.
ExitCurrent ==
  /\ Go("exitCurrent", "exitJump")
  /\ current' = joiner[current]
  /\ UNCHANGED <<running, buffer, alarm, ended, state, joiner, target,
                 lockVars, listVars, queueVars>>

\* Line 147: `current` is the joiner by now, so that this is its joiner.
ExitJump ==
  /\ At("exitJump")
  /\ Jump(joiner[current], buffer)
  /\ alarm' = (alarm \/ buffer[joiner[current]].rearm)
  /\ UNCHANGED <<current, buffer, state, joiner, target, lockVars, listVars,
                 queueVars>>

\* A thread that was made active by its exit goes on after it.
ExitedReturn ==
  /\ At("exited")
  /\ ended' = "undefined"
  /\ UNCHANGED <<cpuVars, state, joiner, target, lockVars, listVars,
                 queueVars>>

-----------------------------------------------------------------------------
(* synchronization.c.                                                      *)

Step(from, to) ==
  /\ Go(from, to) /\ Stay /\ UNCHANGED <<joiner, target>>

LockCall ==
  /\ Step("user", "lock")
  /\ UNCHANGED <<state, lockVars, listVars, queueVars>>

\* Variant: the exchange is not conditional.
LockUnchecked(from, to) ==
  /\ Step(from, to)
  /\ locked' = TRUE
  /\ UNCHANGED <<state, internal, listVars, queueVars>>

\* thread_mutex_lock(): a locked mutex keeps the thread spinning.
Lock(from, to) ==
  /\ Step(from, to)
  /\ ~locked /\ locked' = TRUE
  /\ UNCHANGED <<state, internal, listVars, queueVars>>

\* thread_mutex_unlock().
Unlock(from, to) ==
  /\ Step(from, to)
  /\ locked' = FALSE
  /\ UNCHANGED <<state, internal, listVars, queueVars>>

\* Lines 50 and 61.
InternalLock ==
  /\ \/ Step("waitLock", "waitQueue")
     \/ Step("signalLock", "signalRemove")
     \/ Step("broadcastLock", "broadcastRemove")
  /\ ~internal /\ internal' = TRUE
  /\ UNCHANGED <<state, locked, listVars, queueVars>>

\* Variant: the thread is blocked before it is in the list.
WaitQueueBlocked ==
  /\ Step("waitQueue", "waitLink")
  /\ \E n \in 1 .. MaxWaits \ (Linked(waiters) \cup {node[t] : t \in Slots}) :
       /\ waiters' = NewTail(waiters, n, current)
       /\ node' = [node EXCEPT ![running] = n]
  /\ state' = [state EXCEPT ![current] = "BLOCKED"]
  /\ UNCHANGED <<lockVars, queueVars>>

\* Line 51, ll_insert_tail(): malloc() returns a node that is neither in the
\* list nor in a thread's hands; it points to the number of the thread.
WaitQueue ==
  /\ Step("waitQueue", "waitLink")
  /\ LET free == 1 .. MaxWaits \ (Linked(waiters) \cup {node[t] : t \in Slots})
     IN /\ free # {}
        /\ waiters' = NewTail(waiters, Min(free), current)
        /\ node' = [node EXCEPT ![running] = Min(free)]
  /\ UNCHANGED <<state, lockVars, queueVars>>

\* Its three stores.
WaitLink ==
  /\ Step("waitLink", "waitTail")
  /\ waiters' = LinkTail(waiters, node[running])
  /\ UNCHANGED <<state, lockVars, node, queueVars>>

WaitTail ==
  /\ Step("waitTail", "waitHead")
  /\ waiters' = SetTail(waiters, node[running])
  /\ UNCHANGED <<state, lockVars, node, queueVars>>

WaitHead ==
  /\ Step("waitHead", "waitBlock")
  /\ waiters' = SetHead(waiters, node[running])
  /\ node' = [node EXCEPT ![running] = Null]
  /\ UNCHANGED <<state, lockVars, queueVars>>

\* Line 52.
WaitBlock ==
  /\ Step("waitBlock", "waitUnlock")
  /\ state' = [state EXCEPT ![current] = "BLOCKED"]
  /\ UNCHANGED <<lockVars, listVars, queueVars>>

\* Lines 54, 66 and 69.
InternalUnlock ==
  /\ \/ Step("waitUnlockInternal", "waitYield")
     \/ Step("signalUnlock", "leave")
     \/ Step("broadcastAgain", "broadcastLock")
     \/ Step("broadcastUnlock", "broadcastEnd")
  /\ internal' = FALSE
  /\ UNCHANGED <<state, locked, listVars, queueVars>>

\* Lines 55-56: the mutex is taken again after the yield.
WaitYield ==
  /\ At("waitYield")
  /\ Yield("relock")
  /\ UNCHANGED <<state, joiner, target, lockVars, listVars, queueVars>>

\* Lines 62 and 63, ll_remove_head() up to its line 147: without a waiter there
\* is nothing to remove.
Remove(from, found, empty) ==
  /\ IF waiters.head = Null
     THEN Step(from, empty) /\ UNCHANGED node
     ELSE Step(from, found) /\ node' = [node EXCEPT ![running] = waiters.head]
  /\ UNCHANGED <<state, lockVars, waiters, queueVars>>

SignalRemove == Remove("signalRemove", "signalHead", "signalUnlock")

\* thread_cond_broadcast(): signals until one finds no waiter.
BroadcastRemove ==
  Remove("broadcastRemove", "broadcastHead", "broadcastUnlock")

\* Line 149 of ll_double.c.
RemoveHead ==
  /\ \/ Step("signalHead", "signalCut")
     \/ Step("broadcastHead", "broadcastCut")
  /\ waiters' = MoveHead(waiters)
  /\ UNCHANGED <<state, lockVars, node, queueVars>>

\* Lines 151-156 of ll_double.c.
RemoveCut ==
  /\ \/ Step("signalCut", "signalActive")
     \/ Step("broadcastCut", "broadcastActive")
  /\ waiters' = CutHead(waiters)
  /\ UNCHANGED <<state, lockVars, node, queueVars>>

\* Lines 64-65: the number that the node points to is that of a thread.
Activate(from, to) ==
  /\ Step(from, to)
  /\ state' =
       [state EXCEPT ![NumberOf(waiters.data[node[running]])] = "ACTIVE"]
  /\ waiters' = Forget(waiters, node[running], Main)
  /\ node' = [node EXCEPT ![running] = Null]
  /\ UNCHANGED <<lockVars, queueVars>>

SignalActive == Activate("signalActive", "signalUnlock")

\* Variant: one waiter is enough.
BroadcastOnce == Activate("broadcastActive", "broadcastUnlock")

BroadcastActive == Activate("broadcastActive", "broadcastAgain")

BroadcastReturn ==
  /\ Step("broadcastEnd", "leave")
  /\ UNCHANGED <<state, lockVars, listVars, queueVars>>

-----------------------------------------------------------------------------
(* producer() and consumer() of the two programs, with the mutex held.      *)
(* SIGALRM can come between the load and the store of queue_size++.         *)

InProgram == UNCHANGED <<state, lockVars, listVars>>

Load(from, to) ==
  /\ Step(from, to)
  /\ loaded' = [loaded EXCEPT ![running] = queue_size]
  /\ UNCHANGED <<queue_size, stock>> /\ InProgram

Store(from, to, change) ==
  /\ Step(from, to)
  /\ queue_size' = loaded[running] + change
  /\ stock' = stock + change
  /\ loaded' = [loaded EXCEPT ![running] = 0]
  /\ InProgram

\* The load of queue_size++.
Produce == queue_size < MaxQueue /\ Load("critical", "produce")

\* Its store.  The first program unlocks, the second one signals; no program
\* broadcasts.
Produced == \E to \in {"leave", "signalLock", "broadcastLock"} :
              Store("produce", to, 1)

\* The test of the first program: a consumer gives up.
TestOnce ==
  /\ Step("critical", IF queue_size = 0 THEN "leave" ELSE "take")
  /\ UNCHANGED queueVars /\ InProgram

\* Variant: an if, and not a while.
WaitTestOnce ==
  /\ \/ Step("critical", IF queue_size = 0 THEN "waitLock" ELSE "take")
     \/ Step("retest", "take")
  /\ UNCHANGED queueVars /\ InProgram

\* The test of the second program: a consumer waits, and tests again.
WaitTest ==
  /\ \E from \in {"critical", "retest"} :
       Step(from, IF queue_size = 0 THEN "waitLock" ELSE "take")
  /\ UNCHANGED queueVars /\ InProgram

\* queue_size--.
Consume  == Load("take", "consume")
Consumed == Store("consume", "leave", -1)

Next ==
  \/ Preempt \/ YieldCall
  \/ CreateActive \/ CreateRaise
  \/ JoinBlock \/ JoinSave \/ JoinCurrent \/ JoinJump \/ MainReturn
  \/ ExitFinish \/ ExitActive \/ ExitSave
  \/ ExitCurrent \/ ExitJump \/ ExitedReturn
  \/ LockCall \/ Lock("lock", "critical") \/ Lock("relock", "retest")
  \/ Unlock("leave", "user") \/ Unlock("waitUnlock", "waitUnlockInternal")
  \/ InternalLock \/ InternalUnlock
  \/ WaitQueue \/ WaitLink \/ WaitTail \/ WaitHead \/ WaitBlock \/ WaitYield
  \/ SignalRemove \/ BroadcastRemove \/ RemoveHead \/ RemoveCut
  \/ SignalActive \/ BroadcastActive \/ BroadcastReturn
  \/ Produce \/ Produced \/ TestOnce \/ WaitTest \/ Consume \/ Consumed

Spec == Init /\ [][Next]_vars

-----------------------------------------------------------------------------
(* What holds of the code as it stands.                                    *)

\* Every variable keeps its type, and the processor is on a thread that was
\* created.
TypeOK ==
  /\ running \in Slots /\ pc \in Points /\ current \in Slots
  /\ "INVALID" \notin {state[running], state[current]}
  /\ state \in [Slots -> {"ACTIVE", "BLOCKED", "FINISHED", "INVALID"}]
  /\ joiner \in [Slots -> Slots]
  /\ buffer \in [Slots -> [at : Points, rearm : BOOLEAN, saved : BOOLEAN]]
  /\ target \in Slots
  /\ alarm \in BOOLEAN /\ locked \in BOOLEAN /\ internal \in BOOLEAN
  /\ {waiters.head, waiters.tail} \subseteq 0 .. MaxWaits
  /\ waiters.prev \in [1 .. MaxWaits -> 0 .. MaxWaits]
  /\ waiters.next \in [1 .. MaxWaits -> 0 .. MaxWaits]
  /\ waiters.data \in [1 .. MaxWaits -> Slots]
  /\ node \in [Slots -> 0 .. MaxWaits]
  /\ queue_size \in Int /\ stock \in Int
  /\ loaded \in [Slots -> Int]
  /\ ended \in {"no", "exit", "mixed", "undefined"}

\* Where a thread is, or will go on.
Where(t) == IF t = running THEN pc ELSE buffer[t].at
Inside(points) == {t \in Slots : Where(t) \in points}

\* The spin locks exclude, wherever SIGALRM strikes: a mutex is locked when a
\* thread is past its lock and short of its unlock, and only one is.
MutexExclusion ==
  ended \in {"no", "exit"} =>
    /\ \A t, u \in Inside(HoldingPoints) : t = u
    /\ \A t, u \in Inside(InternalPoints) : t = u
    /\ locked = (Inside(HoldingPoints) # {})
    /\ internal = (Inside(InternalPoints) # {})

\* While the mutex excludes, no update of queue_size is lost, and a consumer
\* that waited takes nothing that another one took before it.
CounterExact ==
  ended \in {"no", "exit"} => queue_size = stock /\ queue_size >= 0

\* SIGALRM can strike while the list of waiters is half linked: at the points
\* after the first store of ll_insert_tail() or ll_remove_head() and before the
\* last.  Otherwise it is well linked; and wherever a thread is interrupted, a
\* walk from the head finds the waiters first in, first out: the list grows at
\* its end and shrinks at its head.
HalfLinked == {"waitTail", "waitHead", "signalCut", "broadcastCut"}
Waiting == Contents(waiters)
WaitersInOrder ==
  /\ [](ended \in {"no", "exit"} /\ Inside(HalfLinked) = {}
          => WellLinked(waiters))
  /\ [][\/ Waiting' = Waiting
        \/ Waiting' = Append(Waiting, current)
        \/ Waiting # <<>> /\ Waiting' = Tail(Waiting)]_vars

\* When a broadcast is over, and its caller still holds the mutex, nobody is
\* left in the list: no wait slips in between its signals.
BroadcastEmpties ==
  ended \in {"no", "exit"} =>
    (Inside({"broadcastEnd"}) # {} => Waiting = <<>>)

\* As long as no worker calls thread_exit(), each context stays in its thread's
\* buffer and every switch finds one.
Exiting == \E w \in Workers :
  Where(w) \in {"exitActive", "exitSave", "exitCurrent", "exitJump", "exited"}
OwnContext == ~Exiting => ended \notin {"mixed", "undefined"}

\* Until then SIGALRM takes the processor from a thread that is inside a mutex
\* at one place only: between lines 52 and 54 of thread_cond_wait(), when the
\* thread is blocked and a mutex is locked.  (It does not get the processor
\* back, and the mutex stays locked.)  Anywhere else the scan comes back to it.
HolderRuns ==
  ended \in {"no", "exit"} /\ ~Exiting =>
    \A t \in Inside(HoldingPoints \cup InternalPoints) \ {running} :
      Where(t) \in {"waitUnlock", "waitUnlockInternal"} /\ state[t] = "BLOCKED"

-----------------------------------------------------------------------------
(* What the comments promise and the code does not do.                     *)

\* "Join threads" (producer-consumer1.c:70): when a thread_join() is over,
\* a thread that main created has exited.
JoinWaits ==
  [][pc = "joinJump" /\ running' = Main =>
       \E w \in Workers : Where(w) = "exited" \/ state[w] = "FINISHED"]_vars
=============================================================================
