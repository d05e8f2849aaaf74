---------------------------- MODULE ThreadsProofs ----------------------------
(* Theorems about Threads, for any number of threads and any interleaving.  *)
EXTENDS Threads, LinkedListProofs

\* Where every thread is.
Whereabouts == [t \in Slots |-> Where(t)]

\* The program runs or has returned from main().
Alive == ended \in {"no", "exit"}

JoinPoints == {"joinSave", "joinCurrent", "joinJump"}
ExitPoints == {"exitActive", "exitSave", "exitCurrent", "exitJump", "exited"}

\* The list of waiters is a record of pointers, and so is what a thread holds.
ListTyped ==
  waiters \in Lists(MaxWaits, Slots) /\ node \in [Slots -> 0 .. MaxWaits]

\* As no line assigns a thread's number, nobody but the main thread is ever
\* joined or a joiner.
Numbers == joiner = [i \in Slots |-> Main] /\ target = Main

\* `current` is the thread that runs, up to the last line of thread_exit().
\* Only the main thread creates and joins, only workers exit, and what a
\* thread saved before it goes through thread_join() or thread_exit() is known.
OwnPlaces ==
  /\ state[Main] \notin {"INVALID", "FINISHED"}
  /\ current = IF pc = "exitJump" THEN Main ELSE running
  /\ Where(Main) \notin ExitPoints
  /\ \A w \in Workers : Where(w) \notin {"createRaise"} \cup JoinPoints
  /\ \A t \in Slots : buffer[t].at # "exitJump"
  /\ pc \in {"joinCurrent", "joinJump"} =>
       buffer[Main].at \in {"user", "joinCurrent", "joinJump"}
  /\ pc \in {"exitCurrent", "exitJump"} =>
       buffer[running].at \in {"exited", "exitCurrent"}

\* Threads are created from the lowest slot up; a slot that was not used holds
\* no context, and neither does the last one while its thread is created.
Created ==
  /\ \A i \in Slots : state[i] = "INVALID" => buffer[i] = NoContext
  /\ \A i, j \in Slots : i < j /\ state[j] # "INVALID" => state[i] # "INVALID"
  /\ Where(Main) = "createRaise" =>
       NewPos \in Workers \ {running} /\ buffer[NewPos] = NoContext

\* Before the first thread_exit(): the main thread runs without a timer until
\* it first yields, and is not switched to after that; every active worker has
\* a saved context.
Settled ==
  /\ \A w \in Workers \ {running} :
       state[w] = "ACTIVE" => \/ buffer[w].saved
                              \/ pc = "createRaise" /\ w = NewPos
  /\ running = Main => /\ ~alarm
                       /\ pc \in {"joinCurrent", "joinJump"} =>
                            buffer[Main].saved /\ ~buffer[Main].rearm

\* Before the first thread_exit(): no worker that is active comes before the one
\* that runs, and one that runs although it is blocked found nobody active.  So
\* a worker that has run gave up the processor between lines 52 and 54 of
\* thread_cond_wait(), or outside the mutexes; the main thread did it by itself.
Window == {"waitUnlock", "waitUnlockInternal"}
Placed ==
  /\ \A w \in Workers : state[w] # "FINISHED"
  /\ running = Main => \A w \in Workers : buffer[w].at = "user"
  /\ running # Main => buffer[Main].at \notin HoldingPoints \cup InternalPoints
  /\ \A w \in Workers \ {running} :
       buffer[w].at \in HoldingPoints \cup InternalPoints =>
         buffer[w].at \in Window /\ state[w] = "BLOCKED"
  /\ running # Main => \A w \in Workers : w < running => state[w] # "ACTIVE"
  /\ running # Main /\ state[running] # "ACTIVE"
       /\ pc \notin Window \cup {"waitYield"} =>
       \A w \in Workers : state[w] # "ACTIVE"

\* What a thread loaded and has not stored yet is still what the queue holds.
Loaded ==
  /\ queue_size = stock /\ queue_size >= 0
  /\ \A t \in Inside({"produce", "consume"}) : loaded[t] = queue_size
  /\ Inside({"take", "consume"}) # {} => queue_size > 0

\* Nobody waits from the last signal of a broadcast to its return.
Emptied ==
  Inside({"broadcastUnlock", "broadcastEnd"}) # {} => waiters.head = Null

\* What each store to the list leaves behind: the stores that follow it will
\* make the list a chain of nodes again.  x is what thread t holds.
NodePoints == {"waitLink", "waitTail", "waitHead",
               "signalHead", "signalCut", "signalActive",
               "broadcastHead", "broadcastCut", "broadcastActive"}
Fits(place, list, x, t) ==
  /\ place \in NodePoints => x \in 1 .. MaxWaits
  /\ place = "waitLink" => /\ x \notin Linked(list)
                           /\ list.next[x] = Null /\ list.prev[x] = list.tail
  /\ place = "waitTail" => IsChain(SetHead(SetTail(list, x), x))
  /\ place = "waitHead" => list.tail = x /\ IsChain(SetHead(list, x))
  /\ place \in {"waitLink", "waitTail", "waitHead"} => list.data[x] = t
  /\ place \in {"signalHead", "broadcastHead"} => list.head = x
  /\ place \in {"signalCut", "broadcastCut"} => IsChain(CutHead(list))
  /\ place \in {"signalCut", "broadcastCut", "signalActive", "broadcastActive"}
       => x \notin Linked(list)

\* The list of waiters is a chain, from its head to its tail, unless a thread is
\* between two stores.
Linkage ==
  /\ (\A t \in Slots : Where(t) \notin HalfLinked) => IsChain(waiters)
  /\ \A t \in Slots : Fits(Where(t), waiters, node[t], t)

IInv ==
  /\ TypeOK /\ ListTyped /\ Numbers
  /\ Alive => /\ OwnPlaces /\ Created /\ MutexExclusion
              /\ Loaded /\ Emptied /\ Linkage
  /\ Alive /\ ~Exiting => Settled /\ Placed
  /\ OwnContext

-----------------------------------------------------------------------------
(* The threads that the scans find.                                        *)

\* The scan of thread_yield() stops at the first active worker.
LEMMA ScanFinds ==
  ASSUME TypeOK, Active # {}
  PROVE  LET i == (NumberOf(current) + 1 + Min(Active)) % MaxThreads
         IN  /\ i \in Workers /\ state[i] = "ACTIVE"
             /\ \A w \in Workers : w < i => state[w] # "ACTIVE"
<1>1. Min(Active) \in Active
  BY ThreadsAssumption, LeastElement DEF Active
<1>2. ASSUME NEW x \in 0 .. MaxThreads - 2
      PROVE (0 + 1 + x) % MaxThreads = 1 + x
  BY ThreadsAssumption
<1>3. PICK x \in 0 .. MaxThreads - 2 :
        x = Min(Active) /\ state[(0 + 1 + x) % MaxThreads] = "ACTIVE"
  BY <1>1 DEF Active, NumberOf
<1>4. 1 + x \in Workers /\ state[1 + x] = "ACTIVE"
  BY <1>2, <1>3, ThreadsAssumption DEF Workers, Slots, Main
<1>5. ASSUME NEW w \in Workers, w < 1 + x PROVE state[w] # "ACTIVE"
  <2>1. w - 1 \in 0 .. MaxThreads - 2 /\ w - 1 < Min(Active)
    BY <1>3, <1>5, ThreadsAssumption DEF Workers, Slots, Main
  <2>2. w - 1 \notin Active
    <3>1. \A y \in Active : Min(Active) <= y
      BY ThreadsAssumption, LeastElement DEF Active
    <3>2. \A y \in Active : y \in Nat
      BY DEF Active
    <3> QED
      BY <1>1, <2>1, <3>1, <3>2
  <2>3. (0 + 1 + (w - 1)) % MaxThreads = w
    BY <1>2, <2>1, ThreadsAssumption DEF Workers, Slots, Main
  <2> QED
    BY <2>1, <2>2, <2>3 DEF Active, NumberOf
<1> QED
  BY <1>2, <1>3, <1>4, <1>5 DEF NumberOf

\* It finds nobody only when no worker is active.
LEMMA ScanFindsNone ==
  ASSUME Active = {}
  PROVE  \A w \in Workers : state[w] # "ACTIVE"
<1> SUFFICES ASSUME NEW w \in Workers PROVE state[w] # "ACTIVE"
  OBVIOUS
<1>1. w - 1 \in 0 .. MaxThreads - 2 /\ (0 + 1 + (w - 1)) % MaxThreads = w
  BY ThreadsAssumption DEF Workers, Slots, Main
<1> QED
  BY <1>1 DEF Active, NumberOf

\* The thread that is created last is in the highest slot in use.
LEMMA NewPosIs ==
  ASSUME NEW s, NEW k \in Slots, s[k] # "INVALID",
         \A j \in Slots : j > k => s[j] = "INVALID"
  PROVE  Max({i \in Slots : s[i] # "INVALID"}) = k
<1> DEFINE S == {i \in Slots : s[i] # "INVALID"}
<1>1. S \in SUBSET (0 .. MaxThreads - 1) /\ S # {} /\ MaxThreads - 1 \in Nat
  BY ThreadsAssumption DEF Slots
<1> HIDE DEF S
<1>2. Max(S) \in S /\ \A y \in S : y <= Max(S)
  BY <1>1, GreatestElement
<1> QED
  BY <1>2 DEF S, Slots

LEMMA NewPosSlot ==
  ASSUME NEW s, s[Main] # "INVALID"
  PROVE  /\ Max({i \in Slots : s[i] # "INVALID"}) \in Slots
         /\ s[Max({i \in Slots : s[i] # "INVALID"})] # "INVALID"
         /\ \A i \in Slots : s[i] # "INVALID" =>
              i <= Max({j \in Slots : s[j] # "INVALID"})
<1> DEFINE S == {i \in Slots : s[i] # "INVALID"}
<1>1. S \in SUBSET (0 .. MaxThreads - 1) /\ S # {} /\ MaxThreads - 1 \in Nat
  BY ThreadsAssumption DEF Slots, Main
<1> HIDE DEF S
<1>2. Max(S) \in S /\ \A y \in S : y <= Max(S)
  BY <1>1, GreatestElement
<1> QED
  BY <1>2 DEF S, Slots

-----------------------------------------------------------------------------
(* The kinds of steps.                                                     *)

\* A step of the running thread that neither switches nor saves a context.
Within ==
  /\ ended = "no" /\ Stay /\ UNCHANGED <<joiner, target>>
  /\ pc \notin JoinPoints \cup ExitPoints \cup {"createRaise"}
  /\ pc' \in Points \ {"joinCurrent", "joinJump", "exitSave", "exitCurrent",
                       "exitJump", "exited"}
  /\ pc' = "joinSave" => running = Main
  /\ pc' = "exitActive" => running # Main
  /\ pc # "waitYield" /\ (pc \in Window => pc' \in Window \cup {"waitYield"})
  /\ \/ UNCHANGED state /\ pc' # "createRaise"
     \/ state' = [state EXCEPT ![Main] = "ACTIVE"] /\ pc' # "createRaise"
     \/ /\ state' = [state EXCEPT ![running] = "BLOCKED"]
        /\ pc' \in {"waitUnlock", "joinSave"}
     \/ /\ running # Main /\ pc' = "exitActive"
        /\ state' = [state EXCEPT ![running] = "FINISHED"]
     \/ CreateActive

\* thread_yield(): no worker is active; `current` is another thread; or the
\* first active worker, perhaps the same, goes on.
Yielded(at) ==
  \/ /\ \A w \in Workers : state[w] # "ACTIVE"
     /\ pc' = at /\ alarm' = FALSE
     /\ UNCHANGED <<running, current, buffer, ended>>
  \/ running # current /\ ended' = "mixed" /\ UNCHANGED cpuVars
  \/ /\ running = current
     /\ buffer' = [buffer EXCEPT ![running] = Context(at, TRUE)]
     /\ \E i \in Workers :
          /\ state[i] = "ACTIVE"
          /\ \A w \in Workers : w < i => state[w] # "ACTIVE"
          /\ running' = i /\ current' = i
          /\ pc' = buffer'[i].at /\ alarm' = buffer'[i].rearm
          /\ ended' = IF buffer'[i].saved THEN "no" ELSE "undefined"

Yielding == Preempt \/ YieldCall \/ WaitYield

\* What is left: single lines of thread_create(), thread_join() and
\* thread_exit(), and the two ends.
Single ==
  \/ CreateRaise \/ JoinSave \/ JoinCurrent \/ JoinJump \/ MainReturn
  \/ ExitActive \/ ExitSave \/ ExitCurrent \/ ExitJump \/ ExitedReturn

LEMMA YieldsDo ==
  ASSUME TypeOK, NEW at, Yield(at) PROVE Yielded(at)
<1>1. CASE Active = {}
  BY <1>1, ScanFindsNone DEF Yield, Yielded
<1>2. CASE Active # {} /\ running # current
  BY <1>2 DEF Yield, Yielded
<1>3. CASE Active # {} /\ running = current
  <2> DEFINE i == (NumberOf(current) + 1 + Min(Active)) % MaxThreads
  <2>1. /\ i \in Workers /\ state[i] = "ACTIVE"
        /\ \A w \in Workers : w < i => state[w] # "ACTIVE"
    BY <1>3, ScanFinds
  <2>2. /\ buffer' = Save(at, TRUE)
        /\ current' = i
        /\ Jump(i, buffer')
        /\ alarm' = buffer'[i].rearm
    BY <1>3 DEF Yield
  <2> HIDE DEF i
  <2> QED
    BY <1>3, <2>1, <2>2 DEF Yielded, Save, Jump
<1> QED
  BY <1>1, <1>2, <1>3

\* What a yield does to the other variables.
LEMMA YieldingDoes ==
  ASSUME TypeOK, Yielding
  PROVE  /\ ended = "no"
         /\ UNCHANGED <<state, joiner, target, lockVars, listVars, queueVars>>
         /\ \/ Yielded(pc)
            \/ pc = "user" /\ Yielded("user")
            \/ pc = "waitYield" /\ Yielded("relock")
<1>1. CASE Preempt
  BY <1>1, YieldsDo DEF Preempt
<1>2. CASE YieldCall
  BY <1>2, YieldsDo DEF YieldCall, At
<1>3. CASE WaitYield
  BY <1>3, YieldsDo DEF WaitYield, At
<1> QED
  BY <1>1, <1>2, <1>3 DEF Yielding

\* The steps of a wait and a signal that use the list.
ListStep ==
  \/ WaitQueue \/ WaitLink \/ WaitTail \/ WaitHead
  \/ SignalRemove \/ BroadcastRemove \/ RemoveHead \/ RemoveCut
  \/ SignalActive \/ BroadcastActive

\* The rest: creation, the calls of the programs and their loops.
Walking ==
  \/ CreateActive \/ JoinBlock \/ ExitFinish \/ LockCall
  \/ Lock("lock", "critical") \/ Lock("relock", "retest")
  \/ Unlock("leave", "user") \/ Unlock("waitUnlock", "waitUnlockInternal")
  \/ InternalLock \/ ListStep \/ WaitBlock \/ InternalUnlock
  \/ BroadcastReturn
  \/ Produce \/ Produced \/ TestOnce \/ WaitTest \/ Consume \/ Consumed

LEMMA WalkingIsWithin ==
  ASSUME IInv, Walking PROVE Within
<1> USE DEF Within, Stay, Go, At, Points, HoldingPoints, InternalPoints,
            JoinPoints, ExitPoints, Window
<1>1. /\ ended = "no" => OwnPlaces
      /\ TypeOK /\ Numbers
  BY DEF IInv, Alive
<1>2. CreateActive => Within
  BY DEF CreateActive
<1>3. ASSUME JoinBlock PROVE Within
  <2>1. running = Main /\ pc = "user" /\ ended = "no" /\ current = Main
        /\ state[Main] # "FINISHED" /\ target' = Main /\ target = Main
    BY <1>1, <1>3 DEF JoinBlock, OwnPlaces, Numbers, NumberOf, Main
  <2>2. /\ state' = [state EXCEPT ![Main] = "BLOCKED"]
        /\ joiner' = [joiner EXCEPT ![Main] = Main] /\ pc' = "joinSave"
        /\ UNCHANGED <<running, current, buffer, alarm, ended>>
    BY <2>1, <1>3 DEF JoinBlock, NumberOf, Main
  <2>3. joiner' = joiner
    BY <2>2, <1>1 DEF Numbers
  <2> QED
    BY <2>1, <2>2, <2>3
<1>4. ExitFinish => Within
  BY <1>1 DEF ExitFinish, OwnPlaces
<1>5. LockCall => Within
  BY DEF LockCall, Step
<1>6. Lock("lock", "critical") \/ Lock("relock", "retest") => Within
  BY DEF Lock, Step
<1>7. Unlock("leave", "user") \/ Unlock("waitUnlock", "waitUnlockInternal")
        => Within
  BY DEF Unlock, Step
<1>8. InternalLock => Within
  BY DEF InternalLock, Step
<1>9. WaitQueue \/ WaitLink \/ WaitTail \/ WaitHead => Within
  BY DEF WaitQueue, WaitLink, WaitTail, WaitHead, Step
<1>10. WaitBlock => Within
  BY <1>1 DEF WaitBlock, Step, OwnPlaces
<1>11. InternalUnlock => Within
  BY DEF InternalUnlock, Step
<1>12. SignalRemove \/ BroadcastRemove \/ RemoveHead \/ RemoveCut => Within
  BY DEF SignalRemove, BroadcastRemove, Remove, RemoveHead, RemoveCut, Step
<1>13. SignalActive \/ BroadcastActive => Within
  BY DEF SignalActive, BroadcastActive, Activate, Step, NumberOf, Main
<1>14. BroadcastReturn => Within
  BY DEF BroadcastReturn, Step
<1>15. Produce \/ Consume => Within
  BY DEF Produce, Consume, Load, Step, InProgram
<1>16. Produced \/ Consumed => Within
  BY DEF Produced, Consumed, Store, Step, InProgram
<1>17. TestOnce \/ WaitTest => Within
  BY DEF TestOnce, WaitTest, Step, InProgram
<1> QED
  BY <1>2, <1>3, <1>4, <1>5, <1>6, <1>7, <1>8, <1>9, <1>10, <1>11, <1>12,
     <1>13, <1>14, <1>15, <1>16, <1>17 DEF Walking, ListStep

LEMMA Kinds ==
  ASSUME IInv, Next PROVE (Walking /\ Within) \/ Yielding \/ Single
BY WalkingIsWithin DEF Next, Walking, ListStep, Yielding, Single

-----------------------------------------------------------------------------
(* Types.                                                                  *)

\* The part of TypeOK about the threads.
CpuTyped ==
  /\ running \in Slots /\ pc \in Points /\ current \in Slots
  /\ "INVALID" \notin {state[running], state[current]}
  /\ state \in [Slots -> {"ACTIVE", "BLOCKED", "FINISHED", "INVALID"}]
  /\ buffer \in [Slots -> [at : Points, rearm : BOOLEAN, saved : BOOLEAN]]
  /\ alarm \in BOOLEAN
  /\ ended \in {"no", "exit", "mixed", "undefined"}

\* The part about what the program shares.
DataTyped ==
  /\ locked \in BOOLEAN /\ internal \in BOOLEAN
  /\ queue_size \in Int /\ stock \in Int
  /\ loaded \in [Slots -> Int]

LEMMA TypeParts ==
  /\ TypeOK => CpuTyped /\ DataTyped
  /\ CpuTyped /\ DataTyped /\ ListTyped /\ Numbers => TypeOK
<1>1. ListTyped =>
        /\ {waiters.head, waiters.tail} \subseteq 0 .. MaxWaits
        /\ waiters.prev \in [1 .. MaxWaits -> 0 .. MaxWaits]
        /\ waiters.next \in [1 .. MaxWaits -> 0 .. MaxWaits]
        /\ waiters.data \in [1 .. MaxWaits -> Slots]
        /\ node \in [Slots -> 0 .. MaxWaits]
  BY DEF ListTyped, Lists
<1>2. Numbers => joiner \in [Slots -> Slots] /\ target \in Slots
  BY ThreadsAssumption DEF Numbers, Slots, Main
<1> QED
  BY <1>1, <1>2 DEF TypeOK, CpuTyped, DataTyped

LEMMA TypePartsNext ==
  CpuTyped' /\ DataTyped' /\ ListTyped' /\ Numbers' => TypeOK'
BY TypeParts, PTL

LEMMA MainSlot == Main \in Slots /\ Workers \subseteq Slots
BY ThreadsAssumption DEF Main, Slots, Workers

LEMMA Shared ==
  ASSUME IInv, Next
  PROVE  /\ UNCHANGED listVars \/ ListStep
         /\ DataTyped'
<1>1. TypeOK /\ DataTyped
  BY TypeParts DEF IInv
<1> USE DEF DataTyped, queueVars, lockVars, listVars
<1>2. ASSUME Yielding PROVE UNCHANGED listVars /\ DataTyped'
  BY <1>1, <1>2, YieldingDoes
<1>3. ASSUME Single PROVE UNCHANGED listVars /\ DataTyped'
  BY <1>1, <1>3 DEF Single, CreateRaise, JoinSave, JoinCurrent, JoinJump, MainReturn,
     ExitActive, ExitSave, ExitCurrent, ExitJump, ExitedReturn
<1>4. ASSUME CreateActive \/ JoinBlock \/ ExitFinish \/ LockCall
        \/ BroadcastReturn \/ WaitBlock
      PROVE UNCHANGED listVars /\ DataTyped'
  BY <1>1, <1>4 DEF CreateActive, JoinBlock, ExitFinish, LockCall,
     BroadcastReturn, WaitBlock, Step
<1>5. ASSUME \/ Lock("lock", "critical") \/ Lock("relock", "retest")
             \/ Unlock("leave", "user")
             \/ Unlock("waitUnlock", "waitUnlockInternal")
             \/ InternalLock \/ InternalUnlock
      PROVE UNCHANGED listVars /\ DataTyped'
  BY <1>1, <1>5 DEF Lock, Unlock, InternalLock, InternalUnlock
<1>6. ASSUME Produce \/ Consume PROVE UNCHANGED listVars /\ DataTyped'
  BY <1>1, <1>6 DEF Produce, Consume, Load, InProgram
<1>7. ASSUME Produced \/ Consumed PROVE UNCHANGED listVars /\ DataTyped'
  <2>1. PICK c \in {1, -1} :
          /\ queue_size' = loaded[running] + c
          /\ stock' = stock + c
          /\ loaded' = [loaded EXCEPT ![running] = 0]
          /\ InProgram
    BY <1>7 DEF Produced, Consumed, Store
  <2> QED
    BY <1>1, <2>1 DEF InProgram, TypeOK
<1>8. ASSUME TestOnce \/ WaitTest PROVE UNCHANGED listVars /\ DataTyped'
  BY <1>1, <1>8 DEF TestOnce, WaitTest, InProgram
<1>9. ASSUME ListStep PROVE DataTyped'
  BY <1>1, <1>9 DEF ListStep, WaitQueue, WaitLink, WaitTail, WaitHead,
     SignalRemove, BroadcastRemove, Remove, RemoveHead, RemoveCut,
     SignalActive, BroadcastActive, Activate
<1> QED
  BY <1>2, <1>3, <1>4, <1>5, <1>6, <1>7, <1>8, <1>9, Kinds DEF Walking

\* What one store to the list does: it keeps the types, leaves behind what the
\* next one needs, and is seen by a walk as one waiter more at the end, one less
\* at the head, or not at all.
ListGoes ==
  /\ ListTyped'
  /\ Fits(pc', waiters', node'[running], running)
  /\ pc' \notin HalfLinked => IsChain(waiters')
  /\ \A t \in Slots \ {running} : node'[t] = node[t]
  /\ \/ Waiting' = Waiting
     \/ Waiting' = Append(Waiting, current)
     \/ Waiting # <<>> /\ Waiting' = Tail(Waiting)

LEMMA ListSteps ==
  ASSUME ListTyped, running \in Slots, current = running,
         Fits(pc, waiters, node[running], running),
         pc \notin HalfLinked => IsChain(waiters), ListStep
  PROVE  ListGoes
<1> USE DEF Waiting
<1> DEFINE m == MaxWaits
           x == node[running]
<1>1. /\ waiters \in Lists(m, Slots) /\ m \in Nat /\ Main \in Slots
      /\ node \in [Slots -> 0 .. m] /\ x \in 0 .. m
  BY ThreadsAssumption, MainSlot DEF ListTyped
<1>2. ASSUME WaitQueue PROVE ListGoes
  <2> DEFINE free == 1 .. MaxWaits \ (Linked(waiters) \cup {node[t] : t \in Slots})
             y == Min(free)
             new == NewTail(waiters, y, current)
  <2>1. /\ waiters' = new /\ free # {} /\ pc = "waitQueue" /\ pc' = "waitLink"
        /\ node' = [node EXCEPT ![running] = y]
    BY <1>2 DEF WaitQueue, Step, Go, At
  <2>2. y \in 1 .. m /\ y \notin Linked(waiters)
    <3>1. free \in SUBSET Nat
      OBVIOUS
    <3> HIDE DEF free
    <3>2. y \in free
      BY <2>1, <3>1, LeastElement
    <3> QED
      BY <3>2 DEF free
  <2> HIDE DEF y
  <2>3. IsChain(waiters)
    BY <2>1 DEF HalfLinked
  <2>4. /\ IsChain(new) /\ Contents(new) = Contents(waiters)
        /\ y \notin Linked(new) /\ new \in Lists(m, Slots)
    BY <1>1, <2>2, <2>3, IsChainOff, InsertTyped
  <2>5. new.next[y] = Null /\ new.prev[y] = new.tail /\ new.data[y] = running
    BY <1>1, <2>2 DEF NewTail, Lists
  <2> HIDE DEF new
  <2>6. ListTyped' /\ node'[running] = y
        /\ \A t \in Slots \ {running} : node'[t] = node[t]
    BY <1>1, <2>1, <2>2, <2>4 DEF ListTyped, Slots, Lists
  <2> QED
    BY <2>1, <2>2, <2>4, <2>5, <2>6
    DEF ListGoes, Fits, NodePoints, HalfLinked
<1>3. ASSUME WaitLink PROVE ListGoes
  <2> DEFINE new == LinkTail(waiters, x)
  <2>1. /\ waiters' = new /\ pc = "waitLink" /\ pc' = "waitTail"
        /\ node' = node
    BY <1>3 DEF WaitLink, Step, Go, At
  <2>2. /\ x \in 1 .. m /\ x \notin Linked(waiters)
        /\ waiters.next[x] = Null /\ waiters.prev[x] = waiters.tail
        /\ waiters.data[x] = running /\ IsChain(waiters)
    BY <2>1 DEF Fits, NodePoints, HalfLinked
  <2> HIDE DEF x
  <2>3. /\ IsChain(SetHead(SetTail(new, x), x))
        /\ Contents(new) \in {Contents(waiters),
                              Append(Contents(waiters), running)}
        /\ new.data[x] = running
    BY <1>1, <2>2, LinkTailGoes
  <2>4. new \in Lists(m, Slots)
    BY <1>1, <2>2, InsertTyped
  <2> HIDE DEF new
  <2>5. ListTyped'
    BY <1>1, <2>1, <2>4 DEF ListTyped, Slots, Lists
  <2>6. Fits(pc', waiters', node'[running], running)
    BY <2>1, <2>2, <2>3 DEF Fits, x
  <2> QED
    BY <2>1, <2>3, <2>5, <2>6 DEF ListGoes, HalfLinked
<1>4. ASSUME WaitTail PROVE ListGoes
  <2> DEFINE new == SetTail(waiters, x)
  <2>1. /\ waiters' = new /\ pc = "waitTail" /\ pc' = "waitHead"
        /\ node' = node
    BY <1>4 DEF WaitTail, Step, Go, At
  <2>2. /\ x \in 1 .. m /\ IsChain(SetHead(new, x))
        /\ waiters.data[x] = running
    BY <2>1 DEF Fits, NodePoints
  <2> HIDE DEF x
  <2>3. /\ Contents(new) = Contents(waiters) /\ new.tail = x
        /\ new.data[x] = running
    BY <1>1, <2>2, SetTailGoes
  <2>4. new \in Lists(m, Slots)
    BY <1>1, <2>2, InsertTyped
  <2> HIDE DEF new
  <2>5. ListTyped'
    BY <1>1, <2>1, <2>4 DEF ListTyped, Slots, Lists
  <2>6. Fits(pc', waiters', node'[running], running)
    BY <2>1, <2>2, <2>3 DEF Fits, x
  <2> QED
    BY <2>1, <2>3, <2>5, <2>6 DEF ListGoes, HalfLinked
<1>5. ASSUME WaitHead PROVE ListGoes
  <2> DEFINE new == SetHead(waiters, x)
  <2>1. /\ waiters' = new /\ pc = "waitHead" /\ pc' = "waitBlock"
        /\ node' = [node EXCEPT ![running] = Null]
    BY <1>5 DEF WaitHead, Step, Go, At
  <2>2. /\ x \in 1 .. m /\ IsChain(new) /\ waiters.tail = x
        /\ waiters.data[x] = running
    BY <2>1 DEF Fits, NodePoints
  <2> HIDE DEF x
  <2>3. Contents(new) \in {Contents(waiters), Append(Contents(waiters), running)}
    BY <1>1, <2>2, SetHeadGoes
  <2>4. new \in Lists(m, Slots)
    BY <1>1, <2>2, InsertTyped
  <2> HIDE DEF new
  <2>5. ListTyped' /\ \A t \in Slots \ {running} : node'[t] = node[t]
    <3>1. /\ node' \in [Slots -> 0 .. m]
          /\ \A t \in Slots \ {running} : node'[t] = node[t]
      <4>1. Null \in 0 .. m
        BY <1>1 DEF Null
      <4> QED
        BY <1>1, <2>1, <4>1
    <3>2. waiters' \in Lists(m, Slots)
      BY <2>1, <2>4
    <3> QED
      BY <3>1, <3>2 DEF ListTyped, Slots, Lists
  <2>6. Fits(pc', waiters', node'[running], running)
    BY <2>1 DEF Fits, NodePoints
  <2> QED
    BY <2>1, <2>2, <2>3, <2>5, <2>6 DEF ListGoes, HalfLinked
<1>6. ASSUME SignalRemove \/ BroadcastRemove PROVE ListGoes
  <2>1. /\ waiters' = waiters /\ pc \in {"signalRemove", "broadcastRemove"}
        /\ \/ /\ waiters.head = Null /\ node' = node
              /\ pc' \in {"signalUnlock", "broadcastUnlock"}
           \/ /\ waiters.head # Null
              /\ node' = [node EXCEPT ![running] = waiters.head]
              /\ pc' \in {"signalHead", "broadcastHead"}
    BY <1>6 DEF SignalRemove, BroadcastRemove, Remove, Step, Go, At
  <2>2. IsChain(waiters) /\ waiters.head \in 0 .. m
    BY <1>1, <2>1 DEF HalfLinked, Lists
  <2>3. ListTyped' /\ \A t \in Slots \ {running} : node'[t] = node[t]
    BY <1>1, <2>1, <2>2 DEF ListTyped, Slots, Lists
  <2>4. Fits(pc', waiters', node'[running], running)
    <3>1. CASE pc' \in {"signalUnlock", "broadcastUnlock"}
      BY <3>1 DEF Fits, NodePoints
    <3>2. CASE pc' \in {"signalHead", "broadcastHead"}
      <4>1. node'[running] = waiters.head /\ waiters.head \in 1 .. m
        BY <1>1, <2>1, <2>2, <3>2 DEF Null
      <4> QED
        BY <2>1, <3>2, <4>1 DEF Fits
    <3> QED
      BY <2>1, <3>1, <3>2
  <2> QED
    BY <2>1, <2>2, <2>3, <2>4 DEF ListGoes
<1>7. ASSUME RemoveHead PROVE ListGoes
  <2> DEFINE new == MoveHead(waiters)
  <2>1. /\ waiters' = new /\ pc \in {"signalHead", "broadcastHead"}
        /\ pc' \in {"signalCut", "broadcastCut"} /\ node' = node
    BY <1>7 DEF RemoveHead, Step, Go, At
  <2>2. /\ x \in 1 .. m /\ waiters.head = x /\ IsChain(waiters)
        /\ waiters.head # Null
    BY <2>1 DEF Fits, NodePoints, HalfLinked, Null
  <2> HIDE DEF x
  <2>3. /\ Contents(waiters) # <<>> /\ Contents(new) = Tail(Contents(waiters))
        /\ IsChain(CutHead(new)) /\ x \notin Linked(new)
        /\ new \in Lists(m, Slots)
    BY <1>1, <2>2, MoveHeadGoes, RemoveTyped
  <2> HIDE DEF new
  <2>4. ListTyped'
    BY <1>1, <2>1, <2>3 DEF ListTyped, Slots, Lists
  <2>5. Fits(pc', waiters', node'[running], running)
    BY <2>1, <2>2, <2>3 DEF Fits, x
  <2> QED
    BY <2>1, <2>3, <2>4, <2>5 DEF ListGoes, HalfLinked
<1>8. ASSUME RemoveCut PROVE ListGoes
  <2> DEFINE new == CutHead(waiters)
  <2>1. /\ waiters' = new /\ pc \in {"signalCut", "broadcastCut"}
        /\ pc' \in {"signalActive", "broadcastActive"} /\ node' = node
    BY <1>8 DEF RemoveCut, Step, Go, At
  <2>2. x \in 1 .. m /\ IsChain(new) /\ x \notin Linked(waiters)
    BY <2>1 DEF Fits, NodePoints
  <2> HIDE DEF x
  <2>3. /\ Contents(new) = Contents(waiters) /\ Linked(new) = Linked(waiters)
        /\ new \in Lists(m, Slots)
    BY <1>1, CutHeadGoes, RemoveTyped
  <2> HIDE DEF new
  <2>4. ListTyped'
    BY <1>1, <2>1, <2>3 DEF ListTyped, Slots, Lists
  <2>5. Fits(pc', waiters', node'[running], running)
    BY <2>1, <2>2, <2>3 DEF Fits, x
  <2> QED
    BY <2>1, <2>2, <2>3, <2>4, <2>5 DEF ListGoes, HalfLinked
<1>9. ASSUME SignalActive \/ BroadcastActive PROVE ListGoes
  <2> DEFINE new == Forget(waiters, x, Main)
  <2>1. /\ waiters' = new /\ pc \in {"signalActive", "broadcastActive"}
        /\ pc' \in {"signalUnlock", "broadcastAgain"}
        /\ node' = [node EXCEPT ![running] = Null]
    BY <1>9 DEF SignalActive, BroadcastActive, Activate, Step, Go, At
  <2>2. x \in 1 .. m /\ x \notin Linked(waiters) /\ IsChain(waiters)
    BY <2>1 DEF Fits, NodePoints, HalfLinked
  <2> HIDE DEF x
  <2>3. /\ Contents(new) = Contents(waiters) /\ IsChain(new)
        /\ new \in Lists(m, Slots)
    BY <1>1, <2>2, IsChainOff, InsertTyped
  <2> HIDE DEF new
  <2>4. ListTyped' /\ \A t \in Slots \ {running} : node'[t] = node[t]
    <3>1. /\ node' \in [Slots -> 0 .. m]
          /\ \A t \in Slots \ {running} : node'[t] = node[t]
      <4>1. Null \in 0 .. m
        BY <1>1 DEF Null
      <4> QED
        BY <1>1, <2>1, <4>1
    <3>2. waiters' \in Lists(m, Slots)
      BY <2>1, <2>3
    <3> QED
      BY <3>1, <3>2 DEF ListTyped, Slots, Lists
  <2>5. Fits(pc', waiters', node'[running], running)
    BY <2>1 DEF Fits, NodePoints
  <2> QED
    BY <2>1, <2>3, <2>4, <2>5 DEF ListGoes
<1> QED
  BY <1>2, <1>3, <1>4, <1>5, <1>6, <1>7, <1>8, <1>9 DEF ListStep

\* What a list step starts from.
LEMMA ListBegins ==
  ASSUME IInv, ListStep
  PROVE  /\ ended = "no" /\ pc \in HoldingPoints \cap InternalPoints
         /\ running \in Slots /\ current = running
         /\ Fits(pc, waiters, node[running], running)
         /\ pc \notin HalfLinked => IsChain(waiters)
<1>1. ended = "no" /\ pc \in HoldingPoints \cap InternalPoints
  BY DEF ListStep, WaitQueue, WaitLink, WaitTail, WaitHead,
     SignalRemove, BroadcastRemove, Remove, RemoveHead, RemoveCut,
     SignalActive, BroadcastActive, Activate, Step, Go, At,
     HoldingPoints, InternalPoints
<1>2. TypeOK /\ OwnPlaces /\ MutexExclusion /\ Linkage
  BY <1>1 DEF IInv, Alive
<1>3. running \in Slots /\ current = running /\ Where(running) = pc
  BY <1>1, <1>2 DEF TypeOK, OwnPlaces, Where, HoldingPoints
<1>4. \A t \in Slots : Where(t) \in HalfLinked => t = running
  BY <1>1, <1>2, <1>3 DEF MutexExclusion, Inside, HalfLinked, InternalPoints
<1> QED
  BY <1>1, <1>2, <1>3, <1>4 DEF Linkage

LEMMA ListTypedNext ==
  ASSUME IInv, Next PROVE ListTyped'
<1>1. ListTyped
  BY DEF IInv
<1>2. ListStep => ListTyped'
  BY <1>1, ListBegins, ListSteps DEF ListGoes
<1>3. UNCHANGED listVars => ListTyped'
  BY <1>1 DEF ListTyped, Lists, listVars, Slots
<1> QED
  BY <1>2, <1>3, Shared

LEMMA NumbersNext ==
  ASSUME IInv, Next PROVE Numbers'
<1>1. Numbers /\ TypeOK
  BY DEF IInv
<1>2. Within => UNCHANGED <<joiner, target>>
  BY DEF Within
<1>3. Yielding => UNCHANGED <<joiner, target>>
  BY <1>1, YieldingDoes
<1>4. Single => UNCHANGED <<joiner, target>>
  BY DEF Single, CreateRaise, JoinSave, JoinCurrent, JoinJump, MainReturn,
     ExitActive, ExitSave, ExitCurrent, ExitJump, ExitedReturn
<1> QED
  BY <1>1, <1>2, <1>3, <1>4, Kinds DEF Numbers

LEMMA CpuTypedNext ==
  ASSUME IInv, Next PROVE CpuTyped'
<1> USE MainSlot
<1>1. TypeOK /\ CpuTyped /\ Numbers /\ (ended = "no" => OwnPlaces)
  BY TypeParts DEF IInv, Alive
<1>2. ASSUME Within PROVE CpuTyped'
  <2>1. state' \in [Slots -> {"ACTIVE", "BLOCKED", "FINISHED", "INVALID"}]
        /\ "INVALID" \notin {state'[running], state'[current]}
    BY <1>1, <1>2 DEF Within, CpuTyped, CreateActive
  <2> QED
    BY <1>1, <1>2, <2>1 DEF Within, Stay, CpuTyped
<1>3. ASSUME Yielding PROVE CpuTyped'
  <2>1. PICK at \in Points : Yielded(at)
    BY <1>1, <1>3, YieldingDoes
    DEF CpuTyped, Points
  <2>2. Context(at, TRUE) \in [at : Points, rearm : BOOLEAN, saved : BOOLEAN]
    BY DEF Context
  <2>3. state' = state
    BY <1>1, <1>3, YieldingDoes
  <2>4. CASE buffer' = [buffer EXCEPT ![running] = Context(at, TRUE)]
    <3>1. buffer' \in [Slots -> [at : Points, rearm : BOOLEAN, saved : BOOLEAN]]
      BY <1>1, <2>2, <2>4 DEF CpuTyped
    <3> QED
      BY <1>1, <2>1, <2>3, <3>1 DEF Yielded, CpuTyped, cpuVars
  <2>5. CASE UNCHANGED buffer
    <3>1. CASE /\ pc' = at /\ alarm' = FALSE
               /\ UNCHANGED <<running, current, buffer, ended>>
      BY <1>1, <2>3, <3>1 DEF CpuTyped
    <3>2. CASE ended' = "mixed" /\ UNCHANGED cpuVars
      BY <1>1, <2>3, <3>2 DEF CpuTyped, cpuVars
    <3> QED
      BY <2>1, <3>1, <3>2, <2>4 DEF Yielded
  <2> QED
    BY <2>1, <2>5, <2>4 DEF Yielded, cpuVars
<1>4. ASSUME Single PROVE CpuTyped'
  <2>1. \A at \in {"user", "exited"} :
          Context(at, FALSE) \in [at : Points, rearm : BOOLEAN, saved : BOOLEAN]
    BY DEF Context, Points
  <2>2. "user" \in Points /\ "exited" \in Points
        /\ "exitCurrent" \in Points /\ "exitJump" \in Points
        /\ "joinCurrent" \in Points /\ "joinJump" \in Points
        /\ "exitSave" \in Points
    BY DEF Points
  <2>3. CreateRaise => CpuTyped'
    <3>1. ASSUME CreateRaise PROVE NewPos \in Slots
      <4>1. state[Main] # "INVALID"
        BY <1>1, <3>1 DEF CreateRaise, Go, At, OwnPlaces
      <4> QED
        BY <4>1, NewPosSlot DEF NewPos
    <3> QED
      BY <1>1, <2>1, <2>2, <3>1 DEF CreateRaise, Go, CpuTyped
  <2>4. JoinSave \/ ExitSave => CpuTyped'
    BY <1>1, <2>1, <2>2 DEF JoinSave, ExitSave, Go, Save, CpuTyped
  <2>5. JoinCurrent \/ ExitCurrent => CpuTyped'
    BY <1>1, <2>1, <2>2
    DEF JoinCurrent, ExitCurrent, Go, At, CpuTyped, Numbers, OwnPlaces
  <2>6. JoinJump \/ ExitJump => CpuTyped'
    BY <1>1, <2>1, <2>2
    DEF JoinJump, ExitJump, Jump, Go, At, CpuTyped, Numbers, OwnPlaces
  <2>7. MainReturn \/ ExitedReturn => CpuTyped'
    BY <1>1 DEF MainReturn, ExitedReturn, CpuTyped, cpuVars
  <2>8. ExitActive => CpuTyped'
    BY <1>1, <2>2 DEF ExitActive, Go, Stay, CpuTyped
  <2> QED
    BY <1>4, <2>3, <2>4, <2>5, <2>6, <2>7, <2>8 DEF Single
<1> QED
  BY <1>2, <1>3, <1>4, Kinds

LEMMA TypesNext ==
  ASSUME IInv, Next PROVE TypeOK' /\ ListTyped' /\ Numbers'
BY CpuTypedNext, Shared, ListTypedNext, NumbersNext, TypePartsNext

-----------------------------------------------------------------------------
(* Where the threads are after a step.                                     *)

\* Nothing happens after an end.
LEMMA NextRuns ==
  ASSUME IInv, Next PROVE ended = "no" /\ Alive /\ TypeOK /\ CpuTyped /\ Numbers /\ OwnPlaces
<1>1. Within => ended = "no"
  BY DEF Within
<1>2. Yielding => ended = "no"
  BY YieldingDoes DEF IInv
<1>3. Single => ended = "no"
  BY DEF Single, CreateRaise, JoinSave, JoinCurrent, JoinJump, MainReturn,
     ExitActive, ExitSave, ExitCurrent, ExitJump, ExitedReturn, Go, At
<1> QED
  BY <1>1, <1>2, <1>3, Kinds, TypeParts DEF IInv, Alive

\* Where the threads are after a step: only the running one has moved.
Moved(to) == Whereabouts' = [Whereabouts EXCEPT ![running] = to]

LEMMA Stands ==
  ASSUME CpuTyped
  PROVE  /\ Whereabouts \in [Slots -> Points]
         /\ Whereabouts[running] = pc
         /\ \A t \in Slots : Whereabouts[t] = Where(t)
         /\ \A t \in Slots \ {running} : Whereabouts[t] = buffer[t].at
BY DEF CpuTyped, Whereabouts, Where

LEMMA StandsNext == ASSUME IInv, Next
  PROVE  /\ Whereabouts' \in [Slots -> Points]
         /\ Whereabouts'[running'] = pc'
         /\ \A t \in Slots : Whereabouts'[t] = Where(t)'
         /\ \A t \in Slots \ {running'} : Whereabouts'[t] = buffer'[t].at
BY CpuTypedNext DEF CpuTyped, Whereabouts, Where

LEMMA WithinMoves ==
  ASSUME IInv, Within, Next PROVE Moved(pc')
<1>1. UNCHANGED <<running, buffer>>
  BY DEF Within, Stay
<1> QED
  BY <1>1, NextRuns DEF Moved, Whereabouts, Where, CpuTyped

LEMMA YieldedMoves ==
  ASSUME IInv, NEW at \in Points, Yielded(at), Yielding,
         ended' \in {"no", "undefined"}
  PROVE  Moved(at)
<1>1. CpuTyped
  BY TypeParts DEF IInv
<1>2. CASE /\ pc' = at /\ UNCHANGED <<running, buffer>>
  BY <1>1, <1>2 DEF Moved, Whereabouts, Where, CpuTyped
<1>3. ASSUME NEW i \in Workers, 
             buffer' = [buffer EXCEPT ![running] = Context(at, TRUE)],
             running' = i, pc' = buffer'[i].at
      PROVE  Moved(at)
  <2>1. \A t \in Slots :
          buffer'[t] = IF t = running THEN Context(at, TRUE) ELSE buffer[t]
    BY <1>1, <1>3 DEF CpuTyped
  <2>2. \A t \in Slots : buffer'[t].at = IF t = running THEN at ELSE buffer[t].at
    BY <2>1 DEF Context
  <2>3. \A t \in Slots :
          Where(t)' = IF t = running THEN at ELSE Where(t)
    BY <1>3, <2>2 DEF Where
  <2>4. Slots' = Slots
    BY DEF Slots
  <2> QED
    BY <1>1, <2>3, <2>4 DEF Moved, Whereabouts, CpuTyped
<1> QED
  BY <1>2, <1>3 DEF Yielded, cpuVars

LEMMA SingleMoves ==
  ASSUME IInv, Next, Single
  PROVE  /\ CreateRaise => Moved("user")
         /\ JoinSave => Moved("joinCurrent")
         /\ JoinCurrent => Moved("joinJump")
         /\ JoinJump => running = Main /\ running' = Main
                        /\ Moved(buffer[Main].at)
         /\ ExitActive => Moved("exitSave")
         /\ ExitSave => Moved("exitCurrent")
         /\ ExitCurrent => Moved("exitJump")
         /\ ExitJump => running # Main /\ running' = Main
                        /\ Moved(buffer[running].at)
         /\ MainReturn \/ ExitedReturn => Moved(pc)
<1>0. OwnPlaces /\ CpuTyped /\ Numbers /\ Alive
  BY NextRuns
<1> USE <1>0, MainSlot DEF Moved, Whereabouts, Where, CpuTyped
<1>1. ASSUME CreateRaise PROVE Moved("user")
  <2>1. pc = "createRaise" /\ pc' = "user" /\ running' = running
        /\ running = Main /\ NewPos \in Workers \ {running}
        /\ buffer[NewPos] = NoContext
    <3>1. pc = "createRaise" /\ pc' = "user" /\ running' = running
      BY <1>1 DEF CreateRaise, Go, At
    <3>2. running = Main
      BY <3>1 DEF OwnPlaces, Workers
    <3> QED
      BY <3>1, <3>2 DEF Created, IInv
  <2>2. buffer' = [buffer EXCEPT ![NewPos] = Context("user", FALSE)]
    BY <1>1 DEF CreateRaise
  <2>3. \A t \in Slots : buffer'[t].at = buffer[t].at
    BY <2>1, <2>2 DEF NoContext, Context
  <2> QED
    BY <2>1, <2>3
<1>2. ASSUME JoinSave \/ ExitSave PROVE Moved(pc')
  BY <1>2 DEF JoinSave, ExitSave, Save, Go, At, OwnPlaces
<1>3. ASSUME JoinCurrent \/ ExitActive \/ ExitCurrent PROVE Moved(pc')
  BY <1>3 DEF JoinCurrent, ExitActive, ExitCurrent, Stay
<1>4. ASSUME JoinJump
      PROVE  running = Main /\ running' = Main /\ Moved(buffer[Main].at)
  <2>1. pc = "joinJump" /\ running' = Main /\ pc' = buffer[Main].at
        /\ buffer' = buffer
    BY <1>4 DEF JoinJump, Jump, At, Numbers
  <2>2. running = Main
    BY <2>1 DEF OwnPlaces, Workers, JoinPoints
  <2> QED
    BY <2>1, <2>2
<1>5. ASSUME ExitJump
      PROVE  running # Main /\ running' = Main /\ Moved(buffer[running].at)
  <2>1. pc = "exitJump" /\ running' = Main /\ pc' = buffer[Main].at
        /\ buffer' = buffer
    BY <1>5 DEF ExitJump, Jump, At, Numbers, OwnPlaces
  <2>2. running # Main
    BY <2>1 DEF OwnPlaces, ExitPoints
  <2> QED
    BY <2>1, <2>2
<1>6. MainReturn \/ ExitedReturn => Moved(pc)
  BY DEF MainReturn, ExitedReturn, cpuVars
<1> QED
  BY <1>1, <1>2, <1>3, <1>4, <1>5, <1>6
  DEF JoinSave, JoinCurrent, ExitActive, ExitSave, ExitCurrent, Go

\* What a yield that goes on does to the contexts.
LEMMA YieldGoesOn ==
  ASSUME IInv, NEW at \in Points, Yielded(at), Yielding, Next, Alive'
  PROVE  \/ /\ \A w \in Workers : state[w] # "ACTIVE"
            /\ pc' = at /\ alarm' = FALSE
            /\ UNCHANGED <<running, current, buffer, ended>>
         \/ /\ running = current /\ ended' = "no"
            /\ \A t \in Slots : buffer'[t] = IF t = running THEN Context(at, TRUE)
                                             ELSE buffer[t]
            /\ \A t \in Slots : buffer'[t].at = IF t = running THEN at
                                                ELSE buffer[t].at
            /\ running' \in Workers /\ state[running'] = "ACTIVE"
            /\ \A w \in Workers : w < running' => state[w] # "ACTIVE"
            /\ current' = running' /\ pc' = buffer'[running'].at
            /\ buffer'[running'].saved /\ alarm' = buffer'[running'].rearm
<1>1. CpuTyped
  BY NextRuns
<1>2. CASE buffer' = [buffer EXCEPT ![running] = Context(at, TRUE)]
  <2>1. \A t \in Slots :
          buffer'[t] = IF t = running THEN Context(at, TRUE) ELSE buffer[t]
    BY <1>1, <1>2 DEF CpuTyped
  <2>2. \A t \in Slots : buffer'[t].at = IF t = running THEN at ELSE buffer[t].at
    BY <2>1 DEF Context
  <2> QED
    BY <2>1, <2>2 DEF Yielded, Alive
<1> QED
  BY <1>2 DEF Yielded, Alive

LEMMA OwnPlacesNext ==
  ASSUME IInv, Next, Alive' PROVE OwnPlaces'
<1> USE MainSlot
<1>1. OwnPlaces /\ CpuTyped /\ Numbers
  BY NextRuns
<1>2. ASSUME Within PROVE OwnPlaces'
  <2>1. state'[Main] \notin {"INVALID", "FINISHED"}
    BY <1>1, <1>2 DEF Within, OwnPlaces, CpuTyped, CreateActive
  <2>2. pc' = "createRaise" => running = Main
    BY <1>2 DEF Within, CreateActive
  <2> QED
    BY <1>1, <1>2, <2>1, <2>2
    DEF Within, Stay, OwnPlaces, CpuTyped, Where, ExitPoints, JoinPoints, Workers
<1>3. ASSUME Yielding PROVE OwnPlaces'
  <2>1. PICK at \in Points :
          /\ Yielded(at)
          /\ \/ at = pc
             \/ pc = "user" /\ at = "user"
             \/ pc = "waitYield" /\ at = "relock"
    BY <1>1, <1>3, YieldingDoes DEF IInv, CpuTyped, Points
  <2>2. state' = state
    BY <1>1, <1>3, YieldingDoes DEF IInv
  <2>3. CASE /\ pc' = at /\ alarm' = FALSE
             /\ UNCHANGED <<running, current, buffer, ended>>
    BY <1>1, <2>1, <2>2, <2>3 DEF OwnPlaces, Where, ExitPoints, JoinPoints
  <2>4. CASE /\ running = current
             /\ \A t \in Slots : buffer'[t].at = IF t = running THEN at
                                                 ELSE buffer[t].at
             /\ running' \in Workers
             /\ current' = running' /\ pc' = buffer'[running'].at
    <3>1. pc # "exitJump" /\ at # "exitJump"
      BY <1>1, <2>1, <2>4 DEF OwnPlaces, ExitPoints, Where
    <3>2. \A t \in Slots : buffer'[t].at = IF t = running THEN at ELSE Where(t)
      BY <1>1, <2>4 DEF Where
    <3>3. \A t \in Slots : Where(t)' = buffer'[t].at
      BY <2>4 DEF Where
    <3>4. Where(Main)' \notin ExitPoints
          /\ \A w \in Workers : Where(w)' \notin {"createRaise"} \cup JoinPoints
      BY <1>1, <2>1, <3>2, <3>3 DEF OwnPlaces, ExitPoints, JoinPoints, Where
    <3>5. \A t \in Slots : buffer'[t].at # "exitJump"
      BY <1>1, <2>4, <3>1 DEF OwnPlaces
    <3>6. /\ pc' \notin JoinPoints
          /\ pc' = "exitCurrent" => buffer'[running'].at = "exitCurrent"
      BY <2>4, <3>3, <3>4
    <3>7. pc' # "exitJump"
      BY <2>4, <3>5
    <3>8. Workers' = Workers /\ Slots' = Slots /\ Main' = Main
          /\ ExitPoints' = ExitPoints /\ JoinPoints' = JoinPoints
      BY DEF Workers, Slots, Main, ExitPoints, JoinPoints
    <3> QED
      BY <1>1, <2>2, <2>4, <3>4, <3>5, <3>6, <3>7
      DEF OwnPlaces, JoinPoints
  <2> QED
    BY <1>3, <2>1, <2>3, <2>4, YieldGoesOn
<1>4. ASSUME CreateRaise PROVE OwnPlaces'
  <2>1. state[Main] # "INVALID" /\ pc = "createRaise" /\ pc' = "user"
        /\ UNCHANGED <<running, current, state>>
        /\ buffer' = [buffer EXCEPT ![NewPos] = Context("user", FALSE)]
    BY <1>1, <1>4 DEF CreateRaise, Go, At, OwnPlaces
  <2>2. \A t \in Slots : buffer'[t].at \in {buffer[t].at, "user"}
    BY <1>1, <2>1 DEF CpuTyped, Context
  <2> QED
    BY <1>1, <2>1, <2>2 DEF OwnPlaces, Where, ExitPoints, JoinPoints
<1>5. ASSUME JoinSave \/ ExitSave PROVE OwnPlaces'
  <2>1. PICK at \in {"user", "exited"} :
          /\ buffer' = [buffer EXCEPT ![running] = Context(at, FALSE)]
          /\ \/ pc = "joinSave" /\ pc' = "joinCurrent" /\ at = "user"
             \/ pc = "exitSave" /\ pc' = "exitCurrent" /\ at = "exited"
          /\ UNCHANGED <<running, current>>
    <3>1. CASE JoinSave
      <4>1. /\ pc = "joinSave" /\ pc' = "joinCurrent"
            /\ current = running /\ UNCHANGED <<running, current>>
            /\ buffer' = [buffer EXCEPT ![current] = Context("user", FALSE)]
        BY <1>1, <3>1 DEF JoinSave, Go, At, Save, OwnPlaces
      <4> QED
        BY <4>1
    <3>2. CASE ExitSave
      <4>1. /\ pc = "exitSave" /\ pc' = "exitCurrent"
            /\ current = running /\ UNCHANGED <<running, current>>
            /\ buffer' = [buffer EXCEPT ![current] = Context("exited", FALSE)]
        BY <1>1, <3>2 DEF ExitSave, Go, At, Save, OwnPlaces
      <4> QED
        BY <4>1
    <3> QED
      BY <1>5, <3>1, <3>2
  <2>2. \A t \in Slots : buffer'[t].at = IF t = running THEN at ELSE buffer[t].at
    BY <1>1, <2>1 DEF CpuTyped, Context
  <2>3. state'[Main] \notin {"INVALID", "FINISHED"}
    BY <1>1, <1>5 DEF JoinSave, ExitSave, OwnPlaces, CpuTyped
  <2> QED
    BY <1>1, <2>1, <2>2, <2>3
    DEF OwnPlaces, Where, ExitPoints, JoinPoints, CpuTyped, Workers
<1>6. ASSUME ExitActive PROVE OwnPlaces'
  <2>1. /\ pc = "exitActive" /\ pc' = "exitSave"
        /\ UNCHANGED <<running, current, buffer>>
        /\ state'[Main] \notin {"INVALID", "FINISHED"}
    BY <1>1, <1>6 DEF ExitActive, Go, At, Stay, OwnPlaces, CpuTyped
  <2> QED
    BY <1>1, <2>1 DEF OwnPlaces, Where, ExitPoints, JoinPoints, Workers, CpuTyped
<1>7. ASSUME JoinCurrent \/ ExitCurrent PROVE OwnPlaces'
  BY <1>1, <1>7 DEF JoinCurrent, ExitCurrent, Go, At, OwnPlaces, Numbers, Where,
     ExitPoints, JoinPoints, Workers, CpuTyped
<1>8. ASSUME JoinJump \/ ExitJump PROVE OwnPlaces'
  <2>1. running' = Main /\ pc' = buffer[Main].at /\ current' = Main
        /\ UNCHANGED <<buffer, state>>
    <3>1. CASE JoinJump
      BY <1>1, <3>1 DEF JoinJump, Jump, At, OwnPlaces, Numbers, Workers,
         JoinPoints, Where, CpuTyped
    <3>2. CASE ExitJump
      BY <1>1, <3>2 DEF ExitJump, Jump, At, OwnPlaces, Numbers
    <3> QED
      BY <1>8, <3>1, <3>2
  <2>2. Where(Main)' \notin ExitPoints
    BY <1>1, <1>8, <2>1 DEF JoinJump, ExitJump, At, OwnPlaces, Where, Workers,
       JoinPoints, ExitPoints
  <2>3. \A w \in Workers : Where(w)' \notin {"createRaise"} \cup JoinPoints
    BY <1>1, <1>8, <2>1 DEF JoinJump, ExitJump, At, OwnPlaces, Where, Workers,
       JoinPoints, ExitPoints
  <2> QED
    BY <1>1, <2>1, <2>2, <2>3 DEF OwnPlaces, Where, ExitPoints
<1>9. MainReturn \/ ExitedReturn => OwnPlaces'
  BY <1>1 DEF MainReturn, ExitedReturn, cpuVars, OwnPlaces, Where
<1> QED
  BY <1>2, <1>3, <1>4, <1>5, <1>7, <1>8, <1>9, <1>6, Kinds DEF Single

LEMMA CreatedNext ==
  ASSUME IInv, Next, Alive' PROVE Created'
<1> USE MainSlot
<1>1. OwnPlaces /\ CpuTyped /\ Numbers /\ Created
  BY NextRuns DEF IInv
<1>2. ASSUME CreateActive PROVE Created'
  <2>1. PICK i \in Slots :
          /\ state[i] = "INVALID"
          /\ \A j \in 0 .. i - 1 : state[j] # "INVALID"
          /\ state' = [state EXCEPT ![i] = "ACTIVE"]
    BY <1>2 DEF CreateActive
  <2>2. running = Main /\ UNCHANGED <<running, buffer>>
    BY <1>2 DEF CreateActive, Stay
  <2>3. \A j \in Slots : j > i => state'[j] = "INVALID"
    BY <1>1, <2>1 DEF Created, CpuTyped, Slots
  <2>4. \A j \in Slots : j <= i => state'[j] # "INVALID"
    BY <1>1, <2>1 DEF CpuTyped, Slots
  <2>5. NewPos' = i
    <3>1. state'[i] # "INVALID"
      BY <2>1, <1>1 DEF CpuTyped
    <3> QED
      BY <2>3, <3>1, NewPosIs DEF NewPos
  <2>6. i \in Workers \ {running} /\ buffer[i] = NoContext
    BY <1>1, <2>1, <2>2 DEF OwnPlaces, Workers, Created
  <2>7. \A k \in Slots : state'[k] = "INVALID" => buffer'[k] = NoContext
    BY <1>1, <2>1, <2>2 DEF Created, CpuTyped
  <2>8. \A j, k \in Slots : j < k /\ state'[k] # "INVALID" => state'[j] # "INVALID"
    BY <2>3, <2>4 DEF Slots
  <2> QED
    BY <2>2, <2>5, <2>6, <2>7, <2>8 DEF Created
\* The slots in use stay the same.
<1>3. ASSUME \A i \in Slots : (state'[i] = "INVALID") = (state[i] = "INVALID")
      PROVE  NewPos' = NewPos
  <2>1. {i \in Slots : state'[i] # "INVALID"} = {i \in Slots : state[i] # "INVALID"}
    BY <1>3
  <2> QED
    BY <2>1 DEF NewPos
<1>4. ASSUME Within, ~CreateActive PROVE Created'
  <2>1. \A i \in Slots : (state'[i] = "INVALID") = (state[i] = "INVALID")
    BY <1>1, <1>4 DEF Within, CpuTyped, OwnPlaces
  <2>2. NewPos' = NewPos
    BY <1>3, <2>1
  <2>3. UNCHANGED <<running, buffer>> /\ pc' # "createRaise"
    BY <1>4 DEF Within, Stay
  <2> QED
    BY <1>1, <2>1, <2>2, <2>3 DEF Created, Where
<1>5. ASSUME Yielding PROVE Created'
  <2>1. PICK at \in Points : Yielded(at) /\ (at = pc \/ at \in {"user", "relock"})
    BY <1>1, <1>5, YieldingDoes DEF IInv, CpuTyped, Points
  <2>2. state' = state /\ NewPos' = NewPos
    <3>1. state' = state
      BY <1>1, <1>5, YieldingDoes DEF IInv
    <3> QED
      BY <3>1 DEF NewPos
  <2>3. CASE /\ pc' = at /\ alarm' = FALSE
             /\ UNCHANGED <<running, current, buffer, ended>>
    BY <1>1, <2>1, <2>2, <2>3 DEF Created, Where
  <2>4. CASE /\ \A t \in Slots : buffer'[t] = IF t = running THEN Context(at, TRUE)
                                              ELSE buffer[t]
             /\ \A t \in Slots : buffer'[t].at = IF t = running THEN at
                                                 ELSE buffer[t].at
             /\ running' \in Workers /\ buffer'[running'].saved
    <3>1. Where(Main)' = IF Main = running THEN at ELSE Where(Main)
      BY <1>1, <2>4 DEF Where, Workers
    <3>2. Where(Main)' = "createRaise" =>
            Where(Main) = "createRaise"
      BY <2>1, <3>1 DEF Where
    <3>3. Where(Main) = "createRaise" =>
            buffer'[NewPos] = NoContext /\ NewPos # running' /\ NewPos \in Workers
      <4>1. Where(Main) = "createRaise" =>
              buffer'[NewPos] = NoContext /\ NewPos \in Workers
        BY <1>1, <2>4 DEF Created
      <4> QED
        BY <2>4, <4>1 DEF NoContext
    <3>4. \A i \in Slots : state[i] = "INVALID" => buffer'[i] = NoContext
      BY <1>1, <2>4 DEF Created, CpuTyped
    <3> QED
      BY <1>1, <2>2, <3>2, <3>3, <3>4 DEF Created
  <2> QED
    BY <1>5, <2>1, <2>3, <2>4, YieldGoesOn
<1>6. ASSUME Single PROVE Created'
  <2>1. \A i \in Slots : (state'[i] = "INVALID") = (state[i] = "INVALID")
    <3>1. ExitActive \/ UNCHANGED state
      BY <1>6 DEF Single, CreateRaise, JoinSave, JoinCurrent, JoinJump, MainReturn,
         ExitSave, ExitCurrent, ExitJump, ExitedReturn
    <3> QED
      BY <1>1, <3>1 DEF ExitActive, CpuTyped
  <2>2. NewPos' = NewPos
    BY <1>3, <2>1
  <2>3. CASE CreateRaise
    <3>1. running' = running /\ pc' = "user" /\ pc = "createRaise"
          /\ buffer' = [buffer EXCEPT ![NewPos] = Context("user", FALSE)]
      BY <2>3 DEF CreateRaise, Go, At
    <3>2. running = Main
      BY <1>1, <3>1 DEF OwnPlaces, Where, Workers, CpuTyped
    <3>3. state[NewPos] # "INVALID" /\ NewPos \in Slots
      <4>1. state[Main] # "INVALID"
        BY <1>1 DEF OwnPlaces
      <4> QED
        BY <4>1, NewPosSlot DEF NewPos
    <3>4. \A i \in Slots : state'[i] = "INVALID" => buffer'[i] = NoContext
      BY <1>1, <2>1, <3>1, <3>3 DEF Created, CpuTyped
    <3> QED
      BY <1>1, <2>1, <3>1, <3>2, <3>4 DEF Created, Where
  <2>4. CASE JoinSave \/ ExitSave
    <3>1. PICK c : buffer' = [buffer EXCEPT ![running] = c]
      BY <1>1, <2>4 DEF JoinSave, ExitSave, Go, At, Save, OwnPlaces
    <3>2. running' = running /\ pc' # "createRaise"
      BY <2>4 DEF JoinSave, ExitSave, Go
    <3> QED
      BY <1>1, <2>1, <2>2, <3>1, <3>2 DEF Created, CpuTyped, Where
  <2>5. CASE JoinCurrent \/ ExitActive \/ ExitCurrent \/ MainReturn \/ ExitedReturn
    <3>1. /\ UNCHANGED <<running, buffer>>
          /\ pc' \in {pc, "joinJump", "exitSave", "exitJump"}
      BY <2>5 DEF JoinCurrent, ExitActive, ExitCurrent, Go, Stay, MainReturn,
         ExitedReturn, cpuVars
    <3> QED
      BY <1>1, <2>1, <2>2, <3>1 DEF Created, Where
  <2>6. CASE JoinJump \/ ExitJump
    <3>1. running' = Main /\ pc' = buffer[Main].at /\ buffer' = buffer
      BY <1>1, <2>6 DEF JoinJump, ExitJump, Jump, At, OwnPlaces, Numbers
    <3>2. JoinJump => running = Main /\ buffer[Main].at # "createRaise"
      BY <1>1 DEF JoinJump, At, OwnPlaces, Where, Workers, JoinPoints, CpuTyped
    <3>3. ExitJump => running # Main
      BY <1>1 DEF ExitJump, At, OwnPlaces, Where, ExitPoints
    <3> QED
      BY <1>1, <2>1, <2>2, <2>6, <3>1, <3>2, <3>3 DEF Created, Where, Workers
  <2> QED
    BY <1>6, <2>3, <2>4, <2>5, <2>6 DEF Single
<1> QED
  BY <1>2, <1>4, <1>5, <1>6, Kinds

-----------------------------------------------------------------------------
(* The mutexes, the counter and the list.                                  *)

\* What a step does to a mutex that guards some points: it stays outside or
\* inside, locks, or unlocks.
Locking(points, from, to, held, heldNext) ==
  \/ (from \in points) = (to \in points) /\ heldNext = held
  \/ from \notin points /\ to \in points /\ ~held /\ heldNext = TRUE
  \/ from \in points /\ to \notin points /\ heldNext = FALSE

\* What a step does to the counter.
Counting(to) ==
  \/ /\ UNCHANGED queueVars
     /\ to \in {"produce", "consume"} => to = pc
     /\ to = "take" => pc = "take" \/ queue_size # 0
  \/ /\ \/ pc = "critical" /\ to = "produce"
        \/ pc = "take" /\ to = "consume"
     /\ loaded' = [loaded EXCEPT ![running] = queue_size]
     /\ UNCHANGED <<queue_size, stock>>
  \/ \E c \in {1, -1} :
       /\ pc = IF c = 1 THEN "produce" ELSE "consume"
       /\ to \notin {"produce", "take", "consume"}
       /\ queue_size' = loaded[running] + c
       /\ stock' = stock + c
       /\ loaded' = [loaded EXCEPT ![running] = 0]

\* What a step does to the list of waiters.
Listing(to) ==
  \/ /\ UNCHANGED listVars
     /\ {pc, to} \cap NodePoints # {} => to = pc
     /\ to \in {"broadcastUnlock", "broadcastEnd"} =>
          pc \in {"broadcastUnlock", "broadcastEnd"} \/ waiters.head = Null
  \/ ListStep /\ to = pc' /\ to \notin {"broadcastUnlock", "broadcastEnd"}

Effect(to) ==
  /\ to \in Points
  /\ Locking(HoldingPoints, pc, to, locked, locked')
  /\ Locking(InternalPoints, pc, to, internal, internal')
  /\ Counting(to)
  /\ Listing(to)

LEMMA WalkingEffect ==
  ASSUME IInv, Walking PROVE Effect(pc')
<1> USE DEF Effect, Locking, Counting, Listing, lockVars, listVars, queueVars,
            HoldingPoints, InternalPoints, NodePoints, Points, Go, At, Step,
            InProgram
<1>1. Loaded /\ OwnPlaces
  <2>1. ended = "no"
    BY WalkingIsWithin DEF Within
  <2> QED
    BY <2>1 DEF IInv, Alive
<1>2. CreateActive \/ ExitFinish \/ LockCall => Effect(pc')
  BY DEF CreateActive, ExitFinish, LockCall
<1>3. JoinBlock => Effect(pc')
  <2>1. JoinBlock => /\ pc = "user" /\ pc' \in {"user", "joinSave"}
                     /\ UNCHANGED <<lockVars, listVars, queueVars>>
    BY DEF JoinBlock
  <2> QED
    BY <2>1
<1>4. Lock("lock", "critical") \/ Lock("relock", "retest") => Effect(pc')
  BY DEF Lock
<1>5. Unlock("leave", "user") \/ Unlock("waitUnlock", "waitUnlockInternal")
        => Effect(pc')
  BY DEF Unlock
<1>6. InternalLock => Effect(pc')
  <2>1. InternalLock =>
          /\ \/ pc = "waitLock" /\ pc' = "waitQueue"
             \/ pc = "signalLock" /\ pc' = "signalRemove"
             \/ pc = "broadcastLock" /\ pc' = "broadcastRemove"
          /\ ~internal /\ internal' = TRUE
          /\ UNCHANGED <<locked, listVars, queueVars>>
    BY DEF InternalLock
  <2>2. InternalLock => Locking(InternalPoints, pc, pc', internal, internal')
    <3>1. InternalLock => pc \notin InternalPoints /\ pc' \in InternalPoints
      BY <2>1
    <3> QED
      BY <2>1, <3>1
  <2>3. InternalLock => Locking(HoldingPoints, pc, pc', locked, locked')
    <3>1. InternalLock => pc \in HoldingPoints /\ pc' \in HoldingPoints
      BY <2>1
    <3> QED
      BY <2>1, <3>1
  <2> QED
    BY <2>1, <2>2, <2>3
<1>7. WaitBlock => Effect(pc')
  BY DEF WaitBlock
<1>8. InternalUnlock => Effect(pc')
  BY DEF InternalUnlock
<1>9. ListStep => Listing(pc')
  <2>1. ListStep /\ pc' \in {"broadcastUnlock", "broadcastEnd"} =>
          pc = "broadcastRemove" /\ waiters.head = Null /\ UNCHANGED listVars
    BY DEF ListStep, WaitQueue, WaitLink, WaitTail, WaitHead, SignalRemove,
       BroadcastRemove, Remove, RemoveHead, RemoveCut, SignalActive,
       BroadcastActive, Activate
  <2> QED
    BY <2>1
<1>10. ASSUME ListStep PROVE Effect(pc')
  <2>1. /\ UNCHANGED <<locked, internal, queueVars>>
        /\ pc \in HoldingPoints \cap InternalPoints
        /\ pc' \in HoldingPoints \cap InternalPoints
        /\ pc' \notin {"produce", "take", "consume"}
    BY <1>10 DEF ListStep, WaitQueue, WaitLink, WaitTail, WaitHead, SignalRemove,
       BroadcastRemove, Remove, RemoveHead, RemoveCut, SignalActive,
       BroadcastActive, Activate
  <2>2. Counting(pc') /\ pc' \in Points
    BY <2>1
  <2>3. Locking(HoldingPoints, pc, pc', locked, locked')
    BY <2>1
  <2>4. Locking(InternalPoints, pc, pc', internal, internal')
    BY <2>1
  <2> QED
    BY <1>9, <1>10, <2>2, <2>3, <2>4
<1>11. BroadcastReturn => Effect(pc')
  BY DEF BroadcastReturn
<1>12. Produce \/ Consume => Effect(pc')
  BY DEF Produce, Consume, Load
<1>13. ASSUME Produced PROVE Effect(pc')
  <2>1. /\ pc = "produce" /\ pc' \in {"leave", "signalLock", "broadcastLock"}
        /\ queue_size' = loaded[running] + 1 /\ stock' = stock + 1
        /\ loaded' = [loaded EXCEPT ![running] = 0]
        /\ UNCHANGED <<lockVars, listVars>>
    BY <1>13 DEF Produced, Store
  <2> QED
    BY <2>1
<1>14. ASSUME Consumed PROVE Effect(pc')
  <2>1. /\ pc = "consume" /\ pc' = "leave"
        /\ queue_size' = loaded[running] + (-1) /\ stock' = stock + (-1)
        /\ loaded' = [loaded EXCEPT ![running] = 0]
        /\ UNCHANGED <<lockVars, listVars>>
    BY <1>14 DEF Consumed, Store
  <2> QED
    BY <2>1
<1>15. TestOnce \/ WaitTest => Effect(pc')
  BY DEF TestOnce, WaitTest
<1> QED
  BY <1>2, <1>3, <1>4, <1>5, <1>6, <1>7, <1>8, <1>9, <1>10, <1>11, <1>12,
     <1>13, <1>14, <1>15 DEF Walking

\* Every step moves the running thread alone, and what it does to the mutexes,
\* the counter and the list depends on where it is and where it goes.
LEMMA StepEffect ==
  ASSUME IInv, Next, Alive'
  PROVE  \E to \in Points : Moved(to) /\ Effect(to)
<1>1. OwnPlaces /\ CpuTyped /\ Numbers
  BY NextRuns
<1> USE DEF Effect, Locking, Counting, Listing
<1>2. ASSUME Walking PROVE Moved(pc') /\ Effect(pc')
  BY <1>2, WalkingEffect, WalkingIsWithin, WithinMoves
<1>3. ASSUME Yielding PROVE \E to \in Points : Moved(to) /\ Effect(to)
  <2>1. UNCHANGED <<locked, internal, queueVars, listVars>>
    BY <1>1, <1>3, YieldingDoes DEF IInv, lockVars
  <2>2. PICK to \in Points :
          /\ Yielded(to)
          /\ \/ to = pc
             \/ pc \in {"user", "waitYield"} /\ to \in {"user", "relock"}
    BY <1>1, <1>3, YieldingDoes DEF IInv, CpuTyped, Points
  <2>3. Moved(to)
    <3>1. ended' \in {"no", "undefined"}
      BY <1>3, <2>2, YieldGoesOn, NextRuns
    <3> QED
      BY <1>3, <2>2, <3>1, YieldedMoves
  <2> QED
    BY <2>1, <2>2, <2>3 DEF HoldingPoints, InternalPoints, NodePoints
<1>4. ASSUME Single PROVE \E to \in Points : Moved(to) /\ Effect(to)
  <2> DEFINE Out == Points \ (HoldingPoints \cup InternalPoints)
  <2>1. UNCHANGED <<locked, internal, queueVars, listVars>>
    BY <1>4 DEF Single, CreateRaise, JoinSave, JoinCurrent, JoinJump, MainReturn,
       ExitActive, ExitSave, ExitCurrent, ExitJump, ExitedReturn, lockVars
  <2>2. {"user", "createRaise", "exited"} \cup JoinPoints \cup ExitPoints
          \subseteq Out
    BY DEF Points, HoldingPoints, InternalPoints, JoinPoints, ExitPoints
  <2>3. \E to \in Points : Moved(to) /\ (to = pc \/ {pc, to} \subseteq Out)
    <3>1. CASE CreateRaise
      BY <2>2, <3>1, <1>4, SingleMoves DEF CreateRaise, Go, At
    <3>2. CASE JoinSave \/ JoinCurrent
      BY <2>2, <3>2, <1>4, SingleMoves DEF JoinSave, JoinCurrent, Go, At, JoinPoints
    <3>3. CASE JoinJump
      BY <2>2, <3>3, <1>1, <1>4, SingleMoves DEF JoinJump, At, JoinPoints, OwnPlaces
    <3>4. CASE ExitActive \/ ExitSave \/ ExitCurrent
      BY <2>2, <3>4, <1>4, SingleMoves
      DEF ExitActive, ExitSave, ExitCurrent, Go, At, ExitPoints
    <3>5. CASE ExitJump
      BY <2>2, <3>5, <1>1, <1>4, SingleMoves DEF ExitJump, At, ExitPoints, OwnPlaces
    <3>6. CASE MainReturn \/ ExitedReturn
      BY <3>6, <1>1, <1>4, SingleMoves DEF CpuTyped
    <3> QED
      BY <1>4, <3>1, <3>2, <3>3, <3>4, <3>5, <3>6 DEF Single
  <2>4. PICK to \in Points : Moved(to) /\ (to = pc \/ {pc, to} \subseteq Out)
    BY <2>3
  <2>5. Counting(to) /\ Listing(to)
    BY <2>1, <2>4 DEF HoldingPoints, NodePoints
  <2>6. Locking(HoldingPoints, pc, to, locked, locked')
    BY <2>1, <2>4
  <2>7. Locking(InternalPoints, pc, to, internal, internal')
    BY <2>1, <2>4
  <2> QED
    BY <2>4, <2>5, <2>6, <2>7
<1> QED
  BY <1>2, <1>3, <1>4, Kinds DEF Effect

\* A mutex excludes when a thread that is inside holds it, and only one is.
Excludes(at, points, held) ==
  /\ \A t, u \in Slots : at[t] \in points /\ at[u] \in points => t = u
  /\ held = (\E t \in Slots : at[t] \in points)

LEMMA LockingExcludes ==
  ASSUME NEW at \in [Slots -> Points], NEW points, NEW held \in BOOLEAN,
         NEW heldNext, NEW r \in Slots, NEW to \in Points,
         Excludes(at, points, held),
         Locking(points, at[r], to, held, heldNext)
  PROVE  Excludes([at EXCEPT ![r] = to], points, heldNext)
BY DEF Excludes, Locking

LEMMA MutexIs ==
  ASSUME CpuTyped
  PROVE  /\ Whereabouts \in [Slots -> Points]
         /\ (\A t, u \in Inside(HoldingPoints) : t = u)
              /\ locked = (Inside(HoldingPoints) # {})
            <=> Excludes(Whereabouts, HoldingPoints, locked)
         /\ (\A t, u \in Inside(InternalPoints) : t = u)
              /\ internal = (Inside(InternalPoints) # {})
            <=> Excludes(Whereabouts, InternalPoints, internal)
<1>1. \A t \in Slots : Whereabouts[t] = Where(t)
  BY Stands
<1>2. \A points : Inside(points) = {t \in Slots : Whereabouts[t] \in points}
  BY <1>1 DEF Inside
<1> QED
  BY <1>2, Stands DEF Excludes

LEMMA MutexWhen ==
  CpuTyped /\ Excludes(Whereabouts, HoldingPoints, locked)
    /\ Excludes(Whereabouts, InternalPoints, internal) => MutexExclusion
BY MutexIs DEF MutexExclusion

LEMMA MutexWhenNext ==
  CpuTyped' /\ Excludes(Whereabouts, HoldingPoints, locked)'
    /\ Excludes(Whereabouts, InternalPoints, internal)' => MutexExclusion'
BY MutexWhen, PTL

LEMMA MutexNext ==
  ASSUME IInv, Next, Alive' PROVE MutexExclusion'
<1>1. CpuTyped /\ DataTyped /\ Alive
  BY NextRuns, TypeParts
<1>2. /\ Excludes(Whereabouts, HoldingPoints, locked)
      /\ Excludes(Whereabouts, InternalPoints, internal)
  BY <1>1, MutexIs DEF IInv, MutexExclusion, Alive
<1>3. PICK to \in Points : Moved(to) /\ Effect(to)
  BY StepEffect
<1>4. /\ running \in Slots /\ Whereabouts \in [Slots -> Points]
      /\ Whereabouts[running] = pc
      /\ locked \in BOOLEAN /\ internal \in BOOLEAN
  BY <1>1, Stands DEF CpuTyped, DataTyped
<1>5. Excludes([Whereabouts EXCEPT ![running] = to], HoldingPoints, locked')
  BY <1>2, <1>3, <1>4, LockingExcludes DEF Effect
<1>6. Excludes([Whereabouts EXCEPT ![running] = to], InternalPoints, internal')
  BY <1>2, <1>3, <1>4, LockingExcludes DEF Effect
<1> QED
  BY <1>3, <1>5, <1>6, CpuTypedNext, MutexWhenNext
  DEF Moved, Excludes, Slots, HoldingPoints, InternalPoints

\* When the thread that runs is inside a mutex, nobody else is.
LEMMA Alone ==
  ASSUME IInv, Alive, NEW t \in Slots, t # running
  PROVE  /\ pc \in HoldingPoints => Whereabouts[t] \notin HoldingPoints
         /\ pc \in InternalPoints => Whereabouts[t] \notin InternalPoints
<1>1. CpuTyped
  BY TypeParts DEF IInv
<1> QED
  BY <1>1, Stands DEF IInv, MutexExclusion, Inside, CpuTyped, Alive

\* Where the threads are once the running one has moved.
LEMMA MovedStands ==
  ASSUME IInv, Next, NEW to \in Points, Moved(to)
  PROVE  \A t \in Slots : Where(t)' = IF t = running THEN to ELSE Where(t)
<1>1. CpuTyped
  BY NextRuns
<1>2. /\ \A t \in Slots : Where(t)' = Whereabouts'[t]
      /\ \A t \in Slots : Whereabouts[t] = Where(t)
      /\ Whereabouts \in [Slots -> Points]
  BY <1>1, Stands, StandsNext
<1> QED
  BY <1>2 DEF Moved

LEMMA LoadedNext ==
  ASSUME IInv, Next, Alive' PROVE Loaded'
<1>1. CpuTyped /\ DataTyped /\ Alive /\ Loaded
  BY NextRuns, TypeParts DEF IInv
<1>2. PICK to \in Points : Moved(to) /\ Effect(to)
  BY StepEffect
<1>3. /\ running \in Slots /\ Whereabouts \in [Slots -> Points]
      /\ Whereabouts[running] = pc
      /\ \A t \in Slots : Whereabouts[t] = Where(t)
      /\ loaded \in [Slots -> Int] /\ queue_size \in Int /\ stock = queue_size
      /\ queue_size >= 0
  BY <1>1, Stands DEF CpuTyped, DataTyped, Loaded
<1>4. /\ \A t \in Slots : Whereabouts[t] \in {"produce", "consume"} =>
                            loaded[t] = queue_size
      /\ \A t \in Slots : Whereabouts[t] \in {"take", "consume"} => queue_size > 0
  BY <1>1, <1>3 DEF Loaded, Inside
<1>5. \A t \in Slots : Where(t)' = IF t = running THEN to ELSE Whereabouts[t]
  <2>1. \A t \in Slots : Where(t)' = Whereabouts'[t]
    BY StandsNext
  <2> QED
    BY <1>2, <1>3, <2>1 DEF Moved
<1>6. /\ queue_size' = stock' /\ queue_size' >= 0
      /\ \A t \in Slots : Where(t)' \in {"produce", "consume"} =>
                            loaded'[t] = queue_size'
      /\ \A t \in Slots : Where(t)' \in {"take", "consume"} => queue_size' > 0
  <2>1. CASE /\ UNCHANGED queueVars
             /\ to \in {"produce", "consume"} => to = pc
             /\ to = "take" => pc = "take" \/ queue_size # 0
    BY <1>3, <1>4, <1>5, <2>1 DEF queueVars
  <2>2. CASE /\ \/ pc = "critical" /\ to = "produce"
                \/ pc = "take" /\ to = "consume"
             /\ loaded' = [loaded EXCEPT ![running] = queue_size]
             /\ UNCHANGED <<queue_size, stock>>
    BY <1>3, <1>4, <1>5, <2>2
  <2>3. ASSUME NEW c \in {1, -1},
               pc = IF c = 1 THEN "produce" ELSE "consume",
               to \notin {"produce", "take", "consume"},
               queue_size' = loaded[running] + c,
               stock' = stock + c,
               loaded' = [loaded EXCEPT ![running] = 0]
        PROVE  /\ queue_size' = stock' /\ queue_size' >= 0
               /\ \A t \in Slots : Where(t)' \notin {"produce", "take", "consume"}
    <3>1. pc \in {"produce", "consume"} /\ pc \in HoldingPoints
      BY <2>3 DEF HoldingPoints
    <3>2. loaded[running] = queue_size /\ (c = -1 => queue_size > 0)
      BY <1>3, <1>4, <2>3, <3>1
    <3>3. \A t \in Slots : t # running => Whereabouts[t] \notin HoldingPoints
      BY <1>1, <3>1, Alone
    <3> QED
      BY <1>3, <1>5, <2>3, <3>2, <3>3 DEF HoldingPoints
  <2> QED
    BY <1>2, <2>1, <2>2, <2>3 DEF Effect, Counting
<1> QED
  BY <1>6 DEF Loaded, Inside, Slots

LEMMA EmptiedNext ==
  ASSUME IInv, Next, Alive' PROVE Emptied'
<1>1. CpuTyped /\ Alive /\ Emptied
  BY NextRuns DEF IInv
<1>2. PICK to \in Points : Moved(to) /\ Effect(to)
  BY StepEffect
<1>3. /\ running \in Slots /\ Whereabouts \in [Slots -> Points]
      /\ Whereabouts[running] = pc
      /\ \A t \in Slots : Whereabouts[t] = Where(t)
  BY <1>1, Stands DEF CpuTyped
<1>4. \A t \in Slots : Whereabouts[t] \in {"broadcastUnlock", "broadcastEnd"} =>
                         waiters.head = Null
  BY <1>1, <1>3 DEF Emptied, Inside
<1>5. \A t \in Slots : Where(t)' = IF t = running THEN to ELSE Whereabouts[t]
  <2>1. \A t \in Slots : Where(t)' = Whereabouts'[t]
    BY StandsNext
  <2> QED
    BY <1>2, <1>3, <2>1 DEF Moved
<1>6. \A t \in Slots : Where(t)' \in {"broadcastUnlock", "broadcastEnd"} =>
                         waiters'.head = Null
  <2>1. CASE /\ UNCHANGED listVars
             /\ to \in {"broadcastUnlock", "broadcastEnd"} =>
                  pc \in {"broadcastUnlock", "broadcastEnd"} \/ waiters.head = Null
    BY <1>3, <1>4, <1>5, <2>1 DEF listVars
  <2>2. CASE ListStep /\ to \notin {"broadcastUnlock", "broadcastEnd"}
    <3>1. pc \in HoldingPoints
      BY <2>2, ListBegins
    <3> QED
      BY <1>1, <1>5, <2>2, <3>1, Alone DEF HoldingPoints
  <2> QED
    BY <1>2, <2>1, <2>2 DEF Effect, Listing
<1> QED
  BY <1>6 DEF Emptied, Inside, Slots, Null

\* Only the thread that runs is between two stores to the list.
LEMMA LinkageNext ==
  ASSUME IInv, Next, Alive' PROVE Linkage'
<1>1. CpuTyped /\ Alive /\ Linkage /\ ListTyped
  BY NextRuns DEF IInv
<1>2. PICK to \in Points : Moved(to) /\ Effect(to)
  BY StepEffect
<1>3. /\ running \in Slots /\ Where(running) = pc
      /\ \A t \in Slots : Where(t)' = IF t = running THEN to ELSE Where(t)
      /\ HalfLinked \subseteq NodePoints /\ NodePoints \subseteq InternalPoints
  BY <1>1, <1>2, MovedStands
  DEF CpuTyped, Where, HalfLinked, NodePoints, InternalPoints
<1>4. \A list, x, t : \A place \in Points \ NodePoints : Fits(place, list, x, t)
  BY DEF Fits, NodePoints
<1>5. /\ (\A t \in Slots : Where(t)' \notin HalfLinked) => IsChain(waiters')
      /\ \A t \in Slots : Fits(Where(t)', waiters', node'[t], t)
  <2>1. CASE UNCHANGED listVars /\ ({pc, to} \cap NodePoints # {} => to = pc)
    <3>1. UNCHANGED <<waiters, node>>
      BY <2>1 DEF listVars
    <3>2. /\ \A t \in Slots : Fits(Where(t), waiters, node[t], t)
          /\ (\A t \in Slots : Where(t) \notin HalfLinked) => IsChain(waiters)
      BY <1>1 DEF Linkage
    <3>3. ASSUME NEW t \in Slots PROVE Fits(Where(t)', waiters', node'[t], t)
      <4>1. CASE t # running \/ to = pc
        <5>1. Where(t)' = Where(t)
          BY <1>3, <4>1
        <5> QED
          BY <3>1, <3>2, <5>1
      <4>2. CASE t = running /\ to # pc
        <5>1. Where(t)' = to /\ to \in Points \ NodePoints
          BY <1>2, <1>3, <2>1, <4>2
        <5> QED
          BY <1>4, <5>1
      <4> QED
        BY <4>1, <4>2
    <3>4. ASSUME \A t \in Slots : Where(t)' \notin HalfLinked
          PROVE  \A t \in Slots : Where(t) \notin HalfLinked
      BY <1>3, <2>1, <3>4
    <3> QED
      BY <3>1, <3>2, <3>3, <3>4
  <2>2. CASE ListStep /\ to = pc'
    <3>1. ListGoes /\ pc \in InternalPoints
      BY <1>1, <2>2, ListBegins, ListSteps
    <3>2. ASSUME NEW t \in Slots PROVE Fits(Where(t)', waiters', node'[t], t)
      <4>1. CASE t = running
        <5>1. Where(t)' = pc' /\ Fits(pc', waiters', node'[t], t)
          BY <1>3, <2>2, <3>1, <4>1 DEF ListGoes
        <5> QED
          BY <5>1
      <4>2. CASE t # running
        <5>1. Where(t)' = Where(t) /\ Where(t) \in Points \ NodePoints
          <6>1. Whereabouts[t] \notin InternalPoints
            BY <1>1, <3>1, <4>2, Alone
          <6> QED
            BY <1>1, <1>3, <4>2, <6>1, Stands
        <5> QED
          BY <1>4, <5>1
      <4> QED
        BY <4>1, <4>2
    <3> QED
      BY <1>3, <2>2, <3>1, <3>2 DEF ListGoes
  <2> QED
    BY <1>2, <2>1, <2>2 DEF Effect, Listing
<1>6. Slots' = Slots /\ HalfLinked' = HalfLinked
  BY DEF Slots, HalfLinked
<1> QED
  BY <1>5, <1>6 DEF Linkage, Fits

-----------------------------------------------------------------------------
(* Contexts, as long as nobody has called thread_exit().                    *)

\* A yield that is not at the points of an end leaves the thread there.
LEMMA YieldingMoves ==
  ASSUME IInv, Next, Yielding
  PROVE  \/ ended' = "mixed" /\ UNCHANGED <<running, pc, buffer>>
         \/ \E to \in Points : /\ Moved(to)
                               /\ \/ to = pc
                                  \/ pc = "user" /\ to = "user"
                                  \/ pc = "waitYield" /\ to = "relock"
<1>1. CpuTyped /\ TypeOK /\ ended = "no"
  BY NextRuns
<1>2. PICK to \in Points : /\ Yielded(to)
                           /\ \/ to = pc
                              \/ pc = "user" /\ to = "user"
                              \/ pc = "waitYield" /\ to = "relock"
  BY <1>1, YieldingDoes DEF CpuTyped, Points
<1>3. \/ ended' = "mixed" /\ UNCHANGED <<running, pc, buffer>>
      \/ ended' \in {"no", "undefined"}
  BY <1>1, <1>2 DEF Yielded, cpuVars
<1> QED
  BY <1>2, <1>3, YieldedMoves

\* A worker that called thread_exit() never gets out of it.
LEMMA ExitingStays ==
  ASSUME IInv, Next, Exiting PROVE Exiting'
<1> USE MainSlot
<1>1. CpuTyped /\ OwnPlaces
  BY NextRuns
<1>2. /\ \A t \in Slots : Whereabouts[t] = Where(t)
      /\ \A t \in Slots : Whereabouts'[t] = Where(t)'
      /\ Whereabouts \in [Slots -> Points] /\ Whereabouts[running] = pc
      /\ running \in Slots
  BY <1>1, Stands, StandsNext DEF CpuTyped
<1>3. PICK w \in Workers : Whereabouts[w] \in ExitPoints
  BY <1>2 DEF Exiting, ExitPoints
<1>4. Whereabouts'[w] \in ExitPoints => Exiting'
  BY <1>2 DEF Exiting, ExitPoints, Workers, Slots, Main
<1>5. ASSUME NEW to, Moved(to), pc \in ExitPoints => to \in ExitPoints
      PROVE  Exiting'
  BY <1>2, <1>3, <1>4, <1>5 DEF Moved
<1>6. CASE Walking /\ Within
  BY <1>5, <1>6, WithinMoves DEF Within
<1>7. CASE Yielding
  <2>1. CASE UNCHANGED <<running, pc, buffer>>
    BY <1>3, <1>4, <2>1 DEF Whereabouts, Where, Slots
  <2>2. CASE \E to \in Points : /\ Moved(to)
                                /\ \/ to = pc
                                   \/ pc = "user" /\ to = "user"
                                   \/ pc = "waitYield" /\ to = "relock"
    BY <1>5, <2>2 DEF ExitPoints
  <2> QED
    BY <1>7, <2>1, <2>2, YieldingMoves
<1>8. CASE Single
  <2>1. CASE CreateRaise \/ JoinSave \/ JoinCurrent \/ JoinJump
    <3>1. pc \notin ExitPoints
      BY <2>1 DEF CreateRaise, JoinSave, JoinCurrent, JoinJump, Go, At, ExitPoints
    <3> QED
      BY <1>5, <1>8, <2>1, <3>1, SingleMoves
  <2>2. CASE ExitActive \/ ExitSave \/ ExitCurrent
    BY <1>5, <1>8, <2>2, SingleMoves DEF ExitPoints
  <2>3. CASE ExitJump
    BY <1>1, <1>5, <1>8, <2>3, SingleMoves DEF ExitPoints, OwnPlaces, ExitJump, At
  <2>4. CASE MainReturn \/ ExitedReturn
    BY <1>5, <1>8, <2>4, SingleMoves
  <2> QED
    BY <1>8, <2>1, <2>2, <2>3, <2>4 DEF Single
<1> QED
  BY <1>6, <1>7, <1>8, Kinds

LEMMA NewestIs ==
  ASSUME IInv, CreateActive
  PROVE  /\ state' = [state EXCEPT ![NewPos'] = "ACTIVE"]
         /\ NewPos' \in Workers
<1>1. CreateActive => ended = "no"
  BY DEF CreateActive, Go, At
<1>2. OwnPlaces /\ CpuTyped /\ Created
  BY <1>1, TypeParts DEF IInv, Alive
<1>3. PICK i \in Slots :
        /\ state[i] = "INVALID"
        /\ state' = [state EXCEPT ![i] = "ACTIVE"]
  BY DEF CreateActive
<1>4. \A j \in Slots : j > i => state'[j] = "INVALID"
  BY <1>2, <1>3 DEF Created, CpuTyped, Slots
<1>5. state'[i] # "INVALID"
  BY <1>2, <1>3 DEF CpuTyped
<1>6. NewPos' = i
  BY <1>4, <1>5, NewPosIs DEF NewPos
<1> QED
  BY <1>2, <1>3, <1>6 DEF OwnPlaces, Workers

LEMMA SettledNext ==
  ASSUME IInv, Next, ~Exiting
  PROVE  ended' \in {"no", "exit"} /\ (Alive' => Settled')
<1> USE MainSlot
<1>1. CpuTyped /\ OwnPlaces /\ Settled /\ Created /\ Numbers /\ ended = "no"
      /\ TypeOK
  BY NextRuns DEF IInv
<1>2. pc \notin ExitPoints /\ current = running
  <2>1. pc \notin ExitPoints
    BY <1>1 DEF OwnPlaces, Exiting, ExitPoints, Where, Workers, CpuTyped
  <2> QED
    BY <1>1, <2>1 DEF OwnPlaces, ExitPoints
<1>3. pc \in {"createRaise"} \cup JoinPoints => running = Main
  BY <1>1 DEF OwnPlaces, Where, Workers, CpuTyped
<1>4. CASE Within /\ Walking
  <2>1. UNCHANGED <<running, buffer, alarm, ended>>
        /\ pc # "createRaise" /\ pc' \notin {"joinCurrent", "joinJump"}
    BY <1>4 DEF Within, Stay
  <2>2. ASSUME NEW w \in Workers \ {running}, state'[w] = "ACTIVE"
        PROVE  \/ buffer[w].saved
               \/ pc' = "createRaise" /\ w = NewPos'
    <3>1. CASE CreateActive
      <4>1. state[w] = "ACTIVE" \/ w = NewPos'
        BY <1>1, <2>2, <3>1, NewestIs DEF CpuTyped
      <4>2. pc' = "createRaise"
        BY <3>1 DEF CreateActive, Go
      <4> QED
        BY <1>1, <2>1, <4>1, <4>2 DEF Settled
    <3>2. CASE ~CreateActive
      <4>1. state[w] = "ACTIVE"
        BY <1>1, <1>4, <2>2, <3>2 DEF Within, CpuTyped, Workers
      <4> QED
        BY <1>1, <2>1, <4>1 DEF Settled
    <3> QED
      BY <3>1, <3>2
  <2>3. Settled'
    <3>1. Workers' = Workers /\ Main' = Main
      BY DEF Workers, Slots, Main
    <3> QED
      BY <1>1, <2>1, <2>2, <3>1 DEF Settled
  <2> QED
    BY <1>1, <2>1, <2>3
<1>5. CASE Yielding
  <2>1. pc # "createRaise"
    <3>1. pc = "createRaise" => ~alarm
      BY <1>1, <1>3 DEF Settled
    <3> QED
      BY <1>5, <3>1 DEF Yielding, Preempt, YieldCall, WaitYield, At
  <2>2. \A w \in Workers \ {running} : state[w] = "ACTIVE" => buffer[w].saved
    BY <1>1, <2>1 DEF Settled
  <2>3. PICK at \in Points : /\ Yielded(at)
                             /\ at = pc \/ at \in {"user", "relock"}
    BY <1>1, <1>5, YieldingDoes DEF CpuTyped, Points
  <2>4. state' = state
    BY <1>1, <1>5, YieldingDoes
  <2>5. CASE /\ pc' = at /\ alarm' = FALSE
             /\ UNCHANGED <<running, current, buffer, ended>>
    BY <1>1, <2>2, <2>3, <2>4, <2>5 DEF Settled, Workers, Slots
  <2>6. ASSUME NEW i \in Workers,
               buffer' = [buffer EXCEPT ![running] = Context(at, TRUE)],
               state[i] = "ACTIVE", running' = i,
               ended' = IF buffer'[i].saved THEN "no" ELSE "undefined"
        PROVE  ended' = "no" /\ Settled'
    <3>1. \A t \in Slots :
            buffer'[t] = IF t = running THEN Context(at, TRUE) ELSE buffer[t]
      BY <1>1, <2>6 DEF CpuTyped
    <3>2. \A w \in Workers : state[w] = "ACTIVE" => buffer'[w].saved
      BY <2>2, <3>1 DEF Context
    <3> QED
      BY <2>4, <2>6, <3>2 DEF Settled, Workers, Slots, Main
  <2> QED
    BY <1>1, <1>2, <2>3, <2>5, <2>6 DEF Yielded
<1>6. CASE CreateRaise
  <2>1. UNCHANGED <<running, alarm, ended, state>> /\ pc' = "user"
        /\ buffer' = [buffer EXCEPT ![NewPos] = Context("user", FALSE)]
    BY <1>6 DEF CreateRaise, Go
  <2>2. \A w \in Workers \ {running} : state[w] = "ACTIVE" => buffer'[w].saved
    BY <1>1, <2>1 DEF Settled, Context, CpuTyped
  <2> QED
    BY <1>1, <2>1, <2>2 DEF Settled, Workers, Slots
<1>7. CASE JoinSave
  <2>1. UNCHANGED <<running, alarm, ended, state>> /\ pc' = "joinCurrent"
        /\ buffer' = [buffer EXCEPT ![Main] = Context("user", FALSE)]
        /\ running = Main /\ pc = "joinSave"
    BY <1>2, <1>3, <1>7 DEF JoinSave, Go, At, Save, JoinPoints
  <2>2. buffer'[Main] = Context("user", FALSE)
        /\ \A w \in Workers : buffer'[w] = buffer[w]
    BY <1>1, <2>1 DEF CpuTyped, Workers
  <2>3. buffer'[Main].saved /\ ~buffer'[Main].rearm
    BY <2>2 DEF Context
  <2> QED
    BY <1>1, <2>1, <2>2, <2>3 DEF Settled, Workers, Slots, Main
<1>8. CASE JoinCurrent
  <2>1. UNCHANGED <<running, alarm, ended, state, buffer>>
        /\ pc' = "joinJump" /\ pc = "joinCurrent"
    BY <1>8 DEF JoinCurrent, Go, At
  <2> QED
    BY <1>1, <2>1 DEF Settled, Workers, Slots, Main
<1>9. CASE JoinJump
  <2>1. pc = "joinJump" /\ running = Main /\ running' = Main
        /\ UNCHANGED <<state, buffer>>
        /\ alarm' = (alarm \/ buffer[Main].rearm)
        /\ ended' = IF buffer[Main].saved THEN "no" ELSE "undefined"
    BY <1>1, <1>3, <1>9 DEF JoinJump, At, Jump, Numbers, JoinPoints
  <2>2. ~alarm /\ buffer[Main].saved /\ ~buffer[Main].rearm
    BY <1>1, <2>1 DEF Settled
  <2>3. \A w \in Workers \ {running} : state[w] = "ACTIVE" => buffer[w].saved
    BY <1>1, <2>1 DEF Settled
  <2> QED
    BY <2>1, <2>2, <2>3 DEF Settled, Workers, Slots, Main
<1>10. CASE MainReturn
  <2>1. UNCHANGED <<running, pc, alarm, state, buffer>> /\ ended' = "exit"
        /\ pc = "user"
    BY <1>10 DEF MainReturn, cpuVars, At
  <2> QED
    BY <1>1, <2>1 DEF Settled, Workers, Slots, Main
<1>11. ~(ExitActive \/ ExitSave \/ ExitCurrent \/ ExitJump \/ ExitedReturn)
  BY <1>2 DEF ExitActive, ExitSave, ExitCurrent, ExitJump, ExitedReturn, Go, At, ExitPoints
<1> QED
  BY <1>4, <1>5, <1>6, <1>7, <1>8, <1>9, <1>10, <1>11, Kinds DEF Single

\* The thread that runs leaves a mutex before it gives up the processor, unless
\* it is blocked: the scan comes back to it as long as it is active.
LEMMA PlacedNext ==
  ASSUME IInv, Next, ~Exiting, ~Exiting', Alive' PROVE Placed'
<1> USE MainSlot
<1> DEFINE Locked == HoldingPoints \cup InternalPoints
<1>1. /\ CpuTyped /\ OwnPlaces /\ Settled /\ Placed /\ Created /\ Numbers
      /\ TypeOK /\ ended = "no"
  BY NextRuns DEF IInv
<1>2. pc \notin ExitPoints /\ current = running /\ running \in Slots
      /\ \A w \in Workers : w \in Slots /\ w # Main
  <2>1. pc \notin ExitPoints
    BY <1>1 DEF OwnPlaces, Exiting, ExitPoints, Where, Workers, CpuTyped
  <2> QED
    BY <1>1, <2>1 DEF OwnPlaces, ExitPoints, CpuTyped, Workers
<1>3. "user" \notin Locked /\ "relock" \notin Locked /\ "waitYield" \notin Locked
  BY DEF HoldingPoints, InternalPoints
<1>4. Workers' = Workers /\ Main' = Main
  BY DEF Workers, Slots, Main
<1> HIDE DEF Locked
\* A step that neither switches nor saves a context.
<1>5. CASE Walking /\ Within
  <2>1. UNCHANGED <<running, buffer>>
    BY <1>5 DEF Within, Stay
  <2>2. CASE CreateActive
    <3>1. running = Main /\ \A w \in Workers : buffer[w].at = "user"
      BY <1>1, <2>2 DEF CreateActive, Placed
    <3>2. \A w \in Workers : state'[w] # "FINISHED"
      BY <1>1, <2>2 DEF CreateActive, Placed, CpuTyped
    <3> QED
      BY <1>3, <1>4, <2>1, <3>1, <3>2 DEF Placed, Locked
  <2>3. CASE \A w \in Workers : state'[w] = state[w]
    <3>1. running # Main => running \in Workers
      BY <1>2 DEF Workers
    <3>2. pc' \notin Window \cup {"waitYield"} =>
            pc \notin Window \cup {"waitYield"}
      BY <1>5 DEF Within
    <3> QED
      BY <1>1, <1>4, <2>1, <2>3, <3>1, <3>2 DEF Placed, Window
  <2>4. CASE /\ state' = [state EXCEPT ![running] = "BLOCKED"]
             /\ pc' \in {"waitUnlock", "joinSave"}
    <3>1. running # Main => pc' \in Window
      BY <1>5, <2>4 DEF Within, Window
    <3>2. /\ \A w \in Workers : state'[w] # "FINISHED"
          /\ \A w \in Workers \ {running} : state'[w] = state[w]
      BY <1>1, <1>2, <2>4 DEF Placed, CpuTyped
    <3>3. \A w \in Workers : w < running => w # running
      BY <1>2 DEF Workers, Slots
    <3> QED
      BY <1>1, <1>4, <2>1, <3>1, <3>2, <3>3 DEF Placed, Window
  <2>5. ~(running # Main /\ pc' = "exitActive")
    <3>1. running # Main /\ pc' = "exitActive" => Exiting'
      BY <1>2, <1>4, <2>1 DEF Exiting, Where, Workers
    <3> QED
      BY <3>1
  <2> QED
    BY <1>1, <1>2, <1>5, <2>2, <2>3, <2>4, <2>5 DEF Within, CpuTyped
\* thread_yield().
<1>6. CASE Yielding
  <2>1. PICK at \in Points : /\ Yielded(at)
                             /\ \/ at = pc
                                \/ pc = "user" /\ at = "user"
                                \/ pc = "waitYield" /\ at = "relock"
    BY <1>1, <1>6, YieldingDoes DEF CpuTyped, Points
  <2>2. state' = state
    BY <1>1, <1>6, YieldingDoes
  <2>3. CASE /\ \A w \in Workers : state[w] # "ACTIVE"
             /\ UNCHANGED <<running, buffer>>
    BY <1>1, <1>4, <2>2, <2>3 DEF Placed, Window
  <2>4. CASE /\ \A t \in Slots : buffer'[t].at = IF t = running THEN at
                                                 ELSE buffer[t].at
             /\ running' \in Workers /\ state[running'] = "ACTIVE"
             /\ \A w \in Workers : w < running' => state[w] # "ACTIVE"
    <3>1. running = Main => at \notin Locked
      <4>1. running = Main => YieldCall \/ WaitYield
        BY <1>1, <1>6 DEF Settled, Yielding, Preempt
      <4>2. YieldCall \/ WaitYield => pc \in {"user", "waitYield"}
        BY DEF YieldCall, WaitYield, At
      <4> QED
        BY <1>3, <2>1, <4>1, <4>2
    <3>2. buffer'[Main].at \notin Locked
      BY <1>1, <2>4, <3>1 DEF Placed, Locked
    <3>3. ASSUME running # Main, running' # running, at \in Locked
          PROVE  at \in Window /\ state[running] = "BLOCKED"
      <4>1. running \in Workers /\ running' \in Nat /\ running \in Nat
        BY <1>2, <2>4, <3>3, ThreadsAssumption DEF Workers, Slots
      <4>2. ~(running' < running)
        BY <1>1, <2>4, <3>3 DEF Placed
      <4>3. state[running] # "ACTIVE"
        BY <2>4, <3>3, <4>1, <4>2
      <4>4. at = pc /\ pc # "waitYield"
        BY <1>3, <2>1, <3>3
      <4>5. pc \in Window
        BY <1>1, <2>4, <3>3, <4>3, <4>4 DEF Placed
      <4>6. state[running] = "BLOCKED"
        BY <1>1, <4>1, <4>3 DEF Placed, CpuTyped
      <4> QED
        BY <4>4, <4>5, <4>6
    <3>4. ASSUME NEW w \in Workers \ {running'}, buffer'[w].at \in Locked
          PROVE  buffer'[w].at \in Window /\ state[w] = "BLOCKED"
      <4>1. CASE w = running
        BY <1>2, <2>4, <3>3, <3>4, <4>1
      <4>2. CASE w # running
        BY <1>1, <2>4, <3>4, <4>2 DEF Placed, Locked
      <4> QED
        BY <4>1, <4>2
    <3>5. running' # Main
      BY <1>2, <2>4
    <3> QED
      BY <1>1, <1>4, <2>2, <2>4, <3>2, <3>4, <3>5 DEF Placed, Locked, Window,
         HoldingPoints, InternalPoints
  <2> QED
    BY <1>6, <2>1, <2>3, <2>4, YieldGoesOn
\* The rest is done by the main thread, and does not save a worker's context but
\* for the one of a new thread.
<1>7. CASE Single
  <2>1. ~(ExitActive \/ ExitSave \/ ExitCurrent \/ ExitJump \/ ExitedReturn)
    BY <1>2 DEF ExitActive, ExitSave, ExitCurrent, ExitJump, ExitedReturn, Go, At,
       ExitPoints
  <2>2. CASE MainReturn
    BY <1>1, <2>2 DEF MainReturn, cpuVars, Placed, Window
  <2>3. CASE CreateRaise \/ JoinSave \/ JoinCurrent \/ JoinJump
    <3>1. running = Main
      <4>1. pc \in {"createRaise"} \cup JoinPoints
        BY <2>3 DEF CreateRaise, JoinSave, JoinCurrent, JoinJump, Go, At, JoinPoints
      <4> QED
        BY <1>1, <4>1 DEF OwnPlaces, Where, Workers, CpuTyped
    <3>2. running' = Main /\ state' = state
      BY <1>1, <2>3, <3>1
      DEF CreateRaise, JoinSave, JoinCurrent, JoinJump, Jump, Numbers
    <3>3. \A w \in Workers : buffer'[w].at = "user"
      <4>1. \A w \in Workers : buffer[w].at = "user"
        BY <1>1, <3>1 DEF Placed
      <4>2. CASE CreateRaise
        <5>1. buffer' = [buffer EXCEPT ![NewPos] = Context("user", FALSE)]
          BY <4>2 DEF CreateRaise
        <5>2. \A t \in Slots : buffer'[t] \in {buffer[t], Context("user", FALSE)}
          BY <1>1, <5>1 DEF CpuTyped
        <5> QED
          BY <1>2, <4>1, <5>2 DEF Context
      <4>3. CASE JoinSave
        BY <1>1, <1>2, <3>1, <4>1, <4>3 DEF JoinSave, Save, CpuTyped
      <4>4. CASE JoinCurrent \/ JoinJump
        BY <4>1, <4>4 DEF JoinCurrent, JoinJump
      <4> QED
        BY <2>3, <4>2, <4>3, <4>4
    <3> QED
      BY <1>1, <1>3, <1>4, <3>1, <3>2, <3>3 DEF Placed, Locked
  <2> QED
    BY <1>7, <2>1, <2>2, <2>3 DEF Single
<1> QED
  BY <1>5, <1>6, <1>7, Kinds

-----------------------------------------------------------------------------
(* The theorems.                                                           *)

LEMMA InitInv == Init => IInv
<1> SUFFICES ASSUME Init PROVE IInv
  OBVIOUS
<1> USE MainSlot
<1>1. TypeOK /\ ListTyped
  <2>1. ListTyped
    BY ThreadsAssumption DEF Init, ListTyped, Lists, EmptyList, Null
  <2>2. DataTyped
    <3>1. locked \in BOOLEAN /\ internal \in BOOLEAN
      BY Zenon DEF Init
    <3>2. queue_size \in Int /\ stock \in Int /\ loaded \in [Slots -> Int]
      BY SMT DEF Init
    <3> QED
      BY <3>1, <3>2, Zenon DEF DataTyped
  <2>3. CpuTyped
    <3>1. NoContext \in [at : Points, rearm : BOOLEAN, saved : BOOLEAN]
      BY DEF NoContext, Points
    <3> QED
      BY <3>1 DEF Init, CpuTyped, Points
  <2>4. Numbers
    BY DEF Init, Numbers, Main
  <2> QED
    BY <2>1, <2>2, <2>3, <2>4, TypeParts
<1>2. Numbers /\ OwnPlaces
  BY DEF Init, Numbers, OwnPlaces, Where, NoContext, ExitPoints, JoinPoints,
     Workers, Main
<1>3. \A t \in Slots : Where(t) = "user"
  BY DEF Init, Where, NoContext
<1>4. MutexExclusion /\ Loaded /\ Emptied /\ OwnContext
  <2>1. \A points : "user" \notin points => Inside(points) = {}
    BY <1>3 DEF Inside
  <2>2. Inside(HoldingPoints) = {} /\ Inside(InternalPoints) = {}
    BY <2>1 DEF HoldingPoints, InternalPoints
  <2>3. /\ Inside({"produce", "consume"}) = {} /\ Inside({"take", "consume"}) = {}
        /\ Inside({"broadcastUnlock", "broadcastEnd"}) = {}
    BY <2>1
  <2> QED
    <3>1. MutexExclusion
      BY <2>2, Zenon DEF Init, MutexExclusion
    <3>2. Loaded /\ Emptied /\ OwnContext
      BY <2>3 DEF Init, Loaded, Emptied, OwnContext
    <3> QED
      BY <3>1, <3>2
<1>5. Created
  BY <1>3 DEF Init, Created, Slots, Main
<1>6. Settled
  BY DEF Init, Settled, Workers
<1>7. Placed
  BY DEF Init, Placed, Workers, NoContext, HoldingPoints, InternalPoints
<1>8. Linkage
  <2> DEFINE s == [i \in 1 .. 0 |-> Null]
  <2>1. Chain(waiters, 0, s)
    <3>1. waiters \in Lists(MaxWaits, Slots)
      BY <1>1 DEF ListTyped
    <3>2. waiters.head = Null /\ waiters.tail = Null
      BY DEF Init, EmptyList
    <3> QED
      BY <3>1, <3>2, ThreadsAssumption, ChainEmpty
  <2> HIDE DEF s
  <2>2. IsChain(waiters)
    BY <2>1 DEF IsChain
  <2>3. \A t \in Slots : Fits(Where(t), waiters, node[t], t)
    BY <1>3 DEF Fits, NodePoints
  <2> QED
    BY <2>2, <2>3 DEF Linkage
<1> QED
  BY <1>1, <1>2, <1>4, <1>5, <1>6, <1>7, <1>8 DEF IInv

LEMMA NextInv == ASSUME IInv, Next PROVE IInv'
<1>1. TypeOK' /\ ListTyped' /\ Numbers'
  BY TypesNext
<1>2. Alive' => /\ OwnPlaces' /\ Created' /\ MutexExclusion'
                /\ Loaded' /\ Emptied' /\ Linkage'
  BY OwnPlacesNext, CreatedNext, MutexNext, LoadedNext, EmptiedNext, LinkageNext
<1>3. (Alive' /\ ~Exiting' => Settled' /\ Placed') /\ OwnContext'
  BY ExitingStays, SettledNext, PlacedNext DEF OwnContext
<1> QED
  BY <1>1, <1>2, <1>3 DEF IInv

LEMMA StutterInv == ASSUME IInv, UNCHANGED vars PROVE IInv'
<1> USE DEF vars, cpuVars, lockVars, listVars, queueVars
<1>1. TypeOK' /\ ListTyped' /\ Numbers' /\ OwnContext'
  BY DEF IInv, TypeOK, ListTyped, Numbers, OwnContext, Exiting, Where
<1>2. Alive' => OwnPlaces' /\ Created' /\ MutexExclusion' /\ Loaded' /\ Emptied'
  BY DEF IInv, Alive, OwnPlaces, Created, NewPos, MutexExclusion, Loaded, Emptied,
     Inside, Where
<1>3. Alive' => Linkage'
  BY DEF IInv, Alive, Linkage, Fits, Where
<1>4. Alive' /\ ~Exiting' => Settled' /\ Placed'
  BY DEF IInv, Alive, Exiting, Settled, Placed, NewPos, Where
<1> QED
  BY <1>1, <1>2, <1>3, <1>4 DEF IInv

\* Wherever SIGALRM strikes, the threads, their contexts, the mutexes, the
\* counter and the list fit together.
THEOREM Invariant == Spec => []IInv
<1>1. IInv /\ [Next]_vars => IInv'
  BY NextInv, StutterInv
<1> QED
  BY <1>1, InitInv, PTL DEF Spec

\* Every variable keeps its type, also after a program is undone.
THEOREM TypeCorrect == Spec => []TypeOK
<1>1. IInv => TypeOK
  BY DEF IInv
<1> QED
  BY <1>1, Invariant, PTL

\* The spin locks of synchronization.c exclude.
THEOREM MutexesExclude == Spec => []MutexExclusion
<1>1. IInv => MutexExclusion
  BY DEF IInv, MutexExclusion, Alive
<1> QED
  BY <1>1, Invariant, PTL

\* No update of queue_size is lost, and it never becomes negative.
THEOREM NoUpdateLost == Spec => []CounterExact
<1>1. IInv => CounterExact
  BY DEF IInv, CounterExact, Loaded, Alive
<1> QED
  BY <1>1, Invariant, PTL

\* No switch goes astray before the first thread_exit().
THEOREM ContextsOwn == Spec => []OwnContext
<1>1. IInv => OwnContext
  BY DEF IInv
<1> QED
  BY <1>1, Invariant, PTL

\* Before the first thread_exit() SIGALRM stops a thread inside a mutex for good
\* only between lines 52 and 54 of thread_cond_wait().
THEOREM HoldersRun == Spec => []HolderRuns
<1>1. ASSUME IInv, Alive, ~Exiting,
             NEW t \in Inside(HoldingPoints \cup InternalPoints) \ {running}
      PROVE  Where(t) \in Window /\ state[t] = "BLOCKED"
  <2>1. t \in Slots /\ Where(t) = buffer[t].at
        /\ buffer[t].at \in HoldingPoints \cup InternalPoints
    BY <1>1 DEF Inside, Where
  <2>2. CASE t = Main
    BY <1>1, <2>1, <2>2 DEF IInv, Placed
  <2>3. CASE t # Main
    <3>1. t \in Workers \ {running}
      BY <1>1, <2>1, <2>3 DEF Workers
    <3> QED
      BY <1>1, <2>1, <3>1 DEF IInv, Placed
  <2> QED
    BY <2>2, <2>3
<1>2. IInv => HolderRuns
  BY <1>1 DEF HolderRuns, Alive, Window
<1> QED
  BY <1>2, Invariant, PTL

\* SIGALRM may find the list of a condition variable half linked; otherwise it
\* is well linked, and a walk always finds the waiters first in, first out.
THEOREM FirstInFirstOut == Spec => WaitersInOrder
<1>1. ASSUME IInv, Alive, Inside(HalfLinked) = {} PROVE WellLinked(waiters)
  <2>1. IsChain(waiters)
    BY <1>1 DEF IInv, Linkage, Inside
  <2> QED
    BY <1>1, <2>1, ThreadsAssumption, IsChainHolds DEF IInv, ListTyped
<1>2. ASSUME IInv, Next
      PROVE  \/ Waiting' = Waiting
             \/ Waiting' = Append(Waiting, current)
             \/ Waiting # <<>> /\ Waiting' = Tail(Waiting)
  <2>1. CASE UNCHANGED listVars
    BY <2>1 DEF Waiting, listVars
  <2>2. CASE ListStep
    BY <1>2, <2>2, ListBegins, ListSteps DEF IInv, ListGoes
  <2> QED
    BY <1>2, <2>1, <2>2, Shared
<1>3. IInv => (ended \in {"no", "exit"} /\ Inside(HalfLinked) = {}
                 => WellLinked(waiters))
  BY <1>1 DEF Alive
<1>4. IInv /\ [Next]_vars =>
        [\/ Waiting' = Waiting
         \/ Waiting' = Append(Waiting, current)
         \/ Waiting # <<>> /\ Waiting' = Tail(Waiting)]_vars
  BY <1>2
<1> QED
  BY <1>3, <1>4, Invariant, PTL DEF Spec, WaitersInOrder

\* A broadcast leaves nobody in the list.
THEOREM NobodyLeftWaiting == Spec => []BroadcastEmpties
<1>1. ASSUME IInv PROVE BroadcastEmpties
  <2>1. waiters.head = Null => Waiting = <<>>
    BY <1>1, ThreadsAssumption, HeadlessEmpty DEF IInv, ListTyped, Waiting
  <2>2. ended \in {"no", "exit"} /\ Inside({"broadcastEnd"}) # {}
          => waiters.head = Null
    BY <1>1 DEF IInv, Alive, Emptied, Inside
  <2> QED
    BY <2>1, <2>2 DEF BroadcastEmpties
<1>2. IInv => BroadcastEmpties
  BY <1>1
<1> QED
  BY <1>2, Invariant, PTL
=============================================================================
