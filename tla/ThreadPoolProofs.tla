-------------------------- MODULE ThreadPoolProofs --------------------------
(* Theorems about ThreadPool, for any number of consumers and requests.    *)
EXTENDS ThreadPool, TLAPS

USE DEF Requests, Threads

\* What the proofs say of one step: an action of a consumer or of Main.
LEMMA NextCases ==
  ASSUME Next, NEW P,
         WhileTest => P, MainLock("putLock", "insert") => P, Insert => P,
         Increment => P, Signal => P, MainUnlock("putUnlock", "while") => P,
         MainLock("finLock", "finSet") => P, FinishSet => P,
         FinishBroadcast => P, MainUnlock("finUnlock", "join") => P,
         JoinAndReturn => P, Accept => P, AcceptInterrupted => P,
         Sigterm => P,
         \A c \in Consumers :
           /\ LoopTest(c) => P
           /\ Lock(c) => P
           /\ QueueTest(c) => P
           /\ Wait(c) => P
           /\ SpuriousWake(c) => P
           /\ Relock(c) => P
           /\ FinishTest(c) => P
           /\ Fetch(c) => P
           /\ Decrement(c) => P
           /\ Unlock(c) => P
           /\ Serve(c) => P
           /\ FreeRequest(c) => P
  PROVE  P
BY DEF Next, MainStep, ConsumerStep

-----------------------------------------------------------------------------
\* The variables keep their types, the wait set is the set of the threads
\* inside pthread_cond_wait(), and the pointers the critical sections follow
\* are not null.
THEOREM TypeCorrect == Spec => []TypeOK
<1>1. ASSUME Init PROVE TypeOK
  <2> USE DEF Init, ConsumerPoints, MainPoints, ConsumerSection, MainSection,
              Putting, Fetching
  <2>1. /\ pc \in [Threads -> ConsumerPoints \cup MainPoints]
        /\ pc[Main] = "while"
        /\ \A c \in Consumers : pc[c] = "loop"
    BY <1>1, PoolAssumption
  <2>2. waiters = {c \in Consumers : pc[c] = "waiting"}
    BY <1>1, <2>1
  <2>3. accepted \in 0 .. NumRequests
    BY <1>1, PoolAssumption
  <2>4. /\ lock \in Threads \cup {None} /\ broken \in BOOLEAN
        /\ finish \in BOOLEAN /\ done \in BOOLEAN
        /\ ended \in {"no", "crash", "exit"}
    BY <1>1
  <2>5. /\ head \in Requests \cup {None} /\ tail \in Requests \cup {None}
        /\ prev \in [Requests -> Requests \cup {None}]
        /\ queue_size \in Int /\ highest \in Int
        /\ operations_completed \in Nat
    BY <1>1
  <2>6. /\ stage \in
              [Requests -> {"none", "accepted", "queued", "fetched", "freed"}]
        /\ req \in [Consumers -> Requests \cup {None}]
    BY <1>1
  <2> QED
    BY <2>1, <2>2, <2>3, <2>4, <2>5, <2>6 DEF TypeOK
<1>2. TypeOK /\ [Next]_vars => TypeOK'
  <2> SUFFICES ASSUME TypeOK, [Next]_vars PROVE TypeOK'
    OBVIOUS
  <2> USE PoolAssumption DEF TypeOK, At, Go, Acquire, Release, Drop,
        ConsumerPoints, MainPoints, ConsumerSection, MainSection, Putting,
        Fetching, syncVars, listVars, lifeVars, flagVars
  <2>1. CASE Next
    <3>1. WhileTest => TypeOK'                        BY DEF WhileTest
    <3>2. MainLock("putLock", "insert") => TypeOK'    BY DEF MainLock
    <3>3. Insert => TypeOK'                           BY DEF Insert
    <3>4. Increment => TypeOK'                        BY DEF Increment
    <3>5. Signal => TypeOK'                           BY DEF Signal
    <3>6. MainUnlock("putUnlock", "while") => TypeOK' BY DEF MainUnlock
    <3>7. MainLock("finLock", "finSet") => TypeOK'    BY DEF MainLock
    <3>8. FinishSet => TypeOK'                        BY DEF FinishSet
    <3>9. FinishBroadcast => TypeOK'      BY DEF FinishBroadcast, WakeAll
    <3>10. MainUnlock("finUnlock", "join") => TypeOK' BY DEF MainUnlock
    <3>11. JoinAndReturn => TypeOK'                   BY DEF JoinAndReturn
    <3>12. Accept => TypeOK'                          BY DEF Accept
    <3>13. AcceptInterrupted => TypeOK'   BY DEF AcceptInterrupted
    <3>14. Sigterm => TypeOK'                         BY DEF Sigterm
    <3>15. ASSUME NEW c \in Consumers
           PROVE  /\ LoopTest(c) => TypeOK'
                  /\ Lock(c) => TypeOK'
                  /\ QueueTest(c) => TypeOK'
                  /\ Wait(c) => TypeOK'
                  /\ SpuriousWake(c) => TypeOK'
                  /\ Relock(c) => TypeOK'
                  /\ FinishTest(c) => TypeOK'
                  /\ Fetch(c) => TypeOK'
                  /\ Decrement(c) => TypeOK'
                  /\ Unlock(c) => TypeOK'
                  /\ Serve(c) => TypeOK'
                  /\ FreeRequest(c) => TypeOK'
      <4>1. LoopTest(c) => TypeOK'      BY DEF LoopTest
      <4>2. Lock(c) => TypeOK'          BY DEF Lock
      <4>3. QueueTest(c) => TypeOK'     BY DEF QueueTest
      <4>4. ASSUME Wait(c) PROVE TypeOK'
        <5>1. pc' = [pc EXCEPT ![c] = "waiting"] /\ waiters' = waiters \cup {c}
          BY <4>4 DEF Wait
        <5>2. waiters' = {d \in Consumers : pc'[d] = "waiting"}
          BY <5>1
        <5>3. lock' \in Threads \cup {None} /\ broken' \in BOOLEAN
          BY <4>4 DEF Wait
        <5> QED
          BY <4>4, <5>1, <5>2, <5>3 DEF Wait
      <4>5. SpuriousWake(c) => TypeOK'  BY DEF SpuriousWake
      <4>6. Relock(c) => TypeOK'        BY DEF Relock
      <4>7. FinishTest(c) => TypeOK'    BY DEF FinishTest
      <4>8. ASSUME Fetch(c) PROVE TypeOK'
        <5>1. CASE tail = None
          BY <4>8, <5>1 DEF Fetch
        <5>2. CASE tail # None
          <6>1. /\ pc' = [pc EXCEPT ![c] = "decrement"]
                /\ req' = [req EXCEPT ![c] = tail]
                /\ stage' = [stage EXCEPT ![tail] = "fetched"]
                /\ UNCHANGED <<queue_size, highest, ended, syncVars, accepted,
                               operations_completed, finish, done>>
            BY <4>8, <5>2 DEF Fetch
          <6>2. tail \in Requests /\ prev[tail] \in Requests \cup {None}
            BY <5>2
          <6>3. /\ head' \in Requests \cup {None}
                /\ tail' \in Requests \cup {None}
                /\ prev' \in [Requests -> Requests \cup {None}]
            BY <4>8, <5>2, <6>2 DEF Fetch, Unlink
          <6>4. \A d \in Consumers : pc'[d] \in Fetching => req'[d] # None
            BY <6>1, <6>2
          <6>5. waiters' = {d \in Consumers : pc'[d] = "waiting"}
            BY <4>8, <6>1 DEF Fetch
          <6> QED
            BY <6>1, <6>2, <6>3, <6>4, <6>5
        <5> QED
          BY <5>1, <5>2
      <4>9. Decrement(c) => TypeOK'     BY DEF Decrement
      <4>10. Unlock(c) => TypeOK'       BY DEF Unlock
      <4>11. Serve(c) => TypeOK'        BY DEF Serve
      <4>12. FreeRequest(c) => TypeOK'  BY DEF FreeRequest
      <4> QED
        BY <4>1, <4>2, <4>3, <4>4, <4>5, <4>6, <4>7, <4>8, <4>9, <4>10,
           <4>11, <4>12
    <3> HIDE DEF TypeOK
    <3> QED
      BY <2>1, <3>1, <3>2, <3>3, <3>4, <3>5, <3>6, <3>7, <3>8, <3>9, <3>10,
         <3>11, <3>12, <3>13, <3>14, <3>15, NextCases
  <2>2. CASE UNCHANGED vars
    BY <2>2 DEF vars
  <2> QED
    BY <2>1, <2>2
<1> QED
  BY <1>1, <1>2, PTL DEF Spec

-----------------------------------------------------------------------------
\* A step after which the mutex is still respected leaves every thread in a
\* critical section holding it: the mutex is taken only when it is free, and
\* whoever frees it leaves its section or breaks the mutex.
LEMMA ExclusionStep ==
  ASSUME TypeOK, Exclusion, [Next]_vars
  PROVE  Exclusion'
<1> USE PoolAssumption DEF TypeOK, Exclusion, InSection, At, Go, Acquire,
      Release, Drop, ConsumerSection, MainSection, ConsumerPoints, MainPoints,
      syncVars, listVars, lifeVars, flagVars
<1>1. CASE Next
  <2>1. WhileTest => Exclusion'                        BY DEF WhileTest
  <2>2. MainLock("putLock", "insert") => Exclusion'    BY DEF MainLock
  <2>3. Insert => Exclusion'                           BY DEF Insert
  <2>4. Increment => Exclusion'                        BY DEF Increment
  <2>5. Signal => Exclusion'                           BY DEF Signal
  <2>6. MainUnlock("putUnlock", "while") => Exclusion' BY DEF MainUnlock
  <2>7. MainLock("finLock", "finSet") => Exclusion'    BY DEF MainLock
  <2>8. FinishSet => Exclusion'                        BY DEF FinishSet
  <2>9. FinishBroadcast => Exclusion'      BY DEF FinishBroadcast, WakeAll
  <2>10. MainUnlock("finUnlock", "join") => Exclusion' BY DEF MainUnlock
  <2>11. JoinAndReturn => Exclusion'                   BY DEF JoinAndReturn
  <2>12. Accept => Exclusion'                          BY DEF Accept
  <2>13. AcceptInterrupted => Exclusion'   BY DEF AcceptInterrupted
  <2>14. Sigterm => Exclusion'                         BY DEF Sigterm
  <2>15. ASSUME NEW c \in Consumers
         PROVE  /\ LoopTest(c) => Exclusion'
                /\ Lock(c) => Exclusion'
                /\ QueueTest(c) => Exclusion'
                /\ Wait(c) => Exclusion'
                /\ SpuriousWake(c) => Exclusion'
                /\ Relock(c) => Exclusion'
                /\ FinishTest(c) => Exclusion'
                /\ Fetch(c) => Exclusion'
                /\ Decrement(c) => Exclusion'
                /\ Unlock(c) => Exclusion'
                /\ Serve(c) => Exclusion'
                /\ FreeRequest(c) => Exclusion'
    <3>1. LoopTest(c) => Exclusion'      BY DEF LoopTest
    <3>2. Lock(c) => Exclusion'          BY DEF Lock
    <3>3. QueueTest(c) => Exclusion'     BY DEF QueueTest
    <3>4. ASSUME Wait(c), ~broken', NEW t \in Threads, InSection(t)'
          PROVE  lock' = t
      <4>1. t # c /\ InSection(t)
        BY <3>4 DEF Wait
      <4>2. CASE broken' = (broken \/ lock \notin {None, c}) /\ lock' = None
        <5>1. ~broken /\ lock \in {None, c}
          BY <3>4, <4>2
        <5> QED
          BY <4>1, <5>1
      <4>3. CASE UNCHANGED <<lock, broken>>
        BY <3>4, <4>1, <4>3
      <4> QED
        BY <3>4, <4>2, <4>3 DEF Wait
    <3>5. SpuriousWake(c) => Exclusion'  BY DEF SpuriousWake
    <3>6. Relock(c) => Exclusion'        BY DEF Relock
    <3>7. FinishTest(c) => Exclusion'    BY DEF FinishTest
    <3>8. Fetch(c) => Exclusion'         BY DEF Fetch
    <3>9. Decrement(c) => Exclusion'     BY DEF Decrement
    <3>10. Unlock(c) => Exclusion'       BY DEF Unlock
    <3>11. Serve(c) => Exclusion'        BY DEF Serve
    <3>12. FreeRequest(c) => Exclusion'  BY DEF FreeRequest
    <3> QED
      BY <3>1, <3>2, <3>3, <3>4, <3>5, <3>6, <3>7, <3>8, <3>9, <3>10, <3>11,
         <3>12
  <2> HIDE DEF TypeOK, Exclusion
  <2> QED
    BY <1>1, <2>1, <2>2, <2>3, <2>4, <2>5, <2>6, <2>7, <2>8, <2>9, <2>10,
       <2>11, <2>12, <2>13, <2>14, <2>15, NextCases
<1>2. CASE UNCHANGED vars
  BY <1>2 DEF vars
<1> QED
  BY <1>1, <1>2

\* Until a mutex is released under its holder, at most one thread is inside
\* a critical section of the thread pool, and it holds queue_lock.
THEOREM MutualExclusion == Spec => []Exclusion
<1>1. Init => Exclusion
  BY PoolAssumption DEF Init, Exclusion, InSection, ConsumerSection,
     MainSection
<1>2. TypeOK /\ Exclusion /\ [Next]_vars => Exclusion'
  BY ExclusionStep
<1> QED
  BY <1>1, <1>2, TypeCorrect, PTL DEF Spec

\* The mutex is first broken by the pthread_cond_wait() of a consumer that
\* came back to line 47 without it, and by nothing else.
THEOREM BrokenByWait == Spec => OnlyUnownedWait
<1> DEFINE Cause == ~broken /\ broken' => \E c \in Consumers : UnownedWait(c)
<1>1. ASSUME TypeOK, Exclusion, Next PROVE Cause
  <2> USE DEF Exclusion, InSection, At, Go, Acquire, Release, Drop,
              ConsumerSection, MainSection, syncVars
  <2>1. ASSUME ~broken, NEW t \in Threads, InSection(t), Release(t)
        PROVE  ~broken'
    BY <1>1, <2>1
  <2>2. ASSUME UNCHANGED broken PROVE Cause
    BY <2>2
  <2>3. /\ MainUnlock("putUnlock", "while") => Cause
        /\ MainUnlock("finUnlock", "join") => Cause
    BY <2>1 DEF MainUnlock
  <2>4. ASSUME NEW c \in Consumers
        PROVE  (FinishTest(c) => Cause) /\ (Unlock(c) => Cause)
    BY <2>1 DEF FinishTest, Unlock
  <2>5. ASSUME NEW c \in Consumers, Wait(c) PROVE Cause
    BY <2>5 DEF Wait, UnownedWait
  <2> HIDE DEF Cause
  <2>6. ASSUME NEW c \in Consumers
        PROVE  /\ LoopTest(c) => Cause
               /\ Lock(c) => Cause
               /\ QueueTest(c) => Cause
               /\ SpuriousWake(c) => Cause
               /\ Relock(c) => Cause
               /\ Fetch(c) => Cause
               /\ Decrement(c) => Cause
               /\ Serve(c) => Cause
               /\ FreeRequest(c) => Cause
    BY <2>2 DEF LoopTest, Lock, QueueTest, SpuriousWake, Relock, Fetch,
       Decrement, Serve, FreeRequest
  <2>7. /\ WhileTest => Cause
        /\ MainLock("putLock", "insert") => Cause
        /\ Insert => Cause
        /\ Increment => Cause
        /\ Signal => Cause
        /\ MainLock("finLock", "finSet") => Cause
        /\ FinishSet => Cause
        /\ FinishBroadcast => Cause
        /\ JoinAndReturn => Cause
        /\ Accept => Cause
        /\ AcceptInterrupted => Cause
        /\ Sigterm => Cause
    BY <2>2 DEF WhileTest, MainLock, Insert, Increment, Signal, FinishSet,
       FinishBroadcast, WakeAll, JoinAndReturn, Accept, AcceptInterrupted,
       Sigterm
  <2> QED
    BY <1>1, <2>3, <2>4, <2>5, <2>6, <2>7, NextCases
<1>2. TypeOK /\ Exclusion /\ [Next]_vars => [Cause]_vars
  BY <1>1
<1> QED
  BY <1>2, TypeCorrect, MutualExclusion, PTL DEF Spec, OnlyUnownedWait

-----------------------------------------------------------------------------
(* What holds when connections and ends of replies come one by one.        *)

\* Every consumer but those of S sleeps, or is in a reply.
RestBut(S) == \A c \in Consumers \ S : pc[c] \in {"waiting", "serve"}

NoRequest  == queue_size = 0 /\ head = None /\ tail = None
OneRequest == queue_size = 1 /\ head # None /\ tail # None

\* Until the first connection: the consumers go to sleep one by one, each
\* under the mutex.
Starting ==
  /\ pc[Main] \in {"while", "accept"}
  /\ NoRequest
  /\ \A c \in Consumers :
       /\ pc[c] \in {"loop", "lock", "check", "wait", "waiting"}
       /\ pc[c] \in {"check", "wait"} <=> lock = c
  /\ lock # Main

\* The main thread puts a request, and somebody waits for it.
Placing ==
  /\ RestBut({})
  /\ waiters # {}
  /\ \/ pc[Main] = "putLock" /\ lock = None /\ NoRequest
     \/ pc[Main] = "insert" /\ lock = Main /\ NoRequest
     \/ /\ pc[Main] = "increment" /\ lock = Main
        /\ queue_size = 0 /\ head # None /\ tail # None
     \/ pc[Main] = "signal" /\ lock = Main /\ OneRequest

\* The one consumer that was woken takes the one request.
Taking(c) ==
  /\ RestBut({c})
  /\ \/ pc[Main] = "putUnlock" /\ lock = Main /\ pc[c] = "relock"
     \/ /\ pc[Main] \in {"while", "accept"}
        /\ \/ pc[c] = "relock" /\ lock = None
           \/ pc[c] \in {"woken", "fetch", "decrement", "unlock"} /\ lock = c
  /\ pc[c] \in {"relock", "woken", "fetch"} => OneRequest
  /\ pc[c] = "decrement" => queue_size = 1 /\ head = None /\ tail = None
  /\ pc[c] = "unlock" => NoRequest

\* A consumer whose reply ended goes to sleep without the mutex, which
\* nobody else wants.
Leaving(c) ==
  /\ pc[Main] \in {"while", "accept"}
  /\ lock = None
  /\ NoRequest
  /\ RestBut({c})
  /\ pc[c] \in {"waiting", "serve", "free", "recheck", "wait"}

\* The one activity there is at a time.
Phase == \/ Starting
         \/ Placing
         \/ \E c \in Consumers : Taking(c) \/ Leaving(c)

\* Nothing went wrong yet, and no request was ever linked to another.
Sound == /\ ended = "no" /\ ~broken /\ ~finish
         /\ \A r \in Requests : prev[r] = None

\* The inductive invariant.
PacedInv == ~done => Sound /\ Phase

\* Consumers go to sleep, and the first connection comes when all of them do.
LEMMA StartingStep ==
  ASSUME Paced, ~SpuriousWakeups, TypeOK, ~done, Sound, Starting,
         Next, ~done'
  PROVE  Sound' /\ Phase'
<1> DEFINE P == Sound' /\ Phase'
<1> USE PoolAssumption DEF TypeOK, Sound, Phase, Starting, Placing, Taking,
      Leaving, RestBut, NoRequest, OneRequest, At, Go, Acquire, Release, Drop,
      syncVars, listVars, lifeVars, flagVars
<1>1. WhileTest => P   BY DEF WhileTest
<1>2. MainLock("putLock", "insert") => P   BY DEF MainLock
<1>3. Insert => P   BY DEF Insert
<1>4. Increment => P   BY DEF Increment
<1>5. Signal => P   BY DEF Signal
<1>6. MainUnlock("putUnlock", "while") => P   BY DEF MainUnlock
<1>7. MainLock("finLock", "finSet") => P   BY DEF MainLock
<1>8. FinishSet => P   BY DEF FinishSet
<1>9. FinishBroadcast => P   BY DEF FinishBroadcast, WakeAll
<1>10. MainUnlock("finUnlock", "join") => P   BY DEF MainUnlock
<1>11. JoinAndReturn => P   BY DEF JoinAndReturn
<1>12. Accept => P   BY DEF Accept, Settled
<1>13. AcceptInterrupted => P   BY DEF AcceptInterrupted
<1>14. Sigterm => P   BY DEF Sigterm
<1>15. ASSUME NEW c \in Consumers
      PROVE  /\ LoopTest(c) => P
             /\ Lock(c) => P
             /\ QueueTest(c) => P
             /\ Wait(c) => P
             /\ SpuriousWake(c) => P
             /\ Relock(c) => P
             /\ FinishTest(c) => P
             /\ Fetch(c) => P
             /\ Decrement(c) => P
             /\ Unlock(c) => P
             /\ Serve(c) => P
             /\ FreeRequest(c) => P
  <2>1. LoopTest(c) => P   BY DEF LoopTest
  <2>2. Lock(c) => P   BY DEF Lock
  <2>3. QueueTest(c) => P   BY DEF QueueTest
  <2>4. Wait(c) => P   BY DEF Wait
  <2>5. SpuriousWake(c) => P   BY DEF SpuriousWake
  <2>6. Relock(c) => P   BY DEF Relock
  <2>7. FinishTest(c) => P   BY DEF FinishTest
  <2>8. Fetch(c) => P   BY DEF Fetch, Unlink
  <2>9. Decrement(c) => P   BY DEF Decrement
  <2>10. Unlock(c) => P   BY DEF Unlock
  <2>11. Serve(c) => P   BY DEF Serve, Settled
  <2>12. FreeRequest(c) => P   BY DEF FreeRequest
  <2> QED
    BY <2>1, <2>2, <2>3, <2>4, <2>5, <2>6, <2>7, <2>8, <2>9, <2>10, <2>11, <2>12
<1> HIDE DEF P, TypeOK, Sound, Phase
<1>16. P
  BY <1>1, <1>2, <1>3, <1>4, <1>5, <1>6, <1>7, <1>8, <1>9, <1>10, <1>11,
     <1>12, <1>13, <1>14, <1>15, NextCases
<1> QED
  BY <1>16 DEF P

\* put_request() wakes one consumer, with one request in the list.
LEMMA PlacingStep ==
  ASSUME Paced, ~SpuriousWakeups, TypeOK, ~done, Sound, Placing,
         Next, ~done'
  PROVE  Sound' /\ Phase'
<1> DEFINE P == Sound' /\ Phase'
<1> USE PoolAssumption DEF TypeOK, Sound, Phase, Starting, Placing, Taking,
      Leaving, RestBut, NoRequest, OneRequest, At, Go, Acquire, Release, Drop,
      syncVars, listVars, lifeVars, flagVars
<1>1. WhileTest => P   BY DEF WhileTest
<1>2. MainLock("putLock", "insert") => P   BY DEF MainLock
<1>3. Insert => P   BY DEF Insert
<1>4. Increment => P   BY DEF Increment
<1>5. Signal => P   BY DEF Signal
<1>6. MainUnlock("putUnlock", "while") => P   BY DEF MainUnlock
<1>7. MainLock("finLock", "finSet") => P   BY DEF MainLock
<1>8. FinishSet => P   BY DEF FinishSet
<1>9. FinishBroadcast => P   BY DEF FinishBroadcast, WakeAll
<1>10. MainUnlock("finUnlock", "join") => P   BY DEF MainUnlock
<1>11. JoinAndReturn => P   BY DEF JoinAndReturn
<1>12. Accept => P   BY DEF Accept, Settled
<1>13. AcceptInterrupted => P   BY DEF AcceptInterrupted
<1>14. Sigterm => P   BY DEF Sigterm
<1>15. ASSUME NEW c \in Consumers
      PROVE  /\ LoopTest(c) => P
             /\ Lock(c) => P
             /\ QueueTest(c) => P
             /\ Wait(c) => P
             /\ SpuriousWake(c) => P
             /\ Relock(c) => P
             /\ FinishTest(c) => P
             /\ Fetch(c) => P
             /\ Decrement(c) => P
             /\ Unlock(c) => P
             /\ Serve(c) => P
             /\ FreeRequest(c) => P
  <2>1. LoopTest(c) => P   BY DEF LoopTest
  <2>2. Lock(c) => P   BY DEF Lock
  <2>3. QueueTest(c) => P   BY DEF QueueTest
  <2>4. Wait(c) => P   BY DEF Wait
  <2>5. SpuriousWake(c) => P   BY DEF SpuriousWake
  <2>6. Relock(c) => P   BY DEF Relock
  <2>7. FinishTest(c) => P   BY DEF FinishTest
  <2>8. Fetch(c) => P   BY DEF Fetch, Unlink
  <2>9. Decrement(c) => P   BY DEF Decrement
  <2>10. Unlock(c) => P   BY DEF Unlock
  <2>11. Serve(c) => P   BY DEF Serve, Settled
  <2>12. FreeRequest(c) => P   BY DEF FreeRequest
  <2> QED
    BY <2>1, <2>2, <2>3, <2>4, <2>5, <2>6, <2>7, <2>8, <2>9, <2>10, <2>11, <2>12
<1> HIDE DEF P, TypeOK, Sound, Phase
<1>16. P
  BY <1>1, <1>2, <1>3, <1>4, <1>5, <1>6, <1>7, <1>8, <1>9, <1>10, <1>11,
     <1>12, <1>13, <1>14, <1>15, NextCases
<1> QED
  BY <1>16 DEF P

\* That consumer takes it, and nobody else moves but the main thread.
LEMMA TakingStep ==
  ASSUME Paced, ~SpuriousWakeups, TypeOK, ~done, Sound,
         NEW x \in Consumers, Taking(x),
         Next, ~done'
  PROVE  Sound' /\ Phase'
<1> DEFINE P == Sound' /\ Phase'
<1> USE PoolAssumption DEF TypeOK, Sound, Phase, Starting, Placing, Taking,
      Leaving, RestBut, NoRequest, OneRequest, At, Go, Acquire, Release, Drop,
      syncVars, listVars, lifeVars, flagVars
<1>1. WhileTest => P   BY DEF WhileTest
<1>2. MainLock("putLock", "insert") => P   BY DEF MainLock
<1>3. Insert => P   BY DEF Insert
<1>4. Increment => P   BY DEF Increment
<1>5. Signal => P   BY DEF Signal
<1>6. MainUnlock("putUnlock", "while") => P   BY DEF MainUnlock
<1>7. MainLock("finLock", "finSet") => P   BY DEF MainLock
<1>8. FinishSet => P   BY DEF FinishSet
<1>9. FinishBroadcast => P   BY DEF FinishBroadcast, WakeAll
<1>10. MainUnlock("finUnlock", "join") => P   BY DEF MainUnlock
<1>11. JoinAndReturn => P   BY DEF JoinAndReturn
<1>12. Accept => P   BY DEF Accept, Settled
<1>13. AcceptInterrupted => P   BY DEF AcceptInterrupted
<1>14. Sigterm => P   BY DEF Sigterm
<1>15. ASSUME NEW c \in Consumers
      PROVE  /\ LoopTest(c) => P
             /\ Lock(c) => P
             /\ QueueTest(c) => P
             /\ Wait(c) => P
             /\ SpuriousWake(c) => P
             /\ Relock(c) => P
             /\ FinishTest(c) => P
             /\ Fetch(c) => P
             /\ Decrement(c) => P
             /\ Unlock(c) => P
             /\ Serve(c) => P
             /\ FreeRequest(c) => P
  <2>1. LoopTest(c) => P   BY DEF LoopTest
  <2>2. Lock(c) => P   BY DEF Lock
  <2>3. QueueTest(c) => P   BY DEF QueueTest
  <2>4. Wait(c) => P   BY DEF Wait
  <2>5. SpuriousWake(c) => P   BY DEF SpuriousWake
  <2>6. Relock(c) => P   BY DEF Relock
  <2>7. FinishTest(c) => P   BY DEF FinishTest
  <2>8. ASSUME Fetch(c) PROVE P
    <3>1. c = x /\ pc[c] = "fetch" /\ tail \in Requests /\ prev[tail] = None
      BY <2>8 DEF Fetch
    <3>2. head' = None /\ tail' = None /\ UNCHANGED <<prev, queue_size>>
      BY <2>8, <3>1 DEF Fetch, Unlink
    <3>3. pc' = [pc EXCEPT ![c] = "decrement"]
          /\ UNCHANGED <<lock, broken, waiters, finish, done, ended>>
      BY <2>8, <3>1 DEF Fetch
    <3>4. Taking(c)'
      BY <3>1, <3>2, <3>3
    <3> QED
      BY <3>2, <3>3, <3>4
  <2>9. Decrement(c) => P   BY DEF Decrement
  <2>10. Unlock(c) => P   BY DEF Unlock
  <2>11. Serve(c) => P   BY DEF Serve, Settled
  <2>12. FreeRequest(c) => P   BY DEF FreeRequest
  <2> QED
    BY <2>1, <2>2, <2>3, <2>4, <2>5, <2>6, <2>7, <2>8, <2>9, <2>10, <2>11, <2>12
<1> HIDE DEF P, TypeOK, Sound, Phase
<1>16. P
  BY <1>1, <1>2, <1>3, <1>4, <1>5, <1>6, <1>7, <1>8, <1>9, <1>10, <1>11,
     <1>12, <1>13, <1>14, <1>15, NextCases
<1> QED
  BY <1>16 DEF P

\* A consumer that ended a reply finds queue_size at zero.
LEMMA LeavingStep ==
  ASSUME Paced, ~SpuriousWakeups, TypeOK, ~done, Sound,
         NEW x \in Consumers, Leaving(x),
         Next, ~done'
  PROVE  Sound' /\ Phase'
<1> DEFINE P == Sound' /\ Phase'
<1> USE PoolAssumption DEF TypeOK, Sound, Phase, Starting, Placing, Taking,
      Leaving, RestBut, NoRequest, OneRequest, At, Go, Acquire, Release, Drop,
      syncVars, listVars, lifeVars, flagVars
<1>1. WhileTest => P   BY DEF WhileTest
<1>2. MainLock("putLock", "insert") => P   BY DEF MainLock
<1>3. Insert => P   BY DEF Insert
<1>4. Increment => P   BY DEF Increment
<1>5. Signal => P   BY DEF Signal
<1>6. MainUnlock("putUnlock", "while") => P   BY DEF MainUnlock
<1>7. MainLock("finLock", "finSet") => P   BY DEF MainLock
<1>8. FinishSet => P   BY DEF FinishSet
<1>9. FinishBroadcast => P   BY DEF FinishBroadcast, WakeAll
<1>10. MainUnlock("finUnlock", "join") => P   BY DEF MainUnlock
<1>11. JoinAndReturn => P   BY DEF JoinAndReturn
<1>12. Accept => P   BY DEF Accept, Settled
<1>13. AcceptInterrupted => P   BY DEF AcceptInterrupted
<1>14. Sigterm => P   BY DEF Sigterm
<1>15. ASSUME NEW c \in Consumers
      PROVE  /\ LoopTest(c) => P
             /\ Lock(c) => P
             /\ QueueTest(c) => P
             /\ Wait(c) => P
             /\ SpuriousWake(c) => P
             /\ Relock(c) => P
             /\ FinishTest(c) => P
             /\ Fetch(c) => P
             /\ Decrement(c) => P
             /\ Unlock(c) => P
             /\ Serve(c) => P
             /\ FreeRequest(c) => P
  <2>1. LoopTest(c) => P   BY DEF LoopTest
  <2>2. Lock(c) => P   BY DEF Lock
  <2>3. QueueTest(c) => P   BY DEF QueueTest
  <2>4. Wait(c) => P   BY DEF Wait
  <2>5. SpuriousWake(c) => P   BY DEF SpuriousWake
  <2>6. Relock(c) => P   BY DEF Relock
  <2>7. FinishTest(c) => P   BY DEF FinishTest
  <2>8. Fetch(c) => P   BY DEF Fetch, Unlink
  <2>9. Decrement(c) => P   BY DEF Decrement
  <2>10. Unlock(c) => P   BY DEF Unlock
  <2>11. Serve(c) => P   BY DEF Serve, Settled
  <2>12. FreeRequest(c) => P   BY DEF FreeRequest
  <2> QED
    BY <2>1, <2>2, <2>3, <2>4, <2>5, <2>6, <2>7, <2>8, <2>9, <2>10, <2>11, <2>12
<1> HIDE DEF P, TypeOK, Sound, Phase
<1>16. P
  BY <1>1, <1>2, <1>3, <1>4, <1>5, <1>6, <1>7, <1>8, <1>9, <1>10, <1>11,
     <1>12, <1>13, <1>14, <1>15, NextCases
<1> QED
  BY <1>16 DEF P

\* Nobody takes a SIGTERM back.
LEMMA DoneStays == ASSUME Next, ~done' PROVE ~done
<1> DEFINE P == ~done
<1> USE DEF flagVars
<1>1. /\ WhileTest => P
      /\ MainLock("putLock", "insert") => P
      /\ Insert => P
      /\ Increment => P
      /\ Signal => P
      /\ MainUnlock("putUnlock", "while") => P
      /\ MainLock("finLock", "finSet") => P
      /\ FinishSet => P
      /\ FinishBroadcast => P
      /\ MainUnlock("finUnlock", "join") => P
      /\ JoinAndReturn => P
      /\ Accept => P
      /\ AcceptInterrupted => P
      /\ Sigterm => P
  BY DEF WhileTest, MainLock, Insert, Increment, Signal, MainUnlock, FinishSet,
     FinishBroadcast, WakeAll, JoinAndReturn, Accept, AcceptInterrupted,
     Sigterm
<1>2. ASSUME NEW c \in Consumers
      PROVE  /\ LoopTest(c) => P
             /\ Lock(c) => P
             /\ QueueTest(c) => P
             /\ Wait(c) => P
             /\ SpuriousWake(c) => P
             /\ Relock(c) => P
             /\ FinishTest(c) => P
             /\ Fetch(c) => P
             /\ Decrement(c) => P
             /\ Unlock(c) => P
             /\ Serve(c) => P
             /\ FreeRequest(c) => P
  BY DEF LoopTest, Lock, QueueTest, Wait, SpuriousWake, Relock, FinishTest,
     Fetch, Decrement, Unlock, Serve, FreeRequest
<1> HIDE DEF P
<1>3. P
  BY <1>1, <1>2, NextCases
<1> QED
  BY <1>3 DEF P

\* One activity at a time: the invariant is inductive.
LEMMA PacedAlways == Paced /\ ~SpuriousWakeups => (Spec => []PacedInv)
<1> SUFFICES ASSUME Paced, ~SpuriousWakeups PROVE Spec => []PacedInv
  OBVIOUS
<1>1. Init => PacedInv
  BY PoolAssumption DEF Init, PacedInv, Sound, Phase, Starting, NoRequest
<1>2. TypeOK /\ PacedInv /\ [Next]_vars => PacedInv'
  <2> SUFFICES ASSUME TypeOK, PacedInv, [Next]_vars, ~done'
               PROVE  Sound' /\ Phase'
    BY DEF PacedInv
  <2>1. CASE Next
    <3>1. ~done
      BY <2>1, DoneStays
    <3>2. Sound /\ Phase
      BY <3>1 DEF PacedInv
    <3> QED
      BY <2>1, <3>1, <3>2, StartingStep, PlacingStep, TakingStep, LeavingStep
         DEF Phase
  <2>2. CASE UNCHANGED vars
    <3>1. UNCHANGED <<pc, lock, waiters, prev, head, tail, queue_size, done,
                      finish, broken, ended>>
      BY <2>2 DEF vars, syncVars, listVars, flagVars
    <3>2. Sound /\ Phase
      BY <3>1 DEF PacedInv
    <3> QED
      BY <3>1, <3>2 DEF Sound, Phase, Starting, Placing, Taking, Leaving,
         RestBut, NoRequest, OneRequest
  <2> QED
    BY <2>1, <2>2
<1> QED
  BY <1>1, <1>2, TypeCorrect, PTL DEF Spec

\* What is served one at a time is served safely: when each connection finds
\* every thread at rest and one of them waiting, the end of each reply finds
\* them so, and no wakeup is spurious, then until a SIGTERM queue_size is zero
\* whenever a consumer tests it without the mutex, so that none of them keeps
\* the mutex, breaks it or fetches from an empty list.
THEOREM PacedPool == Paced /\ ~SpuriousWakeups => (Spec => []PacedSafe)
<1> SUFFICES ASSUME Paced, ~SpuriousWakeups PROVE Spec => []PacedSafe
  OBVIOUS
<1>1. TypeOK /\ PacedInv => PacedSafe
  BY PoolAssumption DEF PacedInv, PacedSafe, Sound, Phase, Starting, Placing,
     Taking, Leaving, RestBut, SelfDeadlocked, TypeOK
<1> QED
  BY <1>1, PacedAlways, TypeCorrect, PTL
=============================================================================
