-------------------------- MODULE PoolQueueProofs --------------------------
(* Theorems about the list of ThreadPool, for any number of consumers and  *)
(* requests: what it holds, what queue_size counts, who serves what.       *)
EXTENDS PoolQueue, ThreadPoolProofs, FiniteSetTheorems, SequenceTheorems,
        WellFoundedInduction

USE DEF Requests, Threads

\* The requests from the tail to the head of the list.
Chain == IF head = None THEN {} ELSE tail .. head

\* The request that main() linked and did not count yet.
Linking == IF pc[Main] = "increment" THEN {accepted} ELSE {}

\* How many requests were unlinked and not counted off yet.
Unlinking == IF \E c \in Consumers : pc[c] = "decrement" THEN 1 ELSE 0

\* A request is made when it is accepted, and not yet in the list.
LifeInv ==
  /\ \A r \in Requests : (stage[r] = "none") = (r > accepted)
  /\ pc[Main] \in {"putLock", "insert", "increment"} =>
       stage[accepted] = "accepted"

\* The list begins with the request that arrived last, and whatever the prev
\* pointers lead to was not given away.
ChainInv ==
  /\ (head = None) = (tail = None)
  /\ head # None => head = Arrived /\ tail <= head
  /\ pc[Main] = "increment" => head = accepted
  /\ Chain \subseteq Queued \cup Linking
  /\ \A r \in Requests : prev[r] # None => prev[r] = r + 1 /\ r + 1 <= Arrived

\* What a consumer holds was given to it alone; it holds nothing else.
GivenInv ==
  /\ \A c \in Consumers : pc[c] \notin Fetching => req[c] = None
  /\ \A c, d \in Consumers :
       /\ pc[c] \in Fetching => stage[req[c]] = "fetched"
       /\ pc[c] \in Fetching /\ pc[d] \in Fetching /\ c # d => req[c] # req[d]

CountInv ==
  /\ queue_size = Cardinality(Queued) + Unlinking
  /\ queue_size <= highest

\* The list is whole until a third request waits.
ShortInv ==
  highest <= 2 =>
    /\ Chain = Queued \cup Linking
    /\ \A r \in Chain : prev[r] = IF r = head THEN None ELSE r + 1

WorkInv == LifeInv /\ ChainInv /\ GivenInv /\ CountInv /\ ShortInv

\* A step that touches neither the list nor any request, and leaves no thread
\* at another point as far as these are concerned.
Idle ==
  /\ UNCHANGED <<head, tail, prev, queue_size, highest, accepted, stage, req>>
  /\ (pc'[Main] \in {"putLock", "insert"}) = (pc[Main] \in {"putLock", "insert"})
  /\ (pc'[Main] = "increment") = (pc[Main] = "increment")
  /\ \A c \in Consumers :
       /\ (pc'[c] = "decrement") = (pc[c] = "decrement")
       /\ (pc'[c] \in Fetching) = (pc[c] \in Fetching)

\* Seven actions deal with requests; every other one is idle.
LEMMA StepCases ==
  ASSUME TypeOK, [Next]_vars
  PROVE  \/ Idle \/ Accept \/ Insert \/ Increment
         \/ \E c \in Consumers : Fetch(c) \/ Decrement(c) \/ FreeRequest(c)
<1> USE PoolAssumption DEF TypeOK, Idle, At, Go, listVars, lifeVars, flagVars,
      Fetching, ConsumerPoints, ConsumerSection, MainPoints, MainSection
<1>1. CASE Next
  <2>1. WhileTest => Idle                        BY DEF WhileTest
  <2>2. MainLock("putLock", "insert") => Idle    BY DEF MainLock
  <2>3. Signal => Idle                           BY DEF Signal
  <2>4. MainUnlock("putUnlock", "while") => Idle BY DEF MainUnlock
  <2>5. MainLock("finLock", "finSet") => Idle    BY DEF MainLock
  <2>6. FinishSet => Idle                        BY DEF FinishSet
  <2>7. FinishBroadcast => Idle                  BY DEF FinishBroadcast, WakeAll
  <2>8. MainUnlock("finUnlock", "join") => Idle  BY DEF MainUnlock
  <2>9. JoinAndReturn => Idle                    BY DEF JoinAndReturn
  <2>10. AcceptInterrupted => Idle               BY DEF AcceptInterrupted
  <2>11. Sigterm => Idle                         BY DEF Sigterm
  <2>12. ASSUME NEW c \in Consumers
         PROVE  /\ LoopTest(c) => Idle
                /\ Lock(c) => Idle
                /\ QueueTest(c) => Idle
                /\ Wait(c) => Idle
                /\ SpuriousWake(c) => Idle
                /\ Relock(c) => Idle
                /\ FinishTest(c) => Idle
                /\ Unlock(c) => Idle
                /\ Serve(c) => Idle
    <3>1. LoopTest(c) => Idle      BY DEF LoopTest
    <3>2. Lock(c) => Idle          BY DEF Lock
    <3>3. QueueTest(c) => Idle     BY DEF QueueTest
    <3>4. Wait(c) => Idle          BY DEF Wait
    <3>5. SpuriousWake(c) => Idle  BY DEF SpuriousWake
    <3>6. Relock(c) => Idle        BY DEF Relock
    <3>7. FinishTest(c) => Idle    BY DEF FinishTest
    <3>8. Unlock(c) => Idle        BY DEF Unlock
    <3>9. Serve(c) => Idle         BY DEF Serve
    <3> QED
      BY <3>1, <3>2, <3>3, <3>4, <3>5, <3>6, <3>7, <3>8, <3>9
  <2> HIDE DEF TypeOK, Idle
  <2> QED
    BY <1>1, <2>1, <2>2, <2>3, <2>4, <2>5, <2>6, <2>7, <2>8, <2>9, <2>10,
       <2>11, <2>12 DEF Next, MainStep, ConsumerStep
<1>2. CASE UNCHANGED vars
  BY <1>2 DEF vars
<1> QED
  BY <1>1, <1>2

\* A mutex that was broken stays so.
LEMMA BrokenStays ==
  ASSUME [Next]_vars, broken PROVE broken'
<1> USE DEF Acquire, Release, Drop, syncVars
<1>1. CASE Next
  <2>1. /\ WhileTest => broken'
        /\ MainLock("putLock", "insert") => broken'
        /\ Insert => broken'
        /\ Increment => broken'
        /\ Signal => broken'
        /\ MainUnlock("putUnlock", "while") => broken'
        /\ MainLock("finLock", "finSet") => broken'
        /\ FinishSet => broken'
        /\ FinishBroadcast => broken'
        /\ MainUnlock("finUnlock", "join") => broken'
        /\ JoinAndReturn => broken'
        /\ Accept => broken'
        /\ AcceptInterrupted => broken'
        /\ Sigterm => broken'
    BY DEF WhileTest, MainLock, Insert, Increment, Signal, MainUnlock,
       FinishSet, FinishBroadcast, WakeAll, JoinAndReturn, Accept,
       AcceptInterrupted, Sigterm
  <2>2. ASSUME NEW c \in Consumers
        PROVE  /\ LoopTest(c) => broken'
               /\ Lock(c) => broken'
               /\ QueueTest(c) => broken'
               /\ Wait(c) => broken'
               /\ SpuriousWake(c) => broken'
               /\ Relock(c) => broken'
               /\ FinishTest(c) => broken'
               /\ Fetch(c) => broken'
               /\ Decrement(c) => broken'
               /\ Unlock(c) => broken'
               /\ Serve(c) => broken'
               /\ FreeRequest(c) => broken'
    BY DEF LoopTest, Lock, QueueTest, Wait, SpuriousWake, Relock,
       FinishTest, Fetch, Decrement, Unlock, Serve, FreeRequest
  <2> QED
    BY <1>1, <2>1, <2>2, NextCases
<1>2. CASE UNCHANGED vars
  BY <1>2 DEF vars
<1> QED
  BY <1>1, <1>2

\* The requests that wait are finitely many.
LEMMA QueuedFinite ==
  ASSUME PoolAssumption PROVE IsFiniteSet(Queued)
<1>1. IsFiniteSet(1 .. NumRequests)
  BY FS_Interval DEF PoolAssumption
<1> QED
  BY <1>1, FS_Subset DEF Queued

LEMMA IdleWork ==
  ASSUME TypeOK, WorkInv, Idle PROVE WorkInv'
<1>1. Arrived' = Arrived /\ Linking' = Linking /\ Unlinking' = Unlinking
  BY DEF Idle, Arrived, Linking, Unlinking
<1>2. Queued' = Queued /\ Chain' = Chain
  BY DEF Idle, Queued, Chain
<1>3. LifeInv'
  BY DEF Idle, WorkInv, LifeInv
<1>4. ChainInv'
  BY <1>1, <1>2 DEF Idle, WorkInv, ChainInv
<1>5. GivenInv'
  BY DEF Idle, WorkInv, GivenInv
<1>6. CountInv' /\ ShortInv'
  BY <1>1, <1>2 DEF Idle, WorkInv, CountInv, ShortInv
<1> QED
  BY <1>3, <1>4, <1>5, <1>6 DEF WorkInv

\* A new request is put aside: nothing in the list or with a consumer is it.
LEMMA AcceptWork ==
  ASSUME TypeOK, WorkInv, Accept PROVE WorkInv'
<1> USE PoolAssumption DEF TypeOK, Accept, Go, At, listVars, flagVars, syncVars,
      MainPoints, MainSection
<1>1. /\ pc[Main] = "accept" /\ pc'[Main] = "putLock"
      /\ \A c \in Consumers : pc'[c] = pc[c]
      /\ accepted \in Nat /\ accepted' = accepted + 1 /\ accepted' \in Requests
      /\ stage' = [stage EXCEPT ![accepted'] = "accepted"]
      /\ UNCHANGED <<head, tail, prev, queue_size, highest, req>>
  OBVIOUS
<1>2. stage[accepted'] = "none"
  BY <1>1 DEF WorkInv, LifeInv
<1>3. Arrived' = Arrived /\ Linking' = Linking /\ Unlinking' = Unlinking
  BY <1>1 DEF Arrived, Linking, Unlinking
<1>4. Queued' = Queued /\ Chain' = Chain
  BY <1>1, <1>2 DEF Queued, Chain
<1>5. LifeInv'
  BY <1>1 DEF WorkInv, LifeInv
<1>6. ChainInv'
  BY <1>1, <1>3, <1>4 DEF WorkInv, ChainInv
<1>7. GivenInv'
  BY <1>1, <1>2 DEF WorkInv, GivenInv
<1>8. CountInv' /\ ShortInv'
  BY <1>1, <1>3, <1>4 DEF WorkInv, CountInv, ShortInv
<1> QED
  BY <1>5, <1>6, <1>7, <1>8 DEF WorkInv

\* A linked request becomes the head, behind the one that arrived before it.
LEMMA InsertWork ==
  ASSUME TypeOK, WorkInv, Insert PROVE WorkInv'
<1> USE PoolAssumption DEF TypeOK, Go, At, lifeVars, flagVars, syncVars,
      MainPoints, MainSection, Putting
<1>1. /\ pc[Main] = "insert" /\ pc'[Main] = "increment"
      /\ \A c \in Consumers : pc'[c] = pc[c]
      /\ accepted \in Requests
      /\ head' = accepted
      /\ IF head = None
         THEN tail' = accepted /\ UNCHANGED prev
         ELSE prev' = [prev EXCEPT ![head] = accepted] /\ UNCHANGED tail
      /\ UNCHANGED <<queue_size, highest, accepted, stage, req>>
  BY DEF Insert
<1>2. /\ Arrived = accepted - 1 /\ Arrived' = accepted
      /\ Linking = {} /\ Linking' = {accepted} /\ Unlinking' = Unlinking
  BY <1>1 DEF Arrived, Linking, Unlinking
<1>3. Queued' = Queued
  BY <1>1 DEF Queued
<1>4. head # None => head = accepted - 1 /\ tail \in Requests /\ tail <= head
  BY <1>1, <1>2 DEF WorkInv, ChainInv
<1>5. Chain' = Chain \cup {accepted}
  BY <1>1, <1>4 DEF Chain
<1>6. LifeInv'
  BY <1>1 DEF WorkInv, LifeInv
<1>7. ChainInv'
  <2>1. \A r \in Requests :
          prev'[r] # None => prev'[r] = r + 1 /\ r + 1 <= Arrived'
    BY <1>1, <1>2, <1>4 DEF WorkInv, ChainInv
  <2> QED
    BY <1>1, <1>2, <1>3, <1>4, <1>5, <2>1 DEF WorkInv, ChainInv
<1>8. GivenInv'
  BY <1>1 DEF WorkInv, GivenInv
<1>9. CountInv'
  BY <1>1, <1>2, <1>3 DEF WorkInv, CountInv
<1>10. ShortInv'
  <2>1. prev[accepted] = None
    BY <1>1, <1>2 DEF WorkInv, ChainInv
  <2>2. ASSUME highest <= 2, NEW r \in Chain'
        PROVE  prev'[r] = IF r = head' THEN None ELSE r + 1
    <3>1. r \in Chain => prev[r] = IF r = head THEN None ELSE r + 1
      BY <2>2 DEF WorkInv, ShortInv
    <3>2. r \in Requests /\ (r \in Chain => head # None /\ r <= head)
      BY <1>1, <1>4, <1>5 DEF Chain
    <3> QED
      BY <1>1, <1>4, <1>5, <2>1, <3>1, <3>2
  <2> QED
    BY <1>1, <1>2, <1>3, <1>5, <2>2 DEF WorkInv, ShortInv
<1> QED
  BY <1>6, <1>7, <1>8, <1>9, <1>10 DEF WorkInv

LEMMA IncrementWork ==
  ASSUME TypeOK, WorkInv, Increment PROVE WorkInv'
<1> USE PoolAssumption DEF TypeOK, Go, At, lifeVars, flagVars, syncVars,
      MainPoints, MainSection, Putting
<1>1. /\ pc[Main] = "increment" /\ pc'[Main] = "signal"
      /\ \A c \in Consumers : pc'[c] = pc[c]
      /\ accepted \in Requests
      /\ queue_size' = queue_size + 1
      /\ queue_size' <= highest' /\ highest <= highest' /\ highest' \in Int
      /\ stage' = [stage EXCEPT ![accepted] = "queued"]
      /\ UNCHANGED <<head, tail, prev, accepted, req>>
  BY DEF Increment
<1>2. stage[accepted] = "accepted"
  BY <1>1 DEF WorkInv, LifeInv
<1>3. /\ Arrived' = Arrived /\ Unlinking' = Unlinking
      /\ Linking = {accepted} /\ Linking' = {}
  BY <1>1 DEF Arrived, Linking, Unlinking
<1>4. Queued' = Queued \cup {accepted} /\ accepted \notin Queued
  BY <1>1, <1>2 DEF Queued
<1>5. Chain' = Chain
  BY <1>1 DEF Chain
<1>6. LifeInv'
  BY <1>1, <1>2 DEF WorkInv, LifeInv
<1>7. ChainInv'
  BY <1>1, <1>3, <1>4, <1>5 DEF WorkInv, ChainInv
<1>8. GivenInv'
  BY <1>1, <1>2 DEF WorkInv, GivenInv
<1>9. CountInv'
  <2>1. Cardinality(Queued') = Cardinality(Queued) + 1
    BY <1>4, QueuedFinite, FS_AddElement
  <2>2. Cardinality(Queued) \in Nat /\ Unlinking \in Nat
    BY QueuedFinite, FS_CardinalityType DEF Unlinking
  <2> QED
    BY <1>1, <1>3, <2>1, <2>2 DEF WorkInv, CountInv
<1>10. ShortInv'
  <2>1. highest' <= 2 => highest <= 2
    BY <1>1
  <2> HIDE DEF TypeOK
  <2> QED
    BY <1>1, <1>3, <1>4, <1>5, <2>1 DEF WorkInv, ShortInv
<1> QED
  BY <1>6, <1>7, <1>8, <1>9, <1>10 DEF WorkInv

\* No two threads are in their critical sections.
Alone == \A t, u \in Threads : InSection(t) /\ InSection(u) => t = u

\* The oldest request leaves the list.  It waited: main() is not at line 37,
\* so that whatever is linked is counted.
LEMMA FetchWork ==
  ASSUME TypeOK, WorkInv, Alone, NEW c \in Consumers, Fetch(c)
  PROVE  WorkInv'
<1> USE PoolAssumption DEF Go, At, flagVars, syncVars
<1>1. /\ pc[c] = "fetch"
      /\ pc[Main] \notin {"insert", "increment"}
      /\ \A d \in Consumers : pc[d] # "decrement"
  <2>1. pc[c] = "fetch" /\ InSection(c)
    BY DEF Fetch, InSection, ConsumerSection
  <2>2. ASSUME pc[Main] \in {"insert", "increment"} PROVE FALSE
    BY <2>1, <2>2 DEF Alone, InSection, MainSection
  <2>3. ASSUME NEW d \in Consumers, pc[d] = "decrement" PROVE FALSE
    BY <2>1, <2>3 DEF Alone, InSection, ConsumerSection
  <2> QED
    BY <2>1, <2>2, <2>3
<1>2. CASE tail = None
  <2>1. Idle
    BY <1>2 DEF Fetch, Idle, listVars
  <2> QED
    BY <2>1, IdleWork
<1>3. CASE tail # None
  <2>1. /\ pc' = [pc EXCEPT ![c] = "decrement"]
        /\ req' = [req EXCEPT ![c] = tail]
        /\ stage' = [stage EXCEPT ![tail] = "fetched"]
        /\ tail' = prev[tail]
        /\ IF tail' = None
           THEN head' = None /\ UNCHANGED prev
           ELSE prev' = [prev EXCEPT ![tail'] = None] /\ UNCHANGED head
        /\ UNCHANGED <<queue_size, highest, accepted>>
    BY <1>3 DEF Fetch, Unlink
  <2>2. /\ tail \in Requests /\ head \in Requests /\ tail <= head
        /\ head = Arrived /\ accepted \in Nat
        /\ prev[tail] = None \/ (prev[tail] = tail + 1 /\ tail + 1 <= head
                                 /\ tail + 1 \in Requests)
    BY <1>3 DEF TypeOK, WorkInv, ChainInv
  <2>3. /\ Linking = {} /\ Linking' = {} /\ Arrived' = Arrived
        /\ Unlinking = 0 /\ Unlinking' = 1
    BY <1>1, <2>1 DEF Linking, Unlinking, Arrived, TypeOK
  <2>4. tail \in Chain /\ Chain \subseteq Queued /\ stage[tail] = "queued"
    BY <1>3, <2>2, <2>3 DEF Chain, Queued, WorkInv, ChainInv
  <2>5. Queued' = Queued \ {tail} /\ tail \in Queued
    BY <2>1, <2>4 DEF Queued, TypeOK
  <2>6. Chain' \subseteq Chain \ {tail}
    BY <1>3, <2>1, <2>2 DEF Chain
  <2>7. LifeInv'
    <3>1. \A r \in Requests : (stage'[r] = "none") = (r > accepted)
      BY <2>1, <2>4 DEF WorkInv, LifeInv, TypeOK
    <3>2. pc'[Main] = pc[Main] /\ pc[Main] # "increment"
      BY <1>1, <2>1 DEF TypeOK
    <3> QED
      BY <2>1, <2>2, <2>4, <3>1, <3>2 DEF WorkInv, LifeInv, TypeOK
  <2>8. ChainInv'
    <3>1. (head' = None) = (tail' = None)
      BY <2>1, <2>2
    <3>2. head' # None => head' = Arrived' /\ tail' <= head'
      BY <2>1, <2>2, <2>3
    <3>3. \A r \in Requests :
            prev'[r] # None => prev'[r] = r + 1 /\ r + 1 <= Arrived'
      BY <2>1, <2>2, <2>3 DEF WorkInv, ChainInv, TypeOK
    <3>4. pc'[Main] # "increment"
      BY <1>1, <2>1 DEF TypeOK
    <3> QED
      BY <2>3, <2>4, <2>5, <2>6, <3>1, <3>2, <3>3, <3>4 DEF ChainInv
  <2>9. GivenInv'
    <3>1. /\ \A d \in Consumers : d # c => pc'[d] = pc[d] /\ req'[d] = req[d]
          /\ pc'[c] \in Fetching
      BY <2>1 DEF TypeOK, Fetching
    <3>2. \A d \in Consumers :
            d # c /\ pc[d] \in Fetching =>
              req[d] \in Requests /\ req[d] # tail /\ stage'[req[d]] = "fetched"
      BY <2>1, <2>4 DEF WorkInv, GivenInv, TypeOK
    <3>3. req'[c] = tail /\ stage'[tail] = "fetched"
      BY <2>1, <2>2 DEF TypeOK
    <3> QED
      BY <3>1, <3>2, <3>3 DEF GivenInv, WorkInv
  <2>10. CountInv'
    <3>1. Cardinality(Queued') = Cardinality(Queued) - 1
      BY <2>5, QueuedFinite, FS_RemoveElement
    <3>2. Cardinality(Queued) \in Nat
      BY QueuedFinite, FS_CardinalityType
    <3> QED
      BY <2>1, <2>3, <3>1, <3>2 DEF CountInv, WorkInv, TypeOK
  <2>11. ShortInv'
    <3> SUFFICES ASSUME highest <= 2
                 PROVE  /\ Chain' = Queued' \cup Linking'
                        /\ \A r \in Chain' :
                             prev'[r] = IF r = head' THEN None ELSE r + 1
      BY <2>1 DEF ShortInv
    <3>1. Chain = Queued /\ prev[tail] = IF tail = head THEN None ELSE tail + 1
      BY <2>3, <2>4 DEF WorkInv, ShortInv
    <3>2. head <= tail + 1
      <4>1. Cardinality(tail .. head) = head - tail + 1
        BY <2>2, FS_Interval
      <4>2. Cardinality(tail .. head) = queue_size
        BY <2>2, <2>3, <3>1, QueuedFinite, FS_CardinalityType
        DEF Chain, WorkInv, CountInv
      <4>3. queue_size <= 2
        BY DEF WorkInv, CountInv, TypeOK
      <4> QED
        BY <2>2, <4>1, <4>2, <4>3
    <3>3. CASE head = tail
      BY <2>1, <2>2, <2>3, <2>5, <3>1, <3>3 DEF Chain
    <3>4. CASE head = tail + 1
      <4>1. tail' = head /\ head' = head /\ prev'[head] = None
        BY <2>1, <2>2, <3>1, <3>4 DEF TypeOK
      <4>2. Chain = {tail, head} /\ Chain' = {head}
        BY <2>2, <3>4, <4>1 DEF Chain
      <4> QED
        BY <2>2, <2>3, <2>5, <3>1, <3>4, <4>1, <4>2
    <3> QED
      BY <2>2, <3>2, <3>3, <3>4
  <2> QED
    BY <2>7, <2>8, <2>9, <2>10, <2>11 DEF WorkInv
<1> QED
  BY <1>2, <1>3

LEMMA DecrementWork ==
  ASSUME TypeOK, WorkInv, Alone, NEW c \in Consumers, Decrement(c)
  PROVE  WorkInv'
<1> USE PoolAssumption DEF Go, At, lifeVars, flagVars, syncVars
<1>1. /\ pc[c] = "decrement" /\ pc'[c] = "unlock"
      /\ \A t \in Threads : t # c => pc'[t] = pc[t]
      /\ queue_size' = queue_size - 1
      /\ UNCHANGED <<head, tail, prev, highest, accepted, stage, req>>
  BY DEF Decrement, TypeOK
<1>2. \A d \in Consumers : pc'[d] # "decrement"
  <2>1. \A d \in Consumers : pc[d] = "decrement" => d = c
    BY <1>1 DEF Alone, InSection, ConsumerSection
  <2> QED
    BY <1>1, <2>1
<1>3. /\ Arrived' = Arrived /\ Linking' = Linking
      /\ Unlinking = 1 /\ Unlinking' = 0
  BY <1>1, <1>2 DEF Arrived, Linking, Unlinking
<1>4. Queued' = Queued /\ Chain' = Chain
  BY <1>1 DEF Queued, Chain
<1>5. LifeInv' /\ ChainInv' /\ ShortInv'
  BY <1>1, <1>3, <1>4 DEF WorkInv, LifeInv, ChainInv, ShortInv
<1>6. GivenInv'
  BY <1>1 DEF WorkInv, GivenInv, Fetching
<1>7. CountInv'
  BY <1>1, <1>3, <1>4, QueuedFinite, FS_CardinalityType
  DEF WorkInv, CountInv, TypeOK
<1> QED
  BY <1>5, <1>6, <1>7 DEF WorkInv

LEMMA FreeWork ==
  ASSUME TypeOK, WorkInv, NEW c \in Consumers, FreeRequest(c)
  PROVE  WorkInv'
<1> USE PoolAssumption DEF Go, At, flagVars, syncVars
<1>1. /\ pc[c] = "free" /\ pc'[c] = "recheck"
      /\ \A t \in Threads : t # c => pc'[t] = pc[t]
      /\ stage' = [stage EXCEPT ![req[c]] = "freed"]
      /\ req' = [req EXCEPT ![c] = None]
      /\ UNCHANGED <<head, tail, prev, queue_size, highest, accepted>>
  BY DEF FreeRequest, TypeOK, listVars
<1>2. req[c] \in Requests /\ stage[req[c]] = "fetched"
  BY <1>1 DEF TypeOK, WorkInv, GivenInv, Fetching
<1>3. Arrived' = Arrived /\ Linking' = Linking /\ Unlinking' = Unlinking
  BY <1>1 DEF Arrived, Linking, Unlinking
<1>4. Queued' = Queued /\ Chain' = Chain
  BY <1>1, <1>2 DEF Queued, Chain, TypeOK
<1>5. LifeInv'
  BY <1>1, <1>2 DEF WorkInv, LifeInv, TypeOK
<1>6. ChainInv' /\ ShortInv' /\ CountInv'
  BY <1>1, <1>3, <1>4 DEF WorkInv, ChainInv, ShortInv, CountInv
<1>7. GivenInv'
  <2>1. /\ \A d \in Consumers :
             pc'[d] \in Fetching => d # c /\ pc[d] \in Fetching /\ req'[d] = req[d]
        /\ \A d \in Consumers : d # c => pc'[d] = pc[d] /\ req'[d] = req[d]
        /\ req'[c] = None
    BY <1>1 DEF TypeOK, Fetching
  <2>2. \A d \in Consumers :
          d # c /\ pc[d] \in Fetching => stage'[req[d]] = "fetched"
    BY <1>1, <1>2 DEF TypeOK, WorkInv, GivenInv, Fetching
  <2> QED
    BY <2>1, <2>2 DEF WorkInv, GivenInv
<1> QED
  BY <1>5, <1>6, <1>7 DEF WorkInv

-----------------------------------------------------------------------------
PoolInv == ~broken => WorkInv

LEMMA PoolStep ==
  ASSUME TypeOK, Exclusion, PoolInv, [Next]_vars PROVE PoolInv'
<1> SUFFICES ASSUME ~broken' PROVE WorkInv'
  BY DEF PoolInv
<1>1. ~broken /\ WorkInv /\ Alone
  BY BrokenStays DEF PoolInv, Exclusion, Alone
<1> QED
  BY <1>1, StepCases, IdleWork, AcceptWork, InsertWork, IncrementWork,
     FetchWork, DecrementWork, FreeWork

\* While the mutex is respected, the list, the counter, the stages of the
\* requests and the consumers' local variables agree at every point of the
\* critical sections, not only outside them.
THEOREM PoolWork == Spec => []PoolInv
<1>1. ASSUME Init PROVE PoolInv
  <2> USE PoolAssumption DEF Init
  <2>1. /\ Queued = {} /\ Chain = {} /\ Linking = {} /\ Unlinking = 0
        /\ Cardinality(Queued) = 0
    BY <1>1, FS_EmptySet DEF Queued, Chain, Linking, Unlinking
  <2>2. LifeInv /\ ChainInv /\ GivenInv
    BY <1>1, <2>1 DEF LifeInv, ChainInv, GivenInv, Fetching
  <2>3. CountInv /\ ShortInv
    BY <1>1, <2>1 DEF CountInv, ShortInv
  <2> QED
    BY <2>2, <2>3 DEF PoolInv, WorkInv
<1>2. TypeOK /\ Exclusion /\ PoolInv /\ [Next]_vars => PoolInv'
  BY PoolStep
<1> QED
  BY <1>1, <1>2, TypeCorrect, MutualExclusion, PTL DEF Spec

\* Each request is given to one consumer, which has it until it frees it.
THEOREM GivenOnce == Spec => []ServedOnce
<1>1. PoolInv => ServedOnce
  BY DEF PoolInv, WorkInv, GivenInv, ServedOnce
<1> QED
  BY <1>1, PoolWork, PTL

\* queue_size counts the requests that wait, however many.
THEOREM SizeAgrees == Spec => []QueueSizeAgrees
<1>1. PoolInv => QueueSizeAgrees
  <2> SUFFICES ASSUME PoolInv, ~broken, Quiet
               PROVE  queue_size = Cardinality(Queued)
    BY DEF QueueSizeAgrees
  <2>1. Unlinking = 0
    BY DEF Unlinking, Quiet, InSection, ConsumerSection
  <2>2. Cardinality(Queued) \in Nat
    BY PoolAssumption, QueuedFinite, FS_CardinalityType
  <2> QED
    BY <2>1, <2>2 DEF PoolInv, WorkInv, CountInv
<1> QED
  BY <1>1, PoolWork, PTL

\* The list holds the waiting requests in their order, until a third waits.
THEOREM ListWholeUntilThree == Spec => []ListIntact
<1>1. TypeOK /\ PoolInv => ListIntact
  <2> SUFFICES ASSUME TypeOK, PoolInv, ~broken, Quiet, highest <= 2
               PROVE  /\ (head = None) = (Queued = {})
                      /\ (tail = None) = (Queued = {})
                      /\ \A r \in Queued : tail <= r /\ r <= head
                      /\ \A r \in Queued :
                           prev[r] = IF r = head THEN None ELSE r + 1
    BY DEF ListIntact
  <2>1. Linking = {}
    BY DEF Linking, Quiet, InSection, MainSection
  <2>2. Chain = Queued
    BY <2>1 DEF PoolInv, WorkInv, ShortInv
  <2>3. /\ (head = None) = (tail = None)
        /\ head # None => tail \in Requests /\ head \in Requests /\ tail <= head
    BY DEF PoolInv, WorkInv, ChainInv, TypeOK
  <2>4. /\ head = None => Queued = {}
        /\ head # None => tail \in Queued
    BY <2>2, <2>3, PoolAssumption DEF Chain
  <2> QED
    BY <2>2, <2>3, <2>4, PoolAssumption DEF Chain, PoolInv, WorkInv, ShortInv
<1> QED
  BY <1>1, PoolWork, TypeCorrect, PTL

LEMMA NoneTakenStep ==
  ASSUME TypeOK, Exclusion, NoneTakenAfterFinish, [Next]_vars
  PROVE  NoneTakenAfterFinish'
<1> USE PoolAssumption DEF TypeOK, Exclusion, NoneTakenAfterFinish, InSection,
      ConsumerSection, MainSection, At, Go, lifeVars, listVars, flagVars
<1> SUFFICES ASSUME ~broken' PROVE NoneTakenAfterFinish'
  OBVIOUS
<1>1. ~broken
  BY BrokenStays
<1> DEFINE P == NoneTakenAfterFinish'
<1>2. CASE Next
  <2>1. WhileTest => P                        BY <1>1 DEF WhileTest
  <2>2. MainLock("putLock", "insert") => P    BY <1>1 DEF MainLock
  <2>3. Insert => P                           BY <1>1 DEF Insert
  <2>4. Increment => P                        BY <1>1 DEF Increment
  <2>5. Signal => P                           BY <1>1 DEF Signal
  <2>6. MainUnlock("putUnlock", "while") => P BY <1>1 DEF MainUnlock
  <2>7. MainLock("finLock", "finSet") => P    BY <1>1 DEF MainLock
  <2>8. FinishSet => P                        BY <1>1 DEF FinishSet
  <2>9. FinishBroadcast => P           BY <1>1 DEF FinishBroadcast, WakeAll
  <2>10. MainUnlock("finUnlock", "join") => P BY <1>1 DEF MainUnlock
  <2>11. JoinAndReturn => P                   BY <1>1 DEF JoinAndReturn
  <2>12. Accept => P                          BY <1>1 DEF Accept
  <2>13. AcceptInterrupted => P        BY <1>1 DEF AcceptInterrupted
  <2>14. Sigterm => P                         BY <1>1 DEF Sigterm
  <2>15. ASSUME NEW c \in Consumers
         PROVE  /\ LoopTest(c) => P
                /\ Lock(c) => P
                /\ QueueTest(c) => P
                /\ Wait(c) => P
                /\ SpuriousWake(c) => P
                /\ Relock(c) => P
                /\ FinishTest(c) => P
                /\ Fetch(c) => P
                /\ Decrement(c) => P
                /\ Unlock(c) => P
                /\ Serve(c) => P
                /\ FreeRequest(c) => P
    <3>1. LoopTest(c) => P      BY <1>1 DEF LoopTest
    <3>2. Lock(c) => P          BY <1>1 DEF Lock
    <3>3. QueueTest(c) => P     BY <1>1 DEF QueueTest
    <3>4. Wait(c) => P          BY <1>1 DEF Wait
    <3>5. SpuriousWake(c) => P  BY <1>1 DEF SpuriousWake
    <3>6. Relock(c) => P        BY <1>1 DEF Relock
    <3>7. FinishTest(c) => P    BY <1>1 DEF FinishTest
    <3>8. Fetch(c) => P         BY <1>1 DEF Fetch
    <3>9. Decrement(c) => P     BY <1>1 DEF Decrement
    <3>10. Unlock(c) => P       BY <1>1 DEF Unlock
    <3>11. Serve(c) => P        BY <1>1 DEF Serve
    <3>12. FreeRequest(c) => P  BY <1>1 DEF FreeRequest
    <3> QED
      BY <3>1, <3>2, <3>3, <3>4, <3>5, <3>6, <3>7, <3>8, <3>9, <3>10,
         <3>11, <3>12
  <2> HIDE DEF TypeOK, Exclusion, NoneTakenAfterFinish
  <2> QED
    BY <1>2, <2>1, <2>2, <2>3, <2>4, <2>5, <2>6, <2>7, <2>8, <2>9, <2>10,
       <2>11, <2>12, <2>13, <2>14, <2>15, NextCases
<1>3. CASE UNCHANGED vars
  BY <1>3 DEF vars, syncVars
<1> QED
  BY <1>2, <1>3

\* finish is set inside a section of main(): no consumer is then between its
\* test of finish and its unlock, and none passes the test afterwards.
THEOREM NoneTaken == Spec => []NoneTakenAfterFinish
<1>1. Init => NoneTakenAfterFinish
  BY DEF Init, NoneTakenAfterFinish
<1>2. TypeOK /\ Exclusion /\ NoneTakenAfterFinish /\ [Next]_vars
        => NoneTakenAfterFinish'
  BY NoneTakenStep
<1> QED
  BY <1>1, <1>2, TypeCorrect, MutualExclusion, PTL DEF Spec

-----------------------------------------------------------------------------
(* The list implements RequestQueue.                                       *)

LEMMA LeastElement ==
  ASSUME NEW S \in SUBSET Nat, S # {}
  PROVE  \E x \in S : \A y \in S : x <= y
<1>1. PICK x \in S : \A y \in S : ~(<<y, x>> \in OpToRel(<, Nat))
  BY WFMin, NatLessThanWellFounded
<1>2. ASSUME NEW y \in S PROVE x <= y
  <2>1. <<y, x>> \in Nat \X Nat
    OBVIOUS
  <2>2. ~(<<y, x>>[1] < <<y, x>>[2])
    BY <1>1, <2>1 DEF OpToRel
  <2> QED
    BY <2>2
<1> QED
  BY <1>2

\* The requests from first to last, in the order of arrival.
Order(first, last) == [k \in 1 .. last - first + 1 |-> first + k - 1]

LEMMA OrderSeq ==
  ASSUME NEW a \in Nat, NEW b \in Nat, a <= b + 1
  PROVE  /\ Order(a, b) \in Seq(Nat)
         /\ Len(Order(a, b)) = b - a + 1
         /\ \A k \in 1 .. b - a + 1 : Order(a, b)[k] = a + k - 1
BY DEF Order

LEMMA OrderAppend ==
  ASSUME NEW a \in Nat, NEW b \in Nat, a <= b + 1
  PROVE  Append(Order(a, b), b + 1) = Order(a, b + 1)
<1> DEFINE s == Order(a, b)
           t == Order(a, b + 1)
<1>1. /\ s \in Seq(Nat) /\ Len(s) = b - a + 1
      /\ \A k \in 1 .. b - a + 1 : s[k] = a + k - 1
  BY OrderSeq
<1>2. b + 1 \in Nat /\ a <= (b + 1) + 1 /\ (b + 1) - a + 1 = b - a + 2
  OBVIOUS
<1>3. /\ t \in Seq(Nat) /\ Len(t) = (b + 1) - a + 1
      /\ \A k \in 1 .. (b + 1) - a + 1 : t[k] = a + k - 1
  BY <1>2, OrderSeq
<1> HIDE DEF s, t
<1>4. /\ Append(s, b + 1) \in Seq(Nat)
      /\ Len(Append(s, b + 1)) = b - a + 2
      /\ \A k \in 1 .. b - a + 1 : Append(s, b + 1)[k] = s[k]
      /\ Append(s, b + 1)[b - a + 2] = b + 1
  BY <1>1, <1>2, AppendProperties
<1>5. ASSUME NEW k \in 1 .. b - a + 2 PROVE Append(s, b + 1)[k] = t[k]
  <2>1. t[k] = a + k - 1
    BY <1>2, <1>3
  <2>2. CASE k \in 1 .. b - a + 1
    BY <1>1, <1>4, <2>1, <2>2
  <2>3. CASE k = b - a + 2
    <3>1. Append(s, b + 1)[k] = b + 1
      BY <1>4, <2>3, Zenon
    <3>2. a + k - 1 = b + 1
      BY <2>3
    <3> QED
      BY <2>1, <3>1, <3>2
  <2>4. k \in 1 .. b - a + 1 \/ k = b - a + 2
    OBVIOUS
  <2> QED
    BY <2>2, <2>3, <2>4, Zenon
<1>6. Append(s, b + 1) = t
  BY <1>2, <1>3, <1>4, <1>5, SeqEqual
<1> QED
  BY <1>6 DEF s, t

LEMMA OrderTail ==
  ASSUME NEW a \in Nat, NEW b \in Nat, a <= b
  PROVE  /\ Order(a, b) # <<>>
         /\ Head(Order(a, b)) = a
         /\ Tail(Order(a, b)) = Order(a + 1, b)
<1> DEFINE s == Order(a, b)
           t == Order(a + 1, b)
<1>1. /\ s \in Seq(Nat) /\ Len(s) = b - a + 1
      /\ \A k \in 1 .. b - a + 1 : s[k] = a + k - 1
  BY OrderSeq
<1>2. a + 1 \in Nat /\ a + 1 <= b + 1 /\ b - (a + 1) + 1 = b - a
  OBVIOUS
<1>3. /\ t \in Seq(Nat) /\ Len(t) = b - (a + 1) + 1
      /\ \A k \in 1 .. b - (a + 1) + 1 : t[k] = (a + 1) + k - 1
  BY <1>2, OrderSeq
<1> HIDE DEF s, t
<1>4. s # <<>> /\ Head(s) = a
  BY <1>1
<1>5. /\ Tail(s) \in Seq(Nat) /\ Len(Tail(s)) = b - a
      /\ \A k \in 1 .. b - a : Tail(s)[k] = s[k + 1]
  BY <1>1, <1>4, HeadTailProperties
<1>6. \A k \in 1 .. b - a : Tail(s)[k] = t[k]
  BY <1>1, <1>2, <1>3, <1>5
<1>7. Tail(s) = t
  BY <1>2, <1>3, <1>5, <1>6, SeqEqual
<1> QED
  BY <1>4, <1>7 DEF s, t

\* A list whose prev pointers lead from the tail to the head, in order.
Straight ==
  /\ (head = None) = (tail = None)
  /\ head # None =>
       /\ head \in Requests /\ tail \in Requests /\ tail <= head
       /\ \A r \in tail .. head : prev[r] = IF r = head THEN None ELSE r + 1

\* Then the walk along them meets the requests in order, and nothing else.
LEMMA StraightWalk ==
  ASSUME PoolAssumption, Straight
  PROVE  Waiting = IF head = None THEN <<>> ELSE Order(tail, head)
<1> DEFINE Walk(g) ==
      [k \in 0 .. NumRequests |->
         IF k = 0 THEN tail ELSE IF g[k - 1] = None THEN None ELSE prev[g[k - 1]]]
           F == [k \in 0 .. NumRequests |->
                   IF head # None /\ tail + k <= head THEN tail + k ELSE None]
<1>1. F = Walk(F)
  <2> SUFFICES ASSUME NEW k \in 0 .. NumRequests PROVE F[k] = Walk(F)[k]
    OBVIOUS
  <2>1. CASE k = 0
    BY <2>1, PoolAssumption DEF Straight
  <2>2. CASE k # 0 /\ head = None
    BY <2>2, PoolAssumption DEF Straight
  <2>3. CASE k # 0 /\ head # None /\ tail + (k - 1) <= head
    <3>1. k - 1 \in 0 .. NumRequests /\ F[k - 1] = tail + (k - 1)
      BY <2>3
    <3>2. F[k - 1] # None /\ tail + (k - 1) \in tail .. head
      BY <2>3, <3>1, PoolAssumption DEF Straight
    <3>3. prev[tail + (k - 1)]
            = IF tail + (k - 1) = head THEN None ELSE tail + k
      BY <2>3, <3>2 DEF Straight
    <3> QED
      BY <2>3, <3>1, <3>2, <3>3 DEF Straight
  <2>4. CASE k # 0 /\ head # None /\ ~(tail + (k - 1) <= head)
    BY <2>4, PoolAssumption DEF Straight
  <2> QED
    BY <2>1, <2>2, <2>3, <2>4
<1>2. FromTail = Walk(FromTail)
  BY <1>1 DEF FromTail
<1>3. \A k \in 0 .. NumRequests : FromTail[k] = F[k]
  <2> DEFINE Differs == {k \in 0 .. NumRequests : FromTail[k] # F[k]}
  <2> SUFFICES ASSUME Differs # {} PROVE FALSE
    OBVIOUS
  <2>0. Differs \in SUBSET Nat
    OBVIOUS
  <2> HIDE DEF Differs
  <2>1. PICK k \in Differs : \A j \in Differs : k <= j
    BY <2>0, LeastElement
  <2> USE DEF Differs
  <2>2. FromTail[k] = Walk(FromTail)[k] /\ F[k] = Walk(F)[k]
    BY <1>1, <1>2
  <2>3. CASE k = 0
    BY <2>1, <2>2, <2>3
  <2>4. CASE k # 0
    <3>1. k - 1 \in 0 .. NumRequests /\ k - 1 \notin Differs
      BY <2>1, <2>4
    <3>2. FromTail[k - 1] = F[k - 1]
      BY <3>1
    <3> QED
      BY <2>1, <2>2, <2>4, <3>2
  <2> QED
    BY <2>3, <2>4
<1>4. DOMAIN FromTail = 0 .. NumRequests
  BY <1>2
<1>5. CASE head = None
  <2>1. {j \in DOMAIN FromTail : FromTail[j] # None} = {}
    BY <1>3, <1>4, <1>5
  <2>2. Cardinality({j \in DOMAIN FromTail : FromTail[j] # None}) = 0
    BY <2>1, FS_EmptySet
  <2>3. Waiting = [k \in 1 .. 0 |-> FromTail[k - 1]]
    BY <2>2 DEF Waiting
  <2>4. 1 .. 0 = {}
    OBVIOUS
  <2> QED
    BY <1>5, <2>3, <2>4
<1>6. CASE head # None
  <2>1. {j \in DOMAIN FromTail : FromTail[j] # None} = 0 .. head - tail
    BY <1>3, <1>4, <1>6, PoolAssumption DEF Straight
  <2>2. Cardinality({j \in DOMAIN FromTail : FromTail[j] # None})
          = head - tail + 1
    <3>1. head - tail \in Int /\ 0 <= head - tail
      BY <1>6 DEF Straight
    <3>2. Cardinality(0 .. head - tail) = head - tail - 0 + 1
      BY <3>1, FS_Interval
    <3>3. Cardinality({j \in DOMAIN FromTail : FromTail[j] # None})
            = Cardinality(0 .. head - tail)
      BY <2>1
    <3> QED
      BY <3>1, <3>2, <3>3
  <2>3. \A k \in 1 .. head - tail + 1 : FromTail[k - 1] = tail + k - 1
    BY <1>3, <1>6 DEF Straight
  <2> QED
    BY <1>6, <2>2, <2>3 DEF Waiting, Order
<1> QED
  BY <1>5, <1>6

\* Where nothing was lost, the list is straight.
LEMMA WorkStraight ==
  ASSUME TypeOK, WorkInv, highest <= 2 PROVE Straight
BY DEF TypeOK, WorkInv, ChainInv, ShortInv, Chain, Straight

\* The queue that the pointers stand for, before and after a step.
LEMMA WaitingIs ==
  TypeOK /\ WorkInv /\ highest <= 2 =>
    Waiting = IF head = None THEN <<>> ELSE Order(tail, head)
BY PoolAssumption, WorkStraight, StraightWalk

LEMMA WaitingIsNext ==
  TypeOK' /\ WorkInv' /\ highest' <= 2 =>
    Waiting' = IF head' = None THEN <<>> ELSE Order(tail', head')
<1> DEFINE P == TypeOK /\ WorkInv /\ highest <= 2 =>
                  Waiting = IF head = None THEN <<>> ELSE Order(tail, head)
<1>1. P
  BY WaitingIs
<1>2. P'
  BY <1>1, PTL
<1> QED
  BY <1>2

\* Line 36 of thread_pool.c puts a request.
LEMMA InsertPuts ==
  ASSUME TypeOK, TypeOK', WorkInv, WorkInv', highest <= 2, highest' <= 2,
         Insert
  PROVE  Queue!Put
<1>1. /\ Waiting = IF head = None THEN <<>> ELSE Order(tail, head)
      /\ Waiting' = IF head' = None THEN <<>> ELSE Order(tail', head')
  BY WaitingIs, WaitingIsNext
<1>2. /\ Arrived = accepted - 1 /\ Arrived' = accepted
      /\ accepted \in Requests /\ head' = accepted /\ req' = req
      /\ head = None => tail' = accepted
      /\ head # None => tail' = tail
  BY PoolAssumption
  DEF Insert, Go, At, Arrived, TypeOK, lifeVars, Putting, MainPoints, MainSection
<1>3. head # None => /\ head = accepted - 1 /\ head \in Nat
                     /\ tail \in Nat /\ tail <= head
  BY <1>2 DEF WorkInv, ChainInv, TypeOK
<1>4. Waiting' = Append(Waiting, accepted)
  <2>1. CASE head = None
    <3>1. Waiting' = Order(accepted, accepted)
      BY <1>1, <1>2, <2>1, PoolAssumption
    <3>2. Order(accepted, accepted) = <<accepted>>
      BY <1>2 DEF Order
    <3> QED
      BY <1>1, <2>1, <3>1, <3>2
  <2>2. CASE head # None
    <3>1. Append(Order(tail, head), head + 1) = Order(tail, head + 1)
      <4>1. tail \in Nat /\ head \in Nat /\ tail <= head + 1
        BY <1>3, <2>2
      <4> QED
        BY <4>1, OrderAppend
    <3>2. head + 1 = accepted
      BY <1>2, <1>3, <2>2
    <3> QED
      BY <1>1, <1>2, <2>2, <3>1, <3>2, PoolAssumption
  <2> QED
    BY <2>1, <2>2
<1> QED
  BY <1>2, <1>4 DEF Queue!Put

\* Line 53 takes the oldest.
LEMMA FetchTakes ==
  ASSUME TypeOK, TypeOK', WorkInv, WorkInv', highest <= 2, highest' <= 2,
         NEW c \in Consumers, Fetch(c), tail # None
  PROVE  Queue!Take(c)
<1>1. /\ Waiting = IF head = None THEN <<>> ELSE Order(tail, head)
      /\ Waiting' = IF head' = None THEN <<>> ELSE Order(tail', head')
  BY WaitingIs, WaitingIsNext
<1>2. /\ pc[c] = "fetch" /\ pc' = [pc EXCEPT ![c] = "decrement"]
      /\ req' = [req EXCEPT ![c] = tail]
      /\ tail' = prev[tail]
      /\ IF tail' = None THEN head' = None ELSE UNCHANGED head
      /\ accepted' = accepted
  BY DEF Fetch, Go, At, Unlink
<1>3. req[c] = None
  BY <1>2 DEF WorkInv, GivenInv, Fetching
<1>4. Arrived' = Arrived
  BY <1>2, PoolAssumption DEF Arrived, TypeOK
<1>5. /\ head \in Nat /\ tail \in Nat /\ tail <= head /\ head # None
      /\ tail' = IF tail = head THEN None ELSE tail + 1
  BY <1>2, WorkStraight DEF Straight
<1>6. /\ Order(tail, head) # <<>> /\ Head(Order(tail, head)) = tail
      /\ Tail(Order(tail, head)) = Order(tail + 1, head)
  BY <1>5, OrderTail
<1>7. Waiting' = Tail(Waiting)
  <2>1. CASE tail = head
    <3>1. Waiting' = <<>>
      BY <1>1, <1>2, <1>5, <2>1
    <3>2. Order(tail + 1, head) = [k \in 1 .. 0 |-> tail + 1 + k - 1]
      BY <1>5, <2>1 DEF Order
    <3>3. 1 .. 0 = {}
      OBVIOUS
    <3> QED
      BY <1>1, <1>5, <1>6, <3>1, <3>2, <3>3
  <2>2. CASE tail # head
    BY <1>1, <1>2, <1>5, <1>6, <2>2, PoolAssumption
  <2> QED
    BY <2>1, <2>2
<1> QED
  BY <1>1, <1>2, <1>3, <1>4, <1>5, <1>6, <1>7 DEF Queue!Take

\* Every step of the pool is one of the queue, or leaves the queue alone.
LEMMA QueueStep ==
  ASSUME TypeOK, TypeOK', Exclusion, PoolInv, [Next]_vars, ~broken,
         highest' <= 2
  PROVE  [Queue!Next]_(Queue!vars)
<1>1. WorkInv /\ Alone
  BY DEF PoolInv, Exclusion, Alone
<1>2. WorkInv'
  BY <1>1, StepCases, IdleWork, AcceptWork, InsertWork, IncrementWork,
     FetchWork, DecrementWork, FreeWork
<1>3. highest <= 2
  <2>1. CASE highest' = highest
    BY <2>1
  <2>2. CASE Increment
    BY <2>2 DEF Increment, TypeOK
  <2> QED
    BY <2>1, <2>2, StepCases
    DEF Idle, Accept, Insert, Fetch, Decrement, FreeRequest, listVars
<1>4. ASSUME Arrived' = Arrived, req' = req, head' = head, tail' = tail
      PROVE  UNCHANGED Queue!vars
  BY <1>1, <1>2, <1>3, <1>4, WaitingIs, WaitingIsNext DEF Queue!vars
<1>5. CASE Idle
  BY <1>4, <1>5 DEF Idle, Arrived
<1>6. CASE Accept
  <2>1. Arrived' = Arrived
    BY <1>6, PoolAssumption DEF Accept, Go, At, Arrived, TypeOK
  <2> QED
    BY <1>4, <1>6, <2>1 DEF Accept, listVars
<1>7. CASE Insert
  BY <1>1, <1>2, <1>3, <1>7, InsertPuts DEF Queue!Next
<1>8. CASE Increment
  <2>1. Arrived' = Arrived
    BY <1>8, PoolAssumption DEF Increment, Go, At, Arrived, TypeOK
  <2> QED
    BY <1>4, <1>8, <2>1 DEF Increment
<1>9. ASSUME NEW c \in Consumers, Fetch(c)
      PROVE  [Queue!Next]_(Queue!vars)
  <2>1. CASE tail = None
    BY <1>4, <1>9, <2>1 DEF Fetch, Arrived, listVars
  <2>2. CASE tail # None
    BY <1>1, <1>2, <1>3, <1>9, <2>2, FetchTakes DEF Queue!Next
  <2> QED
    BY <2>1, <2>2
<1>10. ASSUME NEW c \in Consumers, Decrement(c)
       PROVE  [Queue!Next]_(Queue!vars)
  <2>1. Arrived' = Arrived
    BY <1>10, PoolAssumption
    DEF Decrement, Go, At, Arrived, TypeOK, lifeVars
  <2> QED
    BY <1>4, <1>10, <2>1 DEF Decrement, lifeVars
<1>11. ASSUME NEW c \in Consumers, FreeRequest(c)
       PROVE  [Queue!Next]_(Queue!vars)
  <2>1. Arrived' = Arrived
    BY <1>11, PoolAssumption
    DEF FreeRequest, Go, At, Arrived, TypeOK
  <2>2. Waiting' = Waiting
    BY <1>1, <1>2, <1>3, <1>11, WaitingIs, WaitingIsNext DEF FreeRequest, listVars
  <2>3. req[c] # None /\ req' = [req EXCEPT ![c] = None]
    BY <1>11 DEF FreeRequest, Go, At, TypeOK, Fetching
  <2> QED
    BY <2>1, <2>2, <2>3 DEF Queue!Next, Queue!Finish
<1> QED
  BY <1>5, <1>6, <1>7, <1>8, <1>9, <1>10, <1>11, StepCases

\* The pool gives requests away as RequestQueue does: in the order of arrival,
\* each once, to a thread that serves no other, as long as the mutex is respected
\* and no third request ever waited.
THEOREM QueueImplemented == Spec => ServedInOrder
<1>1. ASSUME Init PROVE Queue!Init
  <2>1. Straight /\ head = None
    BY <1>1 DEF Init, Straight
  <2>2. Waiting = <<>>
    BY <2>1, PoolAssumption, StraightWalk
  <2>3. Arrived = 0
    BY <1>1, PoolAssumption DEF Init, Arrived
  <2> QED
    BY <1>1, <2>2, <2>3 DEF Init, Queue!Init
<1>2. TypeOK /\ TypeOK' /\ Exclusion /\ PoolInv /\ [Next]_vars
        => [~broken /\ highest' <= 2 => [Queue!Next]_(Queue!vars)]_vars
  BY QueueStep
<1> QED
  BY <1>1, <1>2, TypeCorrect, MutualExclusion, PoolWork, PTL
  DEF Spec, ServedInOrder

\* Only put_request() makes queue_size higher than it ever was.
LEMMA HighestRises ==
  ASSUME TypeOK, [Next]_vars, ~Increment PROVE highest' = highest
<1> USE DEF listVars
<1>1. /\ Idle \/ Accept \/ Insert => highest' = highest
      /\ \A c \in Consumers :
           Fetch(c) \/ Decrement(c) \/ FreeRequest(c) => highest' = highest
  BY DEF Idle, Accept, Insert, Fetch, Decrement, FreeRequest
<1> QED
  BY <1>1, StepCases

\* Nobody takes a SIGTERM back.
LEMMA Untold == ASSUME [Next]_vars, ~done' PROVE ~done
<1>1. CASE UNCHANGED vars
  BY <1>1 DEF vars, flagVars
<1> QED
  BY <1>1, DoneStays

\* When one thing happens at a time, put_request() finds queue_size zero.
LEMMA PacedHighest ==
  Paced /\ ~SpuriousWakeups => (Spec => [](~done => highest <= 1))
<1> SUFFICES ASSUME Paced, ~SpuriousWakeups
             PROVE  Spec => [](~done => highest <= 1)
  OBVIOUS
<1> DEFINE Low == ~done => highest <= 1
<1>1. Init => Low
  BY DEF Init
<1>2. ASSUME TypeOK, PacedInv, Low, [Next]_vars, ~done' PROVE highest' <= 1
  <2>1. ~done
    BY <1>2, Untold
  <2>2. CASE Increment
    <3>1. pc[Main] = "increment"
      BY <2>2 DEF Increment, Go, At
    <3>2. queue_size = 0
      BY <1>2, <2>1, <3>1 DEF PacedInv, Phase, Starting, Placing, Taking,
         Leaving
    <3> QED
      BY <1>2, <2>1, <2>2, <3>2 DEF Increment, TypeOK
  <2> QED
    BY <1>2, <2>1, <2>2, HighestRises
<1>3. TypeOK /\ PacedInv /\ Low /\ [Next]_vars => Low'
  BY <1>2
<1> HIDE DEF Low
<1>4. Spec => []Low
  BY <1>1, <1>3, TypeCorrect, PacedAlways, PTL DEF Spec
<1> QED
  BY <1>4 DEF Low

\* When connections and ends of replies come one by one and no wakeup is
\* spurious, the pool keeps the promise of RequestQueue without any condition
\* on its own state until a SIGTERM: the mutex is never broken, and
\* ll_remove_tail() never meets a list that it damages.
THEOREM PacedQueue ==
  Paced /\ ~SpuriousWakeups =>
    (Spec => Queue!Init /\ [][~done' => [Queue!Next]_(Queue!vars)]_vars)
<1> SUFFICES ASSUME Paced, ~SpuriousWakeups
             PROVE  Spec => Queue!Init
                            /\ [][~done' => [Queue!Next]_(Queue!vars)]_vars
  OBVIOUS
<1> DEFINE Low == ~done => highest <= 1
<1>1. ASSUME TypeOK, TypeOK', Exclusion, PoolInv, PacedInv, Low', [Next]_vars,
             ~done'
      PROVE  [Queue!Next]_(Queue!vars)
  <2>1. ~done
    BY <1>1, Untold
  <2>2. ~broken
    BY <1>1, <2>1 DEF PacedInv, Sound
  <2>3. highest' <= 2
    BY <1>1 DEF TypeOK
  <2> QED
    BY <1>1, <2>2, <2>3, QueueStep
<1>2. TypeOK /\ TypeOK' /\ Exclusion /\ PoolInv /\ PacedInv /\ Low'
        /\ [Next]_vars => [~done' => [Queue!Next]_(Queue!vars)]_vars
  BY <1>1
<1> HIDE DEF Low
<1>3. Spec => []Low
  BY PacedHighest DEF Low
<1>4. Spec => Queue!Init
  BY QueueImplemented DEF ServedInOrder
<1> QED
  BY <1>2, <1>3, <1>4, TypeCorrect, MutualExclusion, PoolWork, PacedAlways,
     PTL DEF Spec
=============================================================================
