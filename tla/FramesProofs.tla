---------------------------- MODULE FramesProofs ----------------------------
(* Theorems about Frames, for any number of frames and any length of runs. *)
EXTENDS Frames, TLAPS, WellFoundedInduction, FiniteSetTheorems

\* The scan of allocate_frame() stops at a run that fits.
LEMMA FirstFit ==
  ASSUME NEW number, Fits(number) # {}
  PROVE  Min(Fits(number)) \in Fits(number)
<1>1. Fits(number) \subseteq Nat
  BY FramesAssumption DEF Fits, Frames
<1>2. PICK x \in Fits(number) :
        \A y \in Fits(number) : ~(<<y, x>> \in OpToRel(<, Nat))
  BY <1>1, WFMin, NatLessThanWellFounded
<1>3. ASSUME NEW y \in Fits(number) PROVE x <= y
  <2>1. <<y, x>> \in Nat \X Nat
    BY <1>1
  <2>2. ~(<<y, x>>[1] < <<y, x>>[2])
    BY <1>2, <2>1 DEF OpToRel
  <2> QED
    BY <1>1, <2>2
<1> QED
  BY <1>3 DEF Min

\* Arithmetic modulo Word.
LEMMA ModRange ==
  ASSUME NEW x \in Int PROVE x % Word \in 0 .. Word - 1
  BY FramesAssumption

LEMMA ModUnique ==
  ASSUME NEW x \in Int, NEW q \in Int, NEW r \in 0 .. Word - 1,
         x = q * Word + r
  PROVE  x % Word = r
  BY FramesAssumption

LEMMA ModQuotient ==
  ASSUME NEW x \in Int PROVE \E q \in Int : x = q * Word + (x % Word)
<1>1. x \div Word \in Int /\ x = (x \div Word) * Word + (x % Word)
  BY FramesAssumption
<1> QED
  BY <1>1

\* What one counter loses the other gains, modulo Word.
LEMMA ModBalance ==
  ASSUME NEW a \in Int, NEW b \in Int, NEW n \in 0 .. Word - 1,
         NEW d \in Int, (a + b) % Word = n
  PROVE  (((a + d) % Word) + ((b - d) % Word)) % Word = n
<1>1. PICK k \in Int : a + b = k * Word + n
  BY ModQuotient, a + b \in Int
<1>2. PICK p \in Int : a + d = p * Word + ((a + d) % Word)
  BY ModQuotient
<1>3. PICK q \in Int : b - d = q * Word + ((b - d) % Word)
  BY ModQuotient
<1>4. (a + d) % Word \in Int /\ (b - d) % Word \in Int
  BY FramesAssumption
<1> DEFINE x == (a + d) % Word
           y == (b - d) % Word
<1>5. x + y = (k - p - q) * Word + n
  <2>1. x \in Int /\ y \in Int /\ Word \in Int /\ n \in Int
    BY <1>4, FramesAssumption
  <2>2. a + d = p * Word + x /\ b - d = q * Word + y
    BY <1>2, <1>3
  <2>3. (k - p - q) * Word = k * Word - p * Word - q * Word
    BY <2>1
  <2> HIDE DEF x, y
  <2> DEFINE kw == k * Word
             pw == p * Word
             qw == q * Word
  <2>4. kw \in Int /\ pw \in Int /\ qw \in Int
    BY <2>1
  <2>5. a + b = kw + n /\ a + d = pw + x /\ b - d = qw + y
    BY <1>1, <2>2
  <2>6. (k - p - q) * Word = kw - pw - qw
    BY <2>3
  <2> HIDE DEF kw, pw, qw
  <2>7. x + y = kw - pw - qw + n
    BY <2>1, <2>4, <2>5
  <2> QED
    BY <2>6, <2>7
<1> QED
  BY <1>4, <1>5, ModUnique

-----------------------------------------------------------------------------
\* The counters stay in their words, and the bitmap in the memory.
THEOREM TypeCorrect == Spec => []TypeOK
<1>1. Init => TypeOK
  BY FramesAssumption DEF Init, TypeOK, Frames
<1>2. ASSUME TypeOK, [Next]_vars PROVE TypeOK'
  <2> USE DEF TypeOK
  <2>1. ASSUME NEW number \in 1 .. MaxRun, Allocate(number) PROVE TypeOK'
    <3> DEFINE i == Min(Fits(number))
    <3>1. i \in Frames /\ [first |-> i, number |-> number] \in Runs
      BY <2>1, FirstFit DEF Allocate, Fits, Runs
    <3>2. live' \in [Runs -> Nat]
      BY <1>2, <2>1, <3>1 DEF Allocate
    <3>3. /\ frames_allocated' \in 0 .. Word - 1
          /\ frames_available' \in 0 .. Word - 1
      BY <1>2, <2>1, ModRange, FramesAssumption DEF Allocate
    <3>4. bitmap' \subseteq Frames /\ reply' \in Frames /\ singles' \in BOOLEAN
      BY <1>2, <2>1, <3>1 DEF Allocate, Marked
    <3> QED
      BY <3>2, <3>3, <3>4
  <2>2. ASSUME NEW number \in 1 .. MaxRun, AllocateFails(number) PROVE TypeOK'
    BY <1>2, <2>2 DEF AllocateFails
  <2>3. ASSUME NEW r \in Held, Deallocate(r) PROVE TypeOK'
    <3>1. r \in Runs /\ r.number \in Int /\ live[r] \in Nat \ {0}
      <4>1. r \in Runs /\ live[r] > 0
        BY DEF Held
      <4>2. r.number \in Int
        BY <4>1 DEF Runs
      <4>3. live[r] \in Nat
        BY <1>2, <4>1
      <4> QED
        BY <4>1, <4>2, <4>3
    <3>2. live' \in [Runs -> Nat]
      BY <1>2, <2>3, <3>1 DEF Deallocate
    <3>3. /\ frames_allocated' \in 0 .. Word - 1
          /\ frames_available' \in 0 .. Word - 1
      BY <1>2, <2>3, <3>1, ModRange, FramesAssumption DEF Deallocate
    <3>4. bitmap' \subseteq Frames /\ reply' = -1 /\ singles' \in BOOLEAN
      BY <1>2, <2>3 DEF Deallocate
    <3> QED
      BY <3>2, <3>3, <3>4
  <2>4. CASE UNCHANGED vars
    BY <1>2, <2>4 DEF vars
  <2> QED
    BY <1>2, <2>1, <2>2, <2>3, <2>4 DEF Next
<1> QED
  BY <1>1, <1>2, PTL DEF Spec

\* However often frames are given away, the two counters account for all of
\* them: wrapping below zero loses nothing.
THEOREM CountersAccount == Spec => []CountersBalance
<1>1. Init => CountersBalance
  <2>1. (0 + NumFrames) % Word = NumFrames
    BY FramesAssumption
  <2> QED
    BY <2>1 DEF Init, CountersBalance
<1>2. ASSUME TypeOK, CountersBalance, [Next]_vars PROVE CountersBalance'
  <2> USE DEF CountersBalance
  <2>1. /\ frames_allocated \in Int /\ frames_available \in Int
        /\ NumFrames \in 0 .. Word - 1
    BY <1>2, FramesAssumption DEF TypeOK
  <2>2. ASSUME NEW number \in 1 .. MaxRun, Allocate(number)
        PROVE  CountersBalance'
    <3>1. /\ frames_allocated' = (frames_allocated + number) % Word
          /\ frames_available' = (frames_available - number) % Word
      BY <2>2 DEF Allocate
    <3> QED
      BY <1>2, <2>1, <3>1, ModBalance
  <2>3. ASSUME NEW r \in Held, Deallocate(r) PROVE CountersBalance'
    <3>1. r.number \in Int
      BY DEF Held, Runs
    <3> DEFINE d == -r.number
    <3>2. /\ frames_allocated' = (frames_allocated + d) % Word
          /\ frames_available' = (frames_available - d) % Word
      <4>1. /\ frames_allocated + d = frames_allocated - r.number
            /\ frames_available - d = frames_available + r.number
        BY <2>1, <3>1
      <4> QED
        BY <2>3, <4>1 DEF Deallocate
    <3>3. d \in Int
      BY <3>1
    <3> HIDE DEF d
    <3> QED
      BY <1>2, <2>1, <3>2, <3>3, ModBalance
  <2>4. ASSUME NEW number \in 1 .. MaxRun, AllocateFails(number)
        PROVE  CountersBalance'
    BY <1>2, <2>4 DEF AllocateFails
  <2>5. CASE UNCHANGED vars
    BY <1>2, <2>5 DEF vars
  <2> QED
    BY <1>2, <2>2, <2>3, <2>4, <2>5 DEF Next
<1> QED
  BY <1>1, <1>2, TypeCorrect, PTL DEF Spec

-----------------------------------------------------------------------------
\* A call that succeeds adds one run, whose first frame had a clear bit.
LEMMA AllocateTakes ==
  ASSUME live \in [Runs -> Nat], FirstsApart,
         NEW number \in 1 .. MaxRun, Allocate(number),
         NEW i, i = Min(Fits(number)),
         NEW r, r = [first |-> i, number |-> number]
  PROVE  /\ i \in Frames \ bitmap
         /\ bitmap' = bitmap \cup {i}
         /\ r \in Runs \ Held
         /\ live' = [live EXCEPT ![r] = 1]
         /\ Held' = Held \cup {r}
<1>1. /\ i \in Frames
      /\ i \notin bitmap
  <2>1. i \in Fits(number)
    BY FirstFit DEF Allocate
  <2> QED
    BY <2>1, FramesAssumption DEF Fits, Frames
<1>2. /\ r \in Runs
      /\ live' = [live EXCEPT ![r] = @ + 1]
      /\ bitmap' = bitmap \cup {i}
  BY <1>1 DEF Allocate, Marked, Runs
<1>3. r \notin Held
  BY <1>1 DEF FirstsApart
<1>4. live[r] = 0
  BY <1>2, <1>3 DEF Held
<1>5. live' = [live EXCEPT ![r] = 1]
  BY <1>2, <1>4
<1>6. Held' = Held \cup {r}
  BY <1>2, <1>5 DEF Held
<1> QED
  BY <1>1, <1>2, <1>3, <1>5, <1>6

\* A run given back is held no more, and its first frame has a clear bit.
LEMMA DeallocateGives ==
  ASSUME live \in [Runs -> Nat], FirstsApart, NEW r \in Held, Deallocate(r)
  PROVE  /\ r \in Runs
         /\ r.first \in bitmap
         /\ bitmap' = bitmap \ {r.first}
         /\ live' = [live EXCEPT ![r] = 0]
         /\ Held' = Held \ {r}
<1>1. r \in Runs /\ live[r] = 1 /\ r.first \in bitmap
  BY DEF FirstsApart, Held
<1>2. live' = [live EXCEPT ![r] = 0]
  BY <1>1 DEF Deallocate
<1>3. Held' = Held \ {r}
  BY <1>1, <1>2 DEF Held
<1> QED
  BY <1>1, <1>2, <1>3 DEF Deallocate

\* The bits set are those of the first frames of the runs held, and every run
\* is held once.
THEOREM RunsApart == Spec => []FirstsApart
<1> DEFINE IInv == live \in [Runs -> Nat] /\ FirstsApart
<1>1. Init => IInv
  BY DEF Init, FirstsApart, Held
<1>2. ASSUME IInv, [Next]_vars PROVE IInv'
  <2>1. ASSUME NEW number \in 1 .. MaxRun, Allocate(number) PROVE IInv'
    <3> DEFINE i == Min(Fits(number))
    <3> DEFINE r == [first |-> i, number |-> number]
    <3>1. /\ i \notin bitmap
          /\ bitmap' = bitmap \cup {i}
          /\ r \in Runs \ Held
          /\ live' = [live EXCEPT ![r] = 1]
          /\ Held' = Held \cup {r}
      BY <1>2, <2>1, AllocateTakes
    <3>2. \A s \in Held : s.first # r.first
      BY <1>2, <3>1 DEF FirstsApart
    <3>3. r.first = i
      OBVIOUS
    <3> HIDE DEF r, i
    <3> QED
      BY <1>2, <3>1, <3>2, <3>3 DEF FirstsApart, Held
  <2>2. ASSUME NEW number \in 1 .. MaxRun, AllocateFails(number) PROVE IInv'
    BY <1>2, <2>2 DEF AllocateFails, FirstsApart, Held
  <2>3. ASSUME NEW r \in Held, Deallocate(r) PROVE IInv'
    <3>1. /\ r \in Runs
          /\ bitmap' = bitmap \ {r.first}
          /\ live' = [live EXCEPT ![r] = 0]
          /\ Held' = Held \ {r}
      BY <1>2, <2>3, DeallocateGives
    <3>2. \A s \in Held \ {r} : s.first # r.first
      BY <1>2 DEF FirstsApart
    <3> QED
      BY <1>2, <3>1, <3>2 DEF FirstsApart, Held
  <2>4. CASE UNCHANGED vars
    BY <1>2, <2>4 DEF vars, FirstsApart, Held
  <2> QED
    BY <1>2, <2>1, <2>2, <2>3, <2>4 DEF Next
<1> QED
  BY <1>1, <1>2, PTL DEF Spec

-----------------------------------------------------------------------------
\* The bits set can be counted, and there are fewer of them than Word.
LEMMA BitsCounted ==
  ASSUME bitmap \subseteq Frames
  PROVE  /\ IsFiniteSet(bitmap)
         /\ Cardinality(bitmap) \in 0 .. NumFrames
<1>1. IsFiniteSet(Frames) /\ Cardinality(Frames) = NumFrames
  BY FramesAssumption, FS_Interval DEF Frames
<1>2. IsFiniteSet(bitmap) /\ Cardinality(bitmap) <= Cardinality(Frames)
  BY <1>1, FS_Subset
<1>3. Cardinality(bitmap) \in Nat
  BY <1>2, FS_CardinalityType
<1> QED
  BY <1>1, <1>2, <1>3

\* A number that fits the word is kept.
LEMMA ModSmall ==
  ASSUME NEW x \in 0 .. Word - 1 PROVE x % Word = x
BY FramesAssumption, ModUnique, x = 0 * Word + x

\* While every call asked for one frame, every run is of one frame and the
\* counters are those of the bitmap.
SinglesInv ==
  singles => /\ \A r \in Held : r.number = 1
             /\ frames_allocated = Cardinality(bitmap)
             /\ frames_available = NumFrames - Cardinality(bitmap)

\* Callers that ask for one frame at a time never share a frame, and both
\* counters are exact: neither has wrapped.
THEOREM SinglesApart == Spec => []SinglesExact
<1> DEFINE IInv == TypeOK /\ FirstsApart /\ SinglesInv
<1>1. Init => SinglesInv
  BY FS_EmptySet, FramesAssumption DEF Init, SinglesInv, Held
<1>2. ASSUME IInv, [Next]_vars PROVE SinglesInv'
  <2>0. live \in [Runs -> Nat] /\ bitmap \subseteq Frames /\ FirstsApart
    BY <1>2 DEF TypeOK
  <2>1. ASSUME NEW number \in 1 .. MaxRun, Allocate(number) PROVE SinglesInv'
    <3> SUFFICES ASSUME singles'
                 PROVE  SinglesInv'
      BY DEF SinglesInv
    <3>1. singles /\ number = 1
      BY <2>1 DEF Allocate
    <3> DEFINE i == Min(Fits(number))
    <3> DEFINE r == [first |-> i, number |-> number]
    <3>2. /\ i \in Frames \ bitmap
          /\ bitmap' = bitmap \cup {i}
          /\ Held' = Held \cup {r}
      BY <2>0, <2>1, AllocateTakes
    <3>3. /\ frames_allocated' = (frames_allocated + 1) % Word
          /\ frames_available' = (frames_available - 1) % Word
      BY <2>1, <3>1 DEF Allocate
    <3>4. r.number = 1
      BY <3>1
    <3> HIDE DEF i, r
    <3> DEFINE n == Cardinality(bitmap)
    <3>5. Cardinality(bitmap') = n + 1 /\ n \in Nat
      BY <2>0, <3>2, BitsCounted, FS_AddElement, FS_CardinalityType
    <3>6. n + 1 \in 0 .. NumFrames
      <4>1. bitmap \cup {i} \subseteq Frames
        BY <2>0, <3>2
      <4>2. /\ IsFiniteSet(Frames)
            /\ Cardinality(Frames) = NumFrames
        BY FramesAssumption, FS_Interval DEF Frames
      <4>3. Cardinality(bitmap \cup {i}) <= NumFrames
        BY <4>1, <4>2, FS_Subset
      <4> QED
        BY <3>2, <3>5, <4>3, FramesAssumption
    <3>7. frames_allocated = n /\ frames_available = NumFrames - n
      BY <1>2, <3>1 DEF SinglesInv
    <3>8. /\ (n + 1) % Word = n + 1
          /\ (NumFrames - n - 1) % Word = NumFrames - n - 1
      <4> HIDE DEF n
      <4>1. /\ n + 1 \in 0 .. Word - 1
            /\ NumFrames - n - 1 \in 0 .. Word - 1
        BY <3>5, <3>6, FramesAssumption
      <4> QED
        BY <4>1, ModSmall
    <3>9. /\ frames_allocated' = n + 1
          /\ frames_available' = NumFrames - (n + 1)
      <4> HIDE DEF n
      <4>1. NumFrames - n - 1 = NumFrames - (n + 1)
        BY <3>5, FramesAssumption
      <4> QED
        BY <3>3, <3>7, <3>8, <4>1
    <3>10. \A s \in Held' : s.number = 1
      BY <1>2, <3>1, <3>2, <3>4 DEF SinglesInv
    <3> QED
      BY <3>5, <3>9, <3>10 DEF SinglesInv
  <2>2. ASSUME NEW number \in 1 .. MaxRun, AllocateFails(number)
        PROVE  SinglesInv'
    BY <1>2, <2>2 DEF AllocateFails, SinglesInv, Held
  <2>3. ASSUME NEW r \in Held, Deallocate(r) PROVE SinglesInv'
    <3> SUFFICES ASSUME singles'
                 PROVE  SinglesInv'
      BY DEF SinglesInv
    <3>1. singles
      BY <2>3 DEF Deallocate
    <3>2. /\ r.first \in bitmap
          /\ bitmap' = bitmap \ {r.first}
          /\ Held' = Held \ {r}
      BY <2>0, <2>3, DeallocateGives
    <3>3. r.number = 1
      BY <1>2, <3>1 DEF SinglesInv
    <3>4. /\ frames_allocated' = (frames_allocated - 1) % Word
          /\ frames_available' = (frames_available + 1) % Word
      BY <2>3, <3>3 DEF Deallocate
    <3> DEFINE n == Cardinality(bitmap)
    <3>5. Cardinality(bitmap') = n - 1 /\ n \in 0 .. NumFrames
      BY <2>0, <3>2, BitsCounted, FS_RemoveElement
    <3>6. n # 0
      BY <2>0, <3>2, BitsCounted, FS_EmptySet
    <3>7. frames_allocated = n /\ frames_available = NumFrames - n
      BY <1>2, <3>1 DEF SinglesInv
    <3>8. /\ (n - 1) % Word = n - 1
          /\ (NumFrames - n + 1) % Word = NumFrames - n + 1
      <4> HIDE DEF n
      <4>1. /\ n - 1 \in 0 .. Word - 1
            /\ NumFrames - n + 1 \in 0 .. Word - 1
        BY <3>5, <3>6, FramesAssumption
      <4> QED
        BY <4>1, ModSmall
    <3>9. /\ frames_allocated' = n - 1
          /\ frames_available' = NumFrames - (n - 1)
      <4> HIDE DEF n
      <4>1. NumFrames - n + 1 = NumFrames - (n - 1)
        BY <3>5, FramesAssumption
      <4> QED
        BY <3>4, <3>7, <3>8, <4>1
    <3>10. \A s \in Held' : s.number = 1
      BY <1>2, <3>1, <3>2 DEF SinglesInv
    <3> QED
      BY <3>5, <3>9, <3>10 DEF SinglesInv
  <2>4. CASE UNCHANGED vars
    BY <1>2, <2>4 DEF vars, SinglesInv, Held
  <2> QED
    BY <1>2, <2>1, <2>2, <2>3, <2>4 DEF Next
<1>3. IInv => SinglesExact
  <2> SUFFICES ASSUME IInv, singles
               PROVE  /\ NoOverlap
                      /\ frames_allocated = Cardinality(bitmap)
                      /\ frames_available = NumFrames - Cardinality(bitmap)
    BY DEF SinglesExact
  <2>1. ASSUME NEW r \in Held, NEW s \in Held, r # s
        PROVE  FramesOf(r) \cap FramesOf(s) = {}
    <3>1. /\ r.number = 1 /\ s.number = 1
          /\ r.first # s.first
      BY <2>1 DEF SinglesInv, FirstsApart
    <3>2. r.first \in Int /\ s.first \in Int
      BY FramesAssumption DEF Held, Runs, Frames
    <3> QED
      BY <3>1, <3>2 DEF FramesOf
  <2>2. NoOverlap
    BY <2>1 DEF NoOverlap, FirstsApart
  <2> QED
    BY <2>2 DEF SinglesInv
<1> QED
  BY <1>1, <1>2, <1>3, TypeCorrect, RunsApart, PTL DEF Spec
=============================================================================
