------------------------------- MODULE Frames -------------------------------
(***************************************************************************)
(* The physical frame allocator of HW3, frame.c.  The functions are         *)
(* sequential and each one is an atomic action.                            *)
(*                                                                         *)
(* `live` is a history variable: how often callers hold each run of        *)
(* frames.  A caller gives back a run it holds, whole, as kmalloc.h asks   *)
(* of pfree().                                                             *)
(***************************************************************************)
EXTENDS Integers, FiniteSets, FiniteSetsExt

CONSTANTS
  NumFrames,      \* frames of the memory (1024)
  Word,           \* the counters are computed modulo Word (2^64)
  MaxRun          \* bound: the largest number_frames of a call

ASSUME FramesAssumption ==
  /\ NumFrames \in Nat \ {0}
  /\ Word \in Nat
  /\ NumFrames < Word
  /\ MaxRun \in 1 .. NumFrames

Frames == 0 .. NumFrames - 1
Runs   == [first : Frames, number : 1 .. MaxRun]

VARIABLES
  bitmap,                              \* the frames whose bit is 1
  frames_allocated, frames_available,
  live,                                \* history: how often a run is held
  singles,                             \* history: every call asked for 1 frame
  reply                                \* what the last call returned

vars == <<bitmap, frames_allocated, frames_available, live, singles, reply>>

-----------------------------------------------------------------------------
\* frame_init().
Init ==
  /\ bitmap = {}
  /\ frames_allocated = 0
  /\ frames_available = NumFrames
  /\ live = [r \in Runs |-> 0]
  /\ singles = TRUE
  /\ reply = 0

Held        == {r \in Runs : live[r] > 0}
FramesOf(r) == r.first .. r.first + r.number - 1

\* Variant: the bits are not looked at.
FitsAnywhere(number) == {i \in Frames : i + number <= NumFrames}

\* Where the scan of allocate_frame() can stop: number clear bits in a row.
Fits(number) ==
  {i \in Frames : /\ i + number <= NumFrames
                  /\ i .. i + number - 1 \cap bitmap = {}}

\* Variant: the last frame of the run is marked.
MarkedLast(i, number) == {i + number - 1}

\* The loop over j sets the bit of the first frame, number times.
Marked(i, number) == {i}

\* Variant: the counter does not wrap.
AllocateUnwrapped(number) ==
  LET i == Min(Fits(number)) IN
  /\ Fits(number) # {}
  /\ bitmap' = bitmap \cup Marked(i, number)
  /\ frames_allocated' = (frames_allocated + number) % Word
  /\ frames_available' = frames_available - number
  /\ live' = [live EXCEPT ![[first |-> i, number |-> number]] = @ + 1]
  /\ singles' = (singles /\ number = 1)
  /\ reply' = i

\* allocate_frame() finds the first run that fits.
Allocate(number) ==
  LET i == Min(Fits(number)) IN
  /\ Fits(number) # {}
  /\ bitmap' = bitmap \cup Marked(i, number)
  /\ frames_allocated' = (frames_allocated + number) % Word
  /\ frames_available' = (frames_available - number) % Word
  /\ live' = [live EXCEPT ![[first |-> i, number |-> number]] = @ + 1]
  /\ singles' = (singles /\ number = 1)
  /\ reply' = i

AllocateFails(number) ==
  /\ Fits(number) = {}
  /\ reply' = -1
  /\ UNCHANGED <<bitmap, frames_allocated, frames_available, live, singles>>

\* Variant: one counter is forgotten.
DeallocateForgets(r) ==
  /\ bitmap' = bitmap \ {r.first}
  /\ frames_allocated' = (frames_allocated - r.number) % Word
  /\ live' = [live EXCEPT ![r] = @ - 1]
  /\ reply' = -1
  /\ UNCHANGED <<frames_available, singles>>

\* deallocate_frame() clears the bit of the first frame, number times.
Deallocate(r) ==
  /\ bitmap' = bitmap \ {r.first}
  /\ frames_allocated' = (frames_allocated - r.number) % Word
  /\ frames_available' = (frames_available + r.number) % Word
  /\ live' = [live EXCEPT ![r] = @ - 1]
  /\ reply' = -1
  /\ UNCHANGED singles

Next ==
  \/ \E number \in 1 .. MaxRun : Allocate(number) \/ AllocateFails(number)
  \/ \E r \in Held : Deallocate(r)

Spec == Init /\ [][Next]_vars

-----------------------------------------------------------------------------
(* What holds of the code as it stands.                                    *)

\* Every variable keeps its type.
TypeOK ==
  /\ bitmap \subseteq Frames
  /\ frames_allocated \in 0 .. Word - 1
  /\ frames_available \in 0 .. Word - 1
  /\ live \in [Runs -> Nat]
  /\ singles \in BOOLEAN
  /\ reply \in Frames \cup {-1}

\* Runs overlap, but no two begin at one frame, and the bits that are set
\* are those of the first frames: a run given back clears no other's bit.
FirstsApart ==
  /\ bitmap = {r.first : r \in Held}
  /\ \A r, s \in Held : r.first = s.first => r = s
  /\ \A r \in Held : live[r] = 1

\* The two counters always account for every frame, modulo Word.
CountersBalance == (frames_allocated + frames_available) % Word = NumFrames

\* allocate_frame() should "return the first available frame number, marking
\* it as allocated" (frame.c:41): no frame is in two runs.  The code does
\* not keep this promise for runs of several frames.
NoOverlap ==
  \A r, s \in Held : /\ r # s => FramesOf(r) \cap FramesOf(s) = {}
                     /\ live[r] = 1

\* As long as callers ask for one frame at a time, as make_node() does, no
\* frame is given to two of them and the counters are those of the bitmap.
SinglesExact ==
  singles => /\ NoOverlap
             /\ frames_allocated = Cardinality(bitmap)
             /\ frames_available = NumFrames - Cardinality(bitmap)
=============================================================================
