------------------------------- MODULE Reply -------------------------------
(***************************************************************************)
(* What both web servers of HW1 owe a client: after the request, a page     *)
(* (the header and the file) or a notice (a header alone, for 403 and 404), *)
(* delivered bit by bit and said to be sent when all of it was delivered;   *)
(* or a failure, at any time.  Nothing follows the end.  When a read of the *)
(* file fails, the page ends there, and is said to be sent all the same.    *)
(***************************************************************************)
EXTENDS Integers

CONSTANT HeaderSize      \* bytes of the header of a reply

VARIABLES
  size,                  \* bytes of the file asked for
  readable,              \* how many of them the server can read
  stage,                 \* what is being done, or how it ended
  delivered              \* bytes that reached the peer

vars == <<size, readable, stage, delivered>>

\* How much there is to deliver.
Page   == HeaderSize + readable
Notice == HeaderSize

Init == readable = size /\ stage = "request" /\ delivered = 0

Choose ==
  /\ stage = "request" /\ stage' \in {"page", "notice"}
  /\ UNCHANGED <<size, readable, delivered>>

Deliver ==
  /\ \/ stage = "page"   /\ delivered' \in delivered + 1 .. Page
     \/ stage = "notice" /\ delivered' \in delivered + 1 .. Notice
  /\ UNCHANGED <<size, readable, stage>>

\* A read of the file fails, once, beyond what was delivered.
Cut ==
  /\ stage = "page" /\ readable = size
  /\ readable' \in 0 .. size - 1
  /\ delivered <= HeaderSize + readable'
  /\ UNCHANGED <<size, stage, delivered>>

Finish ==
  /\ \/ stage = "page"   /\ delivered = Page   /\ stage' = "page sent"
     \/ stage = "notice" /\ delivered = Notice /\ stage' = "notice sent"
  /\ UNCHANGED <<size, readable, delivered>>

Fail ==
  /\ stage \in {"request", "page", "notice"}
  /\ stage' = "failed"
  /\ UNCHANGED <<size, readable, delivered>>

Next == Choose \/ Deliver \/ Cut \/ Finish \/ Fail

Spec == Init /\ [][Next]_vars
=============================================================================
