----------------------------- MODULE FileStore -----------------------------
(***************************************************************************)
(* What files.h promises of HW4's file system: numbered files that keep    *)
(* the bytes written to them, whatever happens to the other files, and     *)
(* operations that return 0 when they did what they were asked and -1      *)
(* when they did nothing.                                                  *)
(***************************************************************************)
EXTENDS Integers

CONSTANTS
  Inodes,       \* the inode numbers a caller may use
  MaxSize,      \* the largest size of a file
  MaxLength,    \* bound: the longest read or write
  Values,       \* what a caller writes: byte o of value v is <<v, o>>
  Junk          \* the unspecified value of a byte nobody wrote

Offsets == 0 .. MaxSize - 1
Lengths == 0 .. MaxLength

VARIABLES
  file,         \* the file of each inode
  reply         \* what the last operation returned

vars == <<file, reply>>

Unused == [used |-> FALSE, size |-> 0, byte |-> [o \in Offsets |-> Junk]]
Empty  == [used |-> TRUE, size |-> 0, byte |-> [o \in Offsets |-> Junk]]

Done(bytes) == [code |-> 0, bytes |-> bytes]
Error       == [code |-> -1, bytes |-> <<>>]

Init ==
  /\ file = [n \in Inodes |-> Unused]
  /\ reply = Done(<<>>)

Fail == reply' = Error /\ UNCHANGED file

\* A file that exists already is emptied.
Create(n) ==
  /\ file' = [file EXCEPT ![n] = Empty]
  /\ reply' = Done(<<>>)

\* Bytes to .. to + len - 1 become those of v, and the file reaches at least
\* as far.
Write(n, to, len, v) ==
  /\ file[n].used
  /\ file' = [file EXCEPT ![n] =
       [used |-> file[n].used,
        size |-> IF to + len > file[n].size THEN to + len ELSE file[n].size,
        byte |-> [o \in Offsets |->
                    IF o \in to .. to + len - 1 THEN <<v, o>>
                    ELSE file[n].byte[o]]]]
  /\ reply' = Done(<<>>)

\* A read inside the file returns its bytes.
Read(n, from, len) ==
  /\ file[n].used
  /\ from + len <= file[n].size
  /\ reply' = Done([o \in from .. from + len - 1 |-> file[n].byte[o]])
  /\ UNCHANGED file

Next ==
  \/ Fail
  \/ \E n \in Inodes :
       \/ Create(n)
       \/ \E at \in Offsets, len \in Lengths :
            Read(n, at, len) \/ \E v \in Values : Write(n, at, len, v)

Spec == Init /\ [][Next]_vars
=============================================================================
