----------------------------- MODULE MCThreads -----------------------------
(* Small instances of Threads.                                             *)
EXTENDS Threads
=============================================================================
