----------------------------- MODULE LinkedList -----------------------------
(***************************************************************************)
(* The doubly linked list of HW2 and HW3, ll_double.c, as far as the        *)
(* programs that build call it: operators on a record with the two ends and *)
(* the fields of each node.  A node is a number, 0 is the null pointer.     *)
(***************************************************************************)
EXTENDS Integers, Sequences, FiniteSetsExt

Null == 0

\* ll_init(), over a set of nodes malloc() may return, and a first datum.
EmptyList(nodes, datum) ==
  [head |-> Null, tail |-> Null,
   prev |-> [n \in nodes |-> Null], next |-> [n \in nodes |-> Null],
   data |-> [n \in nodes |-> datum]]

\* ll_insert_tail(), a step for each store that others can see.  Lines 48-54:
\* a new node, which the list does not lead to yet.
NewTail(list, node, datum) ==
  [head |-> list.head, tail |-> list.tail,
   prev |-> [list.prev EXCEPT ![node] = list.tail],
   next |-> [list.next EXCEPT ![node] = Null],
   data |-> [list.data EXCEPT ![node] = datum]]

\* Variant: the old tail does not lead to the new node.
LinkTailNot(list, node) == list

\* Lines 56-58.
LinkTail(list, node) ==
  IF list.tail = Null THEN list ELSE [list EXCEPT !.next[list.tail] = node]

\* Line 60.
SetTail(list, node) == [list EXCEPT !.tail = node]

\* Lines 62-64.
SetHead(list, node) ==
  IF list.head = Null THEN [list EXCEPT !.head = node] ELSE list

\* ll_remove_head() on a list that is not empty.  Line 149.
MoveHead(list) == [list EXCEPT !.head = list.next[list.head]]

\* Lines 151-156.
CutHead(list) ==
  IF list.head = Null THEN [list EXCEPT !.tail = Null]
  ELSE [list EXCEPT !.prev[list.head] = Null]

\* A node that was removed is never freed nor read again: its fields are
\* forgotten, and the model may hand it out as a new one.
Forget(list, node, datum) ==
  [head |-> list.head, tail |-> list.tail,
   prev |-> [list.prev EXCEPT ![node] = Null],
   next |-> [list.next EXCEPT ![node] = Null],
   data |-> [list.data EXCEPT ![node] = datum]]

\* The nodes in the order of the next pointers.
Node(list) ==
  LET node[k \in 0 .. Cardinality(DOMAIN list.next)] ==
        IF k = 0 THEN list.head
        ELSE IF node[k - 1] = Null THEN Null ELSE list.next[node[k - 1]]
  IN  node
Linked(list) == {Node(list)[k] : k \in DOMAIN Node(list)} \ {Null}

\* What the list holds, from its head on.
Contents(list) ==
  [k \in 1 .. Cardinality(Linked(list)) |-> list.data[Node(list)[k - 1]]]

\* Both directions agree, and both ends are ends.
WellLinked(list) ==
  /\ (list.head = Null) = (list.tail = Null)
  /\ list.head # Null => list.prev[list.head] = Null
  /\ \A n \in Linked(list) :
       IF list.next[n] = Null THEN n = list.tail
       ELSE list.prev[list.next[n]] = n
=============================================================================
