-------------------------- MODULE LinkedListProofs --------------------------
(* Lemmas about the operators of LinkedList, for lists of any length, and    *)
(* about least and greatest numbers.                                        *)
EXTENDS LinkedList, FiniteSetTheorems, SequenceTheorems, WellFoundedInduction,
        TLAPS

\* A set of numbers has a least element, one of bounded numbers a greatest.
LEMMA LeastElement ==
  ASSUME NEW S \in SUBSET Nat, S # {}
  PROVE  Min(S) \in S /\ \A y \in S : Min(S) <= y
<1>1. PICK x \in S : \A y \in S : ~(<<y, x>> \in OpToRel(<, Nat))
  BY WFMin, NatLessThanWellFounded
<1>2. ASSUME NEW y \in S PROVE x <= y
  <2>1. <<y, x>> \in Nat \X Nat
    OBVIOUS
  <2>2. ~(<<y, x>>[1] < <<y, x>>[2])
    BY <1>1, <2>1 DEF OpToRel
  <2> QED
    BY <2>2
<1> QED
  BY <1>2 DEF Min

LEMMA GreatestElement ==
  ASSUME NEW n \in Nat, NEW S \in SUBSET (0 .. n), S # {}
  PROVE  Max(S) \in S /\ \A y \in S : y <= Max(S)
<1> DEFINE T == {n - x : x \in S}
<1>1. T \in SUBSET Nat /\ T # {}
  <2>1. \A x \in S : n - x \in Nat
    OBVIOUS
  <2> QED
    BY <2>1, Zenon
<1>2. Min(T) \in T /\ \A y \in T : Min(T) <= y
  BY <1>1, LeastElement
<1>3. PICK x \in S : Min(T) = n - x
  BY <1>2
<1>4. \A y \in S : y <= x
  BY <1>2, <1>3
<1> QED
  BY <1>4 DEF Max

\* A list over the nodes 1 .. m that holds data of a set.
Lists(m, D) ==
  [head : 0 .. m, tail : 0 .. m, prev : [1 .. m -> 0 .. m],
   next : [1 .. m -> 0 .. m], data : [1 .. m -> D]]

\* No store of ll_insert_tail() or ll_remove_head() leads out of the nodes.
LEMMA InsertTyped ==
  ASSUME NEW m \in Nat, NEW D, NEW list \in Lists(m, D), NEW n \in 1 .. m,
         NEW d \in D
  PROVE  /\ NewTail(list, n, d) \in Lists(m, D)
         /\ LinkTail(list, n) \in Lists(m, D)
         /\ SetTail(list, n) \in Lists(m, D)
         /\ SetHead(list, n) \in Lists(m, D)
         /\ Forget(list, n, d) \in Lists(m, D)
<1>1. NewTail(list, n, d) \in Lists(m, D) /\ Forget(list, n, d) \in Lists(m, D)
  BY DEF NewTail, Forget, Lists, Null
<1>0. n \in 0 .. m
  OBVIOUS
<1>2. LinkTail(list, n) \in Lists(m, D)
  <2>1. CASE list.tail = Null
    BY <2>1 DEF LinkTail
  <2>2. CASE list.tail # Null
    <3>1. LinkTail(list, n)
            = [list EXCEPT !.next = [list.next EXCEPT ![list.tail] = n]]
      BY <2>2, Zenon DEF LinkTail
    <3>2. [list.next EXCEPT ![list.tail] = n] \in [1 .. m -> 0 .. m]
      <4>1. list.tail \in 1 .. m /\ list.next \in [1 .. m -> 0 .. m]
        BY <2>2 DEF Lists, Null
      <4> QED
        BY <1>0, <4>1
    <3>3. \A p \in [1 .. m -> 0 .. m] : [list EXCEPT !.next = p] \in Lists(m, D)
      BY DEF Lists
    <3> QED
      BY <3>1, <3>2, <3>3
  <2> QED
    BY <2>1, <2>2
<1>3. SetTail(list, n) \in Lists(m, D) /\ SetHead(list, n) \in Lists(m, D)
  <2>1. \A y \in 0 .. m : /\ [list EXCEPT !.tail = y] \in Lists(m, D)
                          /\ [list EXCEPT !.head = y] \in Lists(m, D)
    BY DEF Lists
  <2> QED
    BY <1>0, <2>1 DEF SetTail, SetHead
<1> QED
  BY <1>1, <1>2, <1>3

LEMMA RemoveTyped ==
  ASSUME NEW m \in Nat, NEW D, NEW list \in Lists(m, D)
  PROVE  /\ list.head # Null => MoveHead(list) \in Lists(m, D)
         /\ CutHead(list) \in Lists(m, D)
<1>1. list.head # Null => list.head \in 1 .. m /\ list.next[list.head] \in 0 .. m
  BY DEF Lists, Null
<1>2. ASSUME list.head # Null PROVE MoveHead(list) \in Lists(m, D)
  <2>1. list.next[list.head] \in 0 .. m
    BY <1>1, <1>2
  <2> DEFINE h == list.next[list.head]
  <2> HIDE DEF h
  <2>2. [list EXCEPT !.head = h] \in Lists(m, D)
    BY <2>1 DEF Lists, h
  <2> QED
    BY <2>2 DEF MoveHead, h
<1>3. CutHead(list) \in Lists(m, D)
  <2>1. CASE list.head = Null
    BY <2>1 DEF CutHead, Lists, Null
  <2>2. CASE list.head # Null
    <3>1. CutHead(list) = [list EXCEPT !.prev[list.head] = Null]
      BY <2>2 DEF CutHead
    <3>2. [list EXCEPT !.prev[list.head] = Null]
            = [list EXCEPT !.prev = [list.prev EXCEPT ![list.head] = Null]]
      BY Zenon
    <3>3. [list.prev EXCEPT ![list.head] = Null] \in [1 .. m -> 0 .. m]
      <4>1. list.head \in 1 .. m /\ list.prev \in [1 .. m -> 0 .. m]
        BY <2>2 DEF Lists, Null
      <4> QED
        BY <4>1 DEF Null
    <3>4. \A p \in [1 .. m -> 0 .. m] : [list EXCEPT !.prev = p] \in Lists(m, D)
      BY DEF Lists
    <3> QED
      BY <3>1, <3>2, <3>3, <3>4
  <2> QED
    BY <2>1, <2>2
<1> QED
  BY <1>2, <1>3

-----------------------------------------------------------------------------
(* A list as the sequence of its nodes.                                    *)

\* The nodes of a sequence.
Nodes(n, s) == {s[i] : i \in 1 .. n}

\* The n nodes of s, in this order, are the list.
Chain(list, n, s) ==
  /\ s \in [1 .. n -> DOMAIN list.next]
  /\ \A i, j \in 1 .. n : s[i] = s[j] => i = j
  /\ list.head = IF n = 0 THEN Null ELSE s[1]
  /\ list.tail = IF n = 0 THEN Null ELSE s[n]
  /\ \A i \in 1 .. n :
       /\ list.next[s[i]] = IF i = n THEN Null ELSE s[i + 1]
       /\ list.prev[s[i]] = IF i = 1 THEN Null ELSE s[i - 1]

LEMMA ChainNodes ==
  ASSUME NEW m \in Nat, NEW D, NEW list \in Lists(m, D), NEW n \in Nat, NEW s,
         Chain(list, n, s)
  PROVE  /\ DOMAIN list.next = 1 .. m /\ DOMAIN list.prev = 1 .. m
         /\ DOMAIN list.data = 1 .. m
         /\ \A i \in 1 .. n : s[i] \in 1 .. m /\ s[i] # Null
<1>1. /\ DOMAIN list.next = 1 .. m /\ DOMAIN list.prev = 1 .. m
      /\ DOMAIN list.data = 1 .. m
  BY DEF Lists
<1>2. s \in [1 .. n -> 1 .. m]
  BY <1>1 DEF Chain
<1> QED
  BY <1>1, <1>2 DEF Null

\* A chain has no more nodes than there are, and as many as it has places.
LEMMA ChainBound ==
  ASSUME NEW m \in Nat, NEW D, NEW list \in Lists(m, D), NEW n \in Nat, NEW s,
         Chain(list, n, s)
  PROVE  /\ Cardinality(DOMAIN list.next) = m
         /\ n <= m
         /\ Cardinality(Nodes(n, s)) = n
<1> DEFINE T == Nodes(n, s)
<1> USE DEF Nodes
<1>1. DOMAIN list.next = 1 .. m
  BY DEF Lists
<1>2. /\ IsFiniteSet(1 .. m) /\ Cardinality(1 .. m) = m
      /\ IsFiniteSet(1 .. n) /\ Cardinality(1 .. n) = n
  BY FS_Interval
<1>3. Cardinality(DOMAIN list.next) = m
  BY <1>1, <1>2
<1>4. s \in Bijection(1 .. n, T)
  <2>1. s \in [1 .. n -> T] /\ \A i, j \in DOMAIN s : s[i] = s[j] => i = j
    BY DEF Chain
  <2>2. \A t \in T : \E i \in 1 .. n : s[i] = t
    OBVIOUS
  <2> QED
    BY <2>1, <2>2 DEF Bijection, Injection, Surjection, IsInjective
<1>5. IsFiniteSet(T) /\ Cardinality(T) = n
  BY <1>2, <1>4, FS_Bijection DEF ExistsBijection
<1>6. T \subseteq 1 .. m
  BY <1>1 DEF Chain
<1>7. n <= m
  BY <1>2, <1>5, <1>6, FS_Subset
<1> QED
  BY <1>3, <1>5, <1>7

\* The walk along the next pointers goes through the nodes and stays at null.
LEMMA ChainWalk ==
  ASSUME NEW m \in Nat, NEW D, NEW list \in Lists(m, D), NEW n \in Nat, NEW s,
         Chain(list, n, s)
  PROVE  Node(list) = [k \in 0 .. m |-> IF k < n THEN s[k + 1] ELSE Null]
<1> DEFINE Walk(g) ==
      [k \in 0 .. m |-> IF k = 0 THEN list.head
                        ELSE IF g[k - 1] = Null THEN Null ELSE list.next[g[k - 1]]]
           F == [k \in 0 .. m |-> IF k < n THEN s[k + 1] ELSE Null]
           W == Node(list)
<1>0. /\ Cardinality(DOMAIN list.next) = m
      /\ \A i \in 1 .. n : s[i] # Null
  <2>1. Cardinality(DOMAIN list.next) = m
    BY ChainBound, Zenon
  <2> QED
    BY <2>1, ChainNodes
<1>1. F = Walk(F)
  <2> SUFFICES ASSUME NEW k \in 0 .. m PROVE F[k] = Walk(F)[k]
    OBVIOUS
  <2>1. CASE k = 0
    BY <2>1 DEF Chain
  <2>2. CASE k # 0 /\ k - 1 < n
    <3>1. k \in 1 .. n /\ F[k - 1] = s[k]
      BY <2>2
    <3>2. Walk(F)[k] = list.next[s[k]]
      BY <1>0, <2>2, <3>1
    <3>3. list.next[s[k]] = IF k = n THEN Null ELSE s[k + 1]
      BY <3>1 DEF Chain
    <3> QED
      BY <3>1, <3>2, <3>3
  <2>3. CASE k # 0 /\ ~(k - 1 < n)
    BY <2>3
  <2> QED
    BY <2>1, <2>2, <2>3
<1>2. W = Walk(W)
  BY <1>0, <1>1 DEF Node
<1>3. \A k \in 0 .. m : W[k] = F[k]
  <2> DEFINE Differs == {k \in 0 .. m : W[k] # F[k]}
  <2> SUFFICES ASSUME Differs # {} PROVE FALSE
    OBVIOUS
  <2>0. Differs \in SUBSET Nat
    OBVIOUS
  <2> HIDE DEF Differs
  <2>1. PICK k \in Differs : \A j \in Differs : k <= j
    BY <2>0, LeastElement
  <2> USE DEF Differs
  <2>2. W[k] = Walk(W)[k] /\ F[k] = Walk(F)[k]
    <3> HIDE DEF F, W
    <3> QED
      BY <1>1, <1>2, <2>1
  <2>3. CASE k = 0
    BY <2>1, <2>2, <2>3
  <2>4. CASE k # 0
    <3>1. k - 1 \in 0 .. m /\ k - 1 \notin Differs
      BY <2>1, <2>4
    <3>2. W[k - 1] = F[k - 1]
      BY <3>1
    <3> HIDE DEF F, W
    <3> QED
      BY <2>1, <2>2, <2>4, <3>2
  <2> QED
    BY <2>3, <2>4
<1> HIDE DEF F
<1>4. W = F
  BY <1>1, <1>2, <1>3
<1> QED
  BY <1>4 DEF F

\* What the list holds are the data of the chain, and it is well linked.
LEMMA ChainHolds ==
  ASSUME NEW m \in Nat, NEW D, NEW list \in Lists(m, D), NEW n \in Nat, NEW s,
         Chain(list, n, s)
  PROVE  /\ Linked(list) = Nodes(n, s)
         /\ Contents(list) = [k \in 1 .. n |-> list.data[s[k]]]
         /\ WellLinked(list)
<1>1. n <= m /\ Cardinality(Nodes(n, s)) = n
  <2>1. /\ Cardinality(DOMAIN list.next) = m
        /\ n <= m
        /\ Cardinality(Nodes(n, s)) = n
    BY ChainBound
  <2> QED
    BY <2>1
<1> DEFINE F == [k \in 0 .. m |-> IF k < n THEN s[k + 1] ELSE Null]
<1>2. Node(list) = F
  BY ChainWalk
<1>3. \A i \in 1 .. n : s[i] # Null
  BY ChainNodes
<1>4. {F[k] : k \in DOMAIN F} \ {Null} = Nodes(n, s)
  <2>1. \A i \in 1 .. n : i - 1 \in DOMAIN F /\ F[i - 1] = s[i]
    BY <1>1
  <2>2. \A k \in DOMAIN F : F[k] # Null => k + 1 \in 1 .. n /\ F[k] = s[k + 1]
    OBVIOUS
  <2> HIDE DEF F
  <2> QED
    BY <1>3, <2>1, <2>2 DEF Nodes
<1>5. Linked(list) = Nodes(n, s)
  BY <1>2, <1>4 DEF Linked
<1>6. Contents(list) = [k \in 1 .. n |-> list.data[s[k]]]
  <2>1. Cardinality(Linked(list)) = n
    BY <1>1, <1>5
  <2>2. \A k \in 1 .. n : Node(list)[k - 1] = s[k]
    BY <1>1, <1>2
  <2> QED
    BY <2>1, <2>2 DEF Contents
<1>7. WellLinked(list)
  <2>1. (list.head = Null) = (list.tail = Null)
    BY <1>3 DEF Chain
  <2>2. list.head # Null => list.prev[list.head] = Null
    BY DEF Chain
  <2>3. ASSUME NEW x \in Linked(list)
        PROVE  IF list.next[x] = Null THEN x = list.tail
               ELSE list.prev[list.next[x]] = x
    <3>1. PICK i \in 1 .. n : x = s[i]
      BY <1>5 DEF Nodes
    <3>2. CASE i = n
      BY <3>1, <3>2 DEF Chain
    <3>3. CASE i # n
      <4>1. i + 1 \in 1 .. n /\ list.next[x] = s[i + 1] /\ s[i + 1] # Null
        BY <1>3, <3>1, <3>3 DEF Chain
      <4>2. list.prev[s[i + 1]] = s[i]
        BY <4>1 DEF Chain
      <4> QED
        BY <3>1, <4>1, <4>2
    <3> QED
      BY <3>2, <3>3
  <2> QED
    BY <2>1, <2>2, <2>3 DEF WellLinked
<1> QED
  BY <1>5, <1>6, <1>7

\* ll_init() makes the empty list.
LEMMA ChainEmpty ==
  ASSUME NEW m \in Nat, NEW D, NEW list \in Lists(m, D),
         list.head = Null, list.tail = Null
  PROVE  Chain(list, 0, [i \in 1 .. 0 |-> Null])
BY DEF Chain, Lists

\* What a walk finds depends on the head, the next pointers and the data.
LEMMA SameWalk ==
  ASSUME NEW list, NEW other, other.head = list.head, other.next = list.next,
         other.data = list.data
  PROVE  Linked(other) = Linked(list) /\ Contents(other) = Contents(list)
<1>1. Node(other) = Node(list)
  BY DEF Node
<1> QED
  BY <1>1 DEF Linked, Contents

\* A store to a node that is not linked changes no chain.
LEMMA ChainOff ==
  ASSUME NEW m \in Nat, NEW D, NEW list \in Lists(m, D), NEW n \in Nat, NEW s,
         Chain(list, n, s), NEW other \in Lists(m, D), NEW x,
         x \notin Nodes(n, s),
         other.head = list.head, other.tail = list.tail,
         \A k \in 1 .. m : k # x => /\ other.prev[k] = list.prev[k]
                                    /\ other.next[k] = list.next[k]
                                    /\ other.data[k] = list.data[k]
  PROVE  Chain(other, n, s) /\ Contents(other) = Contents(list)
<1>1. /\ \A i \in 1 .. n : s[i] \in 1 .. m /\ s[i] # x
      /\ DOMAIN list.next = 1 .. m /\ DOMAIN other.next = 1 .. m
  <2>1. DOMAIN other.next = 1 .. m
    BY DEF Lists
  <2> QED
    BY <2>1, ChainNodes DEF Nodes
<1>2. Chain(other, n, s)
  BY <1>1 DEF Chain
<1>3. /\ Contents(list) = [k \in 1 .. n |-> list.data[s[k]]]
      /\ Contents(other) = [k \in 1 .. n |-> other.data[s[k]]]
  BY <1>2, ChainHolds
<1> QED
  BY <1>1, <1>2, <1>3

\* A list without a head holds nothing.
LEMMA HeadlessEmpty ==
  ASSUME NEW m \in Nat, NEW D, NEW list \in Lists(m, D), list.head = Null
  PROVE  Contents(list) = <<>>
<1> DEFINE other == [list EXCEPT !.tail = Null]
           s == [i \in 1 .. 0 |-> Null]
<1>1. /\ other \in Lists(m, D) /\ other.head = Null /\ other.tail = Null
      /\ other.head = list.head /\ other.next = list.next
      /\ other.data = list.data
  BY DEF Lists, Null
<1> HIDE DEF other, s
<1>2. Chain(other, 0, s)
  BY <1>1, ChainEmpty DEF s
<1>3. Contents(other) = [k \in 1 .. 0 |-> other.data[s[k]]]
  BY <1>1, <1>2, ChainHolds
<1>4. 1 .. 0 = {}
  OBVIOUS
<1>5. Contents(other) = <<>>
  BY <1>3, <1>4
<1> QED
  BY <1>1, <1>5, SameWalk

\* The three stores of ll_insert_tail() put a node at the end that was readied
\* by the lines before.
LEMMA ChainInsert ==
  ASSUME NEW m \in Nat, NEW D, NEW list \in Lists(m, D), NEW n \in Nat, NEW s,
         Chain(list, n, s), NEW x \in 1 .. m, x \notin Nodes(n, s),
         list.next[x] = Null, list.prev[x] = list.tail,
         NEW d \in D, list.data[x] = d
  PROVE  /\ Chain(SetHead(SetTail(LinkTail(list, x), x), x), n + 1,
                  [i \in 1 .. n + 1 |-> IF i = n + 1 THEN x ELSE s[i]])
         /\ Contents(SetHead(SetTail(LinkTail(list, x), x), x)) =
              Append(Contents(list), d)
<1> DEFINE new == SetHead(SetTail(LinkTail(list, x), x), x)
           t == [i \in 1 .. n + 1 |-> IF i = n + 1 THEN x ELSE s[i]]
<1>1. /\ \A i \in 1 .. n : s[i] \in 1 .. m /\ s[i] # Null /\ s[i] # x
      /\ DOMAIN list.next = 1 .. m /\ DOMAIN list.prev = 1 .. m
      /\ DOMAIN list.data = 1 .. m
      /\ x # Null
  BY ChainNodes DEF Null, Nodes
<1>2. /\ new.head = IF list.head = Null THEN x ELSE list.head
      /\ new.tail = x
      /\ DOMAIN new.next = 1 .. m
      /\ \A k \in 1 .. m : new.prev[k] = IF k = x THEN list.tail ELSE list.prev[k]
      /\ \A k \in 1 .. m : new.next[k] = IF k = x THEN Null
                                         ELSE IF k = list.tail THEN x
                                         ELSE list.next[k]
      /\ \A k \in 1 .. m : new.data[k] = IF k = x THEN d ELSE list.data[k]
  <2>1. list.tail # x
    BY <1>1 DEF Chain, Null
  <2>2. /\ new.head = IF list.head = Null THEN x ELSE list.head
        /\ new.tail = x /\ new.prev = list.prev /\ new.data = list.data
        /\ new.next = IF list.tail = Null THEN list.next
                      ELSE [list.next EXCEPT ![list.tail] = x]
    <3> DEFINE linked == LinkTail(list, x)
    <3>1. /\ linked \in Lists(m, D)
          /\ linked.head = list.head /\ linked.prev = list.prev
          /\ linked.data = list.data
          /\ linked.next = IF list.tail = Null THEN list.next
                           ELSE [list.next EXCEPT ![list.tail] = x]
      <4>1. linked \in Lists(m, D)
        BY InsertTyped
      <4>2. CASE list.tail = Null
        BY <4>1, <4>2 DEF LinkTail
      <4>3. CASE list.tail # Null
        BY <4>1, <4>3 DEF LinkTail, Lists
      <4> QED
        BY <4>2, <4>3
    <3> HIDE DEF linked
    <3>2. /\ new.head = IF linked.head = Null THEN x ELSE linked.head
          /\ new.tail = x /\ new.prev = linked.prev /\ new.data = linked.data
          /\ new.next = linked.next
      <4>1. new = SetHead(SetTail(linked, x), x)
        BY DEF linked
      <4> HIDE DEF new
      <4> QED
        BY <3>1, <4>1 DEF SetHead, SetTail, Lists
    <3> QED
      BY <3>1, <3>2
  <2> DEFINE link == list.next
             nt == new.next
  <2>3. /\ nt = IF list.tail = Null THEN link
                ELSE [link EXCEPT ![list.tail] = x]
        /\ link \in [1 .. m -> 0 .. m] /\ list.tail \in 0 .. m
    BY <2>2 DEF Lists
  <2>4. /\ DOMAIN nt = 1 .. m
        /\ \A k \in 1 .. m : nt[k] = IF k = x THEN Null
                                     ELSE IF k = list.tail THEN x ELSE link[k]
    <3> HIDE DEF nt, link
    <3>1. list.tail = Null => \A k \in 1 .. m : k # list.tail
      BY DEF Null
    <3>2. link[x] = Null
      BY DEF link
    <3> QED
      BY <2>1, <2>3, <3>1, <3>2
  <2>5. /\ \A k \in 1 .. m : new.prev[k] = IF k = x THEN list.tail
                                            ELSE list.prev[k]
        /\ \A k \in 1 .. m : new.data[k] = IF k = x THEN d ELSE list.data[k]
    BY <2>2
  <2> QED
    BY <2>2, <2>4, <2>5
<1>3. new \in Lists(m, D)
  <2>1. LinkTail(list, x) \in Lists(m, D)
    BY InsertTyped
  <2>2. SetTail(LinkTail(list, x), x) \in Lists(m, D)
    BY <2>1, InsertTyped
  <2> QED
    BY <2>2, InsertTyped
<1> HIDE DEF new
<1>4. Chain(new, n + 1, t)
  <2>1. t \in [1 .. n + 1 -> DOMAIN new.next]
    BY <1>1, <1>2
  <2>2. \A i, j \in 1 .. n + 1 : t[i] = t[j] => i = j
    BY <1>1 DEF Chain
  <2>3. new.head = t[1] /\ new.tail = t[n + 1]
    BY <1>1, <1>2 DEF Chain
  <2>4. ASSUME NEW i \in 1 .. n + 1
        PROVE  /\ new.next[t[i]] = IF i = n + 1 THEN Null ELSE t[i + 1]
               /\ new.prev[t[i]] = IF i = 1 THEN Null ELSE t[i - 1]
    <3>1. CASE i = n + 1
      BY <1>1, <1>2, <3>1 DEF Chain
    <3>2. CASE i = n /\ n # 0
      <4>1. t[i] = s[n] /\ s[n] = list.tail /\ s[n] \in 1 .. m /\ s[n] # x
        BY <1>1, <3>2 DEF Chain
      <4>2. new.next[t[i]] = x /\ new.prev[t[i]] = list.prev[s[n]]
        BY <1>2, <4>1
      <4> QED
        BY <3>2, <4>2 DEF Chain
    <3>3. CASE i < n
      <4>1. /\ t[i] = s[i] /\ s[i] \in 1 .. m /\ s[i] # x
            /\ t[i + 1] = s[i + 1] /\ s[i] # list.tail
        <5>1. i \in 1 .. n /\ i # n /\ n \in 1 .. n /\ n # 0
          BY <3>3
        <5>2. list.tail = s[n] /\ s[i] # s[n]
          BY <5>1 DEF Chain
        <5> QED
          BY <1>1, <3>3, <5>1, <5>2
      <4>2. new.next[t[i]] = list.next[s[i]] /\ new.prev[t[i]] = list.prev[s[i]]
        BY <1>2, <4>1
      <4> QED
        BY <3>3, <4>1, <4>2 DEF Chain
    <3> QED
      BY <3>1, <3>2, <3>3
  <2> QED
    BY <2>1, <2>2, <2>3, <2>4 DEF Chain
<1>5. Contents(new) = [k \in 1 .. n + 1 |-> new.data[t[k]]]
  BY <1>3, <1>4, ChainHolds
<1>6. Contents(list) = [k \in 1 .. n |-> list.data[s[k]]]
  BY ChainHolds
<1>7. /\ \A k \in 1 .. n : new.data[t[k]] = list.data[s[k]]
      /\ new.data[t[n + 1]] = d
  BY <1>1, <1>2
<1>8. Contents(new) = Append(Contents(list), d)
  <2> DEFINE c == [k \in 1 .. n |-> list.data[s[k]]]
  <2>1. c \in Seq(D) /\ Len(c) = n
    BY <1>1 DEF Lists
  <2>2. \A k \in 1 .. n + 1 : new.data[t[k]] = IF k = n + 1 THEN d ELSE c[k]
    <3>1. \A k \in 1 .. n : c[k] = list.data[s[k]]
      OBVIOUS
    <3> HIDE DEF c, t
    <3>2. \A k \in 1 .. n + 1 : k # n + 1 => k \in 1 .. n
      OBVIOUS
    <3> QED
      BY <1>7, <3>1, <3>2
  <2> HIDE DEF c, t
  <2>3. Append(c, d) = [k \in 1 .. n + 1 |-> IF k = n + 1 THEN d ELSE c[k]]
    <3>1. /\ Append(c, d) \in Seq(D) /\ Len(Append(c, d)) = n + 1
          /\ \A k \in 1 .. n : Append(c, d)[k] = c[k]
          /\ Append(c, d)[n + 1] = d
      BY <2>1, AppendProperties
    <3>2. \A k \in 1 .. n + 1 : k \in 1 .. n \/ k = n + 1
      OBVIOUS
    <3> DEFINE a == Append(c, d)
    <3> HIDE DEF a
    <3>3. a \in [1 .. n + 1 -> D]
      BY <3>1, LenProperties DEF a
    <3>4. \A k \in 1 .. n + 1 : a[k] = IF k = n + 1 THEN d ELSE c[k]
      BY <3>1, <3>2 DEF a
    <3>5. a = [k \in 1 .. n + 1 |-> IF k = n + 1 THEN d ELSE c[k]]
      BY <3>3, <3>4
    <3> QED
      BY <3>5 DEF a
  <2> QED
    BY <1>5, <1>6, <2>2, <2>3 DEF c
<1> QED
  BY <1>4, <1>8 DEF new

\* ll_remove_head() takes the first one.
LEMMA ChainRemove ==
  ASSUME NEW m \in Nat, NEW D, NEW list \in Lists(m, D), NEW n \in Nat, NEW s,
         Chain(list, n, s), list.head # Null
  PROVE  /\ n > 0
         /\ Chain(CutHead(MoveHead(list)), n - 1,
                  [i \in 1 .. n - 1 |-> s[i + 1]])
         /\ list.head \notin Nodes(n - 1, [i \in 1 .. n - 1 |-> s[i + 1]])
         /\ Contents(list) # <<>>
         /\ Contents(CutHead(MoveHead(list))) = Tail(Contents(list))
<1> DEFINE new == CutHead(MoveHead(list))
           t == [i \in 1 .. n - 1 |-> s[i + 1]]
<1>0. n > 0
  BY DEF Chain
<1>1. /\ \A i \in 1 .. n : s[i] \in 1 .. m /\ s[i] # Null
      /\ DOMAIN list.next = 1 .. m /\ DOMAIN list.prev = 1 .. m
      /\ list.head = s[1] /\ list.tail = s[n]
      /\ list.next[s[1]] = IF n = 1 THEN Null ELSE s[2]
  <2>1. /\ list.head = s[1] /\ list.tail = s[n]
        /\ list.next[s[1]] = IF n = 1 THEN Null ELSE s[2]
    BY <1>0 DEF Chain
  <2> QED
    BY <2>1, ChainNodes
<1>2. /\ new.head = list.next[s[1]]
      /\ new.tail = IF list.next[s[1]] = Null THEN Null ELSE list.tail
      /\ DOMAIN new.next = 1 .. m
      /\ \A k \in 1 .. m : new.prev[k] = IF k \in {s[1], list.next[s[1]]} THEN Null
                                         ELSE list.prev[k]
      /\ new.next = list.next
      /\ new.data = list.data
  <2>1. /\ new.head = list.next[s[1]] /\ new.next = list.next
        /\ new.data = list.data
        /\ new.tail = IF list.next[s[1]] = Null THEN Null ELSE list.tail
        /\ new.prev = IF list.next[s[1]] = Null THEN list.prev
                      ELSE [list.prev EXCEPT ![list.next[s[1]]] = Null]
    BY <1>1 DEF CutHead, MoveHead, Lists
  <2>2. list.prev[s[1]] = Null
    BY <1>0 DEF Chain
  <2>3. Null \notin 1 .. m
    BY DEF Null
  <2> QED
    BY <1>1, <2>1, <2>2, <2>3
<1>3. new \in Lists(m, D)
  <2>1. MoveHead(list) \in Lists(m, D)
    BY RemoveTyped
  <2> QED
    BY <2>1, RemoveTyped
<1> HIDE DEF new
<1>4. Chain(new, n - 1, t)
  <2>1. t \in [1 .. n - 1 -> DOMAIN new.next]
    BY <1>1, <1>2
  <2>2. \A i, j \in 1 .. n - 1 : t[i] = t[j] => i = j
    BY <1>0 DEF Chain
  <2>3. /\ new.head = IF n - 1 = 0 THEN Null ELSE t[1]
        /\ new.tail = IF n - 1 = 0 THEN Null ELSE t[n - 1]
    <3>1. CASE n = 1
      BY <1>1, <1>2, <3>1
    <3>2. CASE n # 1
      <4>1. 2 \in 1 .. n /\ t[1] = s[2] /\ t[n - 1] = s[n] /\ s[2] # Null
        BY <1>0, <1>1, <3>2
      <4> QED
        BY <1>1, <1>2, <3>2, <4>1
    <3> QED
      BY <3>1, <3>2
  <2>4. ASSUME NEW i \in 1 .. n - 1
        PROVE  /\ new.next[t[i]] = IF i = n - 1 THEN Null ELSE t[i + 1]
               /\ new.prev[t[i]] = IF i = 1 THEN Null ELSE t[i - 1]
    <3>1. /\ i + 1 \in 1 .. n /\ 2 \in 1 .. n /\ 1 \in 1 .. n /\ t[i] = s[i + 1]
          /\ s[i + 1] \in 1 .. m
          /\ s[i + 1] # s[1] /\ (s[i + 1] = s[2] <=> i = 1)
      <4>1. i + 1 \in 1 .. n /\ 2 \in 1 .. n /\ 1 \in 1 .. n /\ t[i] = s[i + 1]
        OBVIOUS
      <4>2. s[i + 1] # s[1] /\ (s[i + 1] = s[2] <=> i = 1)
        BY <4>1 DEF Chain
      <4> QED
        BY <1>1, <4>1, <4>2
    <3>2. new.next[t[i]] = list.next[s[i + 1]]
      BY <1>2, <3>1
    <3>3. list.next[s[i + 1]] = IF i + 1 = n THEN Null ELSE s[(i + 1) + 1]
      BY <3>1 DEF Chain
    <3>4. i # n - 1 => t[i + 1] = s[(i + 1) + 1]
      OBVIOUS
    <3>5. new.prev[t[i]] = IF i = 1 THEN Null ELSE list.prev[s[i + 1]]
      BY <1>1, <1>2, <3>1
    <3>6. i # 1 => list.prev[s[i + 1]] = s[i] /\ t[i - 1] = s[i]
      <4>1. i + 1 # 1 /\ (i + 1) - 1 = i
        OBVIOUS
      <4>2. list.prev[s[i + 1]] = s[i]
        BY <3>1, <4>1 DEF Chain
      <4> QED
        BY <4>2
    <3> QED
      BY <3>2, <3>3, <3>4, <3>5, <3>6
  <2> QED
    BY <2>1, <2>2, <2>3, <2>4 DEF Chain
<1>5. Contents(new) = [k \in 1 .. n - 1 |-> list.data[t[k]]]
  <2>1. n - 1 \in Nat
    BY <1>0
  <2> HIDE DEF t
  <2>2. Contents(new) = [k \in 1 .. n - 1 |-> new.data[t[k]]]
    BY <1>3, <1>4, <2>1, ChainHolds
  <2> QED
    BY <1>2, <2>2
<1>6. Contents(list) = [k \in 1 .. n |-> list.data[s[k]]]
  BY ChainHolds
<1>7. \A k \in 1 .. n - 1 : list.data[t[k]] = list.data[s[k + 1]]
  OBVIOUS
<1>8. Contents(list) # <<>> /\ Contents(new) = Tail(Contents(list))
  BY <1>0, <1>5, <1>6, <1>7
<1>9. list.head \notin Nodes(n - 1, t)
  <2>1. \A i \in 1 .. n - 1 : i + 1 \in 1 .. n /\ t[i] = s[i + 1]
    OBVIOUS
  <2>2. \A i \in 1 .. n : i # 1 => s[i] # s[1]
    BY <1>0 DEF Chain
  <2>3. \A i \in 1 .. n - 1 : t[i] # s[1]
    BY <2>1, <2>2
  <2> QED
    BY <1>1, <2>3 DEF Nodes
<1> QED
  BY <1>0, <1>4, <1>8, <1>9 DEF new

-----------------------------------------------------------------------------
(* Half-linked lists: what a walk finds between two stores.                *)

\* Some nodes, in some order, are the list.
IsChain(list) == \E n \in Nat : \E s : Chain(list, n, s)

LEMMA IsChainHolds ==
  ASSUME NEW m \in Nat, NEW D, NEW list \in Lists(m, D), IsChain(list)
  PROVE  WellLinked(list)
<1>1. PICK n \in Nat : \E s : Chain(list, n, s)
  BY DEF IsChain
<1>2. PICK s : Chain(list, n, s)
  BY <1>1
<1> QED
  BY <1>2, ChainHolds

\* Lines 48-54 of ll_insert_tail(), and a node that is forgotten.
LEMMA IsChainOff ==
  ASSUME NEW m \in Nat, NEW D, NEW list \in Lists(m, D), IsChain(list),
         NEW x \in 1 .. m, x \notin Linked(list), NEW d \in D
  PROVE  /\ IsChain(NewTail(list, x, d))
         /\ Contents(NewTail(list, x, d)) = Contents(list)
         /\ x \notin Linked(NewTail(list, x, d))
         /\ IsChain(Forget(list, x, d))
         /\ Contents(Forget(list, x, d)) = Contents(list)
<1>1. PICK n \in Nat : \E s : Chain(list, n, s)
  BY DEF IsChain
<1>2. PICK s : Chain(list, n, s)
  BY <1>1
<1>3. x \notin Nodes(n, s)
  BY <1>2, ChainHolds
<1> DEFINE new == NewTail(list, x, d)
           old == Forget(list, x, d)
<1>4. new \in Lists(m, D) /\ old \in Lists(m, D)
  BY InsertTyped
<1>5. /\ new.head = list.head /\ new.tail = list.tail
      /\ old.head = list.head /\ old.tail = list.tail
      /\ \A k \in 1 .. m : k # x => /\ new.prev[k] = list.prev[k]
                                    /\ new.next[k] = list.next[k]
                                    /\ new.data[k] = list.data[k]
                                    /\ old.prev[k] = list.prev[k]
                                    /\ old.next[k] = list.next[k]
                                    /\ old.data[k] = list.data[k]
  BY DEF NewTail, Forget, Lists
<1> HIDE DEF new, old
<1>6. Chain(new, n, s) /\ Contents(new) = Contents(list)
  BY <1>2, <1>3, <1>4, <1>5, ChainOff
<1>7. Chain(old, n, s) /\ Contents(old) = Contents(list)
  BY <1>2, <1>3, <1>4, <1>5, ChainOff
<1>8. x \notin Linked(new)
  BY <1>3, <1>4, <1>6, ChainHolds
<1> QED
  BY <1>6, <1>7, <1>8 DEF IsChain, new, old

\* Lines 56-58: the walk finds the new node, unless the list was empty.
LEMMA LinkTailGoes ==
  ASSUME NEW m \in Nat, NEW D, NEW list \in Lists(m, D), IsChain(list),
         NEW x \in 1 .. m, x \notin Linked(list),
         list.next[x] = Null, list.prev[x] = list.tail,
         NEW d \in D, list.data[x] = d
  PROVE  /\ IsChain(SetHead(SetTail(LinkTail(list, x), x), x))
         /\ Contents(LinkTail(list, x)) \in {Contents(list),
                                             Append(Contents(list), d)}
         /\ LinkTail(list, x).data[x] = d
<1>1. PICK n \in Nat : \E s : Chain(list, n, s)
  BY DEF IsChain
<1>2. PICK s : Chain(list, n, s)
  BY <1>1
<1>3. x \notin Nodes(n, s)
  BY <1>2, ChainHolds
<1> DEFINE new == SetHead(SetTail(LinkTail(list, x), x), x)
           t == [i \in 1 .. n + 1 |-> IF i = n + 1 THEN x ELSE s[i]]
<1>4. Chain(new, n + 1, t) /\ Contents(new) = Append(Contents(list), d)
  BY <1>2, <1>3, ChainInsert
<1>5. IsChain(new)
  <2>1. n + 1 \in Nat
    OBVIOUS
  <2> HIDE DEF t, new
  <2> QED
    BY <1>4, <2>1 DEF IsChain
<1>6. CASE list.tail = Null
  BY <1>5, <1>6 DEF LinkTail
<1>7. CASE list.tail # Null
  <2>1. list.head # Null
    BY <1>2, ChainHolds, <1>7 DEF WellLinked
  <2>2. /\ new.head = LinkTail(list, x).head
        /\ new.next = LinkTail(list, x).next
        /\ new.data = LinkTail(list, x).data
        /\ LinkTail(list, x).data = list.data
    BY <1>7, <2>1 DEF SetHead, SetTail, LinkTail, Lists
  <2> HIDE DEF new
  <2>3. Contents(LinkTail(list, x)) = Contents(new)
    BY <2>2, SameWalk
  <2> QED
    BY <1>4, <1>5, <2>2, <2>3 DEF new
<1> QED
  BY <1>6, <1>7

\* Line 60: the walk does not see it.
LEMMA SetTailGoes ==
  ASSUME NEW m \in Nat, NEW D, NEW list \in Lists(m, D), NEW x
  PROVE  /\ Contents(SetTail(list, x)) = Contents(list)
         /\ SetTail(list, x).tail = x /\ SetTail(list, x).data = list.data
<1>1. /\ SetTail(list, x).head = list.head /\ SetTail(list, x).next = list.next
      /\ SetTail(list, x).data = list.data /\ SetTail(list, x).tail = x
  BY DEF SetTail, Lists
<1> QED
  BY <1>1, SameWalk

\* Lines 62-64: now the walk finds the first node of a list that was empty.
LEMMA SetHeadGoes ==
  ASSUME NEW m \in Nat, NEW D, NEW list \in Lists(m, D), NEW x \in 1 .. m,
         list.tail = x, IsChain(SetHead(list, x)), NEW d \in D,
         list.data[x] = d
  PROVE  Contents(SetHead(list, x)) \in {Contents(list),
                                         Append(Contents(list), d)}
<1>1. CASE list.head # Null
  BY <1>1 DEF SetHead
<1>2. CASE list.head = Null
  <2> DEFINE new == SetHead(list, x)
  <2>1. /\ new \in Lists(m, D) /\ new.head = x /\ new.tail = x
        /\ new.data[x] = d
    BY <1>2, InsertTyped DEF SetHead, Lists
  <2>2. PICK n \in Nat : \E s : Chain(new, n, s)
    BY DEF IsChain
  <2>3. PICK s : Chain(new, n, s)
    BY <2>2
  <2> HIDE DEF new
  <2>4. n = 1 /\ s[1] = x
    <3>1. n # 0 /\ s[1] = x /\ s[n] = x
      BY <2>1, <2>3 DEF Chain, Null
    <3> QED
      BY <2>3, <3>1 DEF Chain
  <2>5. Contents(new) = [k \in 1 .. n |-> new.data[s[k]]]
    BY <2>1, <2>3, ChainHolds
  <2>6. Contents(new) = [k \in 1 .. 1 |-> d]
    BY <2>1, <2>4, <2>5
  <2>7. Contents(list) = <<>>
    BY <1>2, HeadlessEmpty
  <2> QED
    BY <2>6, <2>7 DEF new
<1> QED
  BY <1>1, <1>2

\* Line 149 of ll_remove_head(): the walk begins at the second node.
LEMMA MoveHeadGoes ==
  ASSUME NEW m \in Nat, NEW D, NEW list \in Lists(m, D), IsChain(list),
         list.head # Null
  PROVE  /\ Contents(list) # <<>>
         /\ Contents(MoveHead(list)) = Tail(Contents(list))
         /\ IsChain(CutHead(MoveHead(list)))
         /\ list.head \in 1 .. m
         /\ list.head \notin Linked(MoveHead(list))
<1>1. PICK n \in Nat : \E s : Chain(list, n, s)
  BY DEF IsChain
<1>2. PICK s : Chain(list, n, s)
  BY <1>1
<1> DEFINE new == CutHead(MoveHead(list))
           t == [i \in 1 .. n - 1 |-> s[i + 1]]
<1>3. /\ n > 0 /\ Chain(new, n - 1, t)
      /\ list.head \notin Nodes(n - 1, t)
      /\ Contents(list) # <<>> /\ Contents(new) = Tail(Contents(list))
  BY <1>2, ChainRemove
<1>4. MoveHead(list) \in Lists(m, D) /\ new \in Lists(m, D)
  <2>1. MoveHead(list) \in Lists(m, D)
    BY RemoveTyped
  <2> QED
    BY <2>1, RemoveTyped
<1>5. /\ MoveHead(list).head = new.head /\ MoveHead(list).next = new.next
      /\ MoveHead(list).data = new.data
  BY <1>4 DEF CutHead, Lists
<1> HIDE DEF new, t
<1>6. Contents(MoveHead(list)) = Contents(new)
      /\ Linked(MoveHead(list)) = Linked(new)
  BY <1>5, SameWalk
<1>7. n - 1 \in Nat
  BY <1>3
<1>8. Linked(new) = Nodes(n - 1, t)
  BY <1>3, <1>4, <1>7, ChainHolds
<1>9. list.head \in 1 .. m
  BY DEF Lists, Null
<1>10. IsChain(new)
  BY <1>3, <1>7 DEF IsChain
<1> QED
  BY <1>3, <1>6, <1>8, <1>9, <1>10 DEF new

\* Lines 151-156: the walk does not see them.
LEMMA CutHeadGoes ==
  ASSUME NEW m \in Nat, NEW D, NEW list \in Lists(m, D)
  PROVE  /\ Contents(CutHead(list)) = Contents(list)
         /\ Linked(CutHead(list)) = Linked(list)
<1>1. /\ CutHead(list).head = list.head /\ CutHead(list).next = list.next
      /\ CutHead(list).data = list.data
  BY DEF CutHead, Lists
<1> QED
  BY <1>1, SameWalk
=============================================================================
