------------------------------- MODULE Heapq -------------------------------
(***************************************************************************)
(* The two operations of Python's heapq that the matching engines use, on  *)
(* lists of sort keys.  A key is a pair <<rank, seq>>, compared as Python  *)
(* compares tuples; seq is different in every key of a heap, so the order  *)
(* is total.  heapq keeps the children of position i at 2i and 2i + 1      *)
(* (counting from 1).                                                      *)
(*                                                                         *)
(* heapq is a library: the operators state what a call leaves in the list, *)
(* position by position and without loops, so that the modules that        *)
(* use them can be reasoned about.  MCHeapq has CPython's loops beside     *)
(* them, and OperatorProofs proves that they leave the same in any list.   *)
(***************************************************************************)
EXTENDS Naturals, Integers, Sequences

\* Tuple comparison of two sort keys.
KeyLess(a, b) == a[1] < b[1] \/ (a[1] = b[1] /\ a[2] < b[2])

\* The positions from i up to the root, i included.
Ancestors[i \in Nat] == IF i = 0 THEN {} ELSE {i} \cup Ancestors[i \div 2]

\* heapq's invariant: no entry is smaller than its parent.
IsHeap(h) == \A i \in 2..Len(h) : ~KeyLess(h[i], h[i \div 2])

\* Variant for mutation runs: forgets to restore the heap.
HeapPop_NoSift(h) == [i \in 1..Len(h) - 1 |-> IF i = 1 THEN h[Len(h)] ELSE h[i]]

(***************************************************************************)
(* heappush appends x and moves it towards the root past every larger      *)
(* parent, stopping at the first that is not larger.  The positions in     *)
(* Lowered are the ones whose parent moved down into them.                 *)
(***************************************************************************)
HeapPush(h, x) ==
  LET n == Len(h) + 1
      Lowered == {i \in Ancestors[n] \ {1} :
                    \A b \in Ancestors[n] \ {1} : b >= i => KeyLess(x, h[b \div 2])}
      IsHole(i) == (i = n \/ \E c \in Lowered : c \div 2 = i) /\ i \notin Lowered
  IN [i \in 1..n |-> IF i \in Lowered THEN h[i \div 2]
                     ELSE IF IsHole(i) THEN x ELSE h[i]]

(***************************************************************************)
(* heappop takes the last entry off the list and, when entries remain,     *)
(* puts it in place of the root.  The smaller child of the hole moves up,  *)
(* level by level, down to a leaf (the chain Path); then the last entry    *)
(* moves back up past every larger entry of that chain.  The positions in  *)
(* Risen are the ones whose entry ends one level higher.                   *)
(***************************************************************************)
HeapPop(h) ==
  LET n == Len(h) - 1
      last == h[n + 1]
      Smaller(c) == IF c % 2 = 0 THEN c = n \/ KeyLess(h[c], h[c + 1])
                                 ELSE ~KeyLess(h[c - 1], h[c])
      Path == {c \in 2..n : \A a \in Ancestors[c] \ {1} : Smaller(a)}
      Risen == {c \in Path : \E q \in Path : q >= c /\ ~KeyLess(last, h[q])}
      Child(i) == {c \in Risen : c \div 2 = i}
  IN [i \in 1..n |-> IF Child(i) # {} THEN h[CHOOSE c \in Child(i) : TRUE]
                     ELSE IF i = 1 \/ i \in Risen THEN last ELSE h[i]]
=============================================================================
