------------------------------ MODULE MCHeapq ------------------------------
(***************************************************************************)
(* Model checking of Heapq: a heap under every sequence of pushes and      *)
(* pops, with the loops of CPython's Lib/heapq.py beside the closed forms. *)
(***************************************************************************)
EXTENDS Heapq, FiniteSets

CONSTANTS Ranks,     \* the first components of the keys
          MaxPushes  \* how many keys are pushed

ASSUME HeapqAssumption == Ranks \subseteq Int /\ MaxPushes \in Nat

VARIABLES heap, pushed
heapVars == <<heap, pushed>>

HeapInit == heap = <<>> /\ pushed = 0

Push(r) == /\ pushed < MaxPushes
           /\ pushed' = pushed + 1
           /\ heap' = HeapPush(heap, <<r, pushed + 1>>)

Pop == /\ heap # <<>>
       /\ heap' = HeapPop(heap)
       /\ UNCHANGED pushed

HeapNext == (\E r \in Ranks : Push(r)) \/ Pop

---------------------------------------------------------------------------
(* CPython's loops.  In a loop there are the list and the position `at` of *)
(* its hole, whose entry has been taken or copied.  A loop is the state    *)
(* after as many turns as it can make, where a turn that its test refuses  *)
(* changes nothing.                                                        *)

Put(h, i, x) == [h EXCEPT ![i] = x]

\* _siftdown: item goes towards the root, past every larger parent.
GoesDown(s, item) == s.at > 1 /\ KeyLess(item, s.list[s.at \div 2])
DownOne(s) == [list |-> Put(s.list, s.at, s.list[s.at \div 2]), at |-> s.at \div 2]

DownAfter(h, pos, item) ==
  LET f[n \in Nat] == IF n = 0 THEN [list |-> h, at |-> pos]
                      ELSE LET s == f[n - 1] IN IF GoesDown(s, item) THEN DownOne(s) ELSE s
  IN f

SiftDown(h, pos, item) ==
  LET end == DownAfter(h, pos, item)[pos] IN Put(end.list, end.at, item)

\* _siftup: the smaller child of the hole goes up, down to a leaf; then item
\* goes there, and back up.
GoesUp(s) == 2 * s.at <= Len(s.list)
UpOne(s) ==
  LET left == 2 * s.at
      child == IF left + 1 <= Len(s.list) /\ ~KeyLess(s.list[left], s.list[left + 1])
               THEN left + 1 ELSE left
  IN [list |-> Put(s.list, s.at, s.list[child]), at |-> child]

UpAfter(h, pos) ==
  LET f[n \in Nat] == IF n = 0 THEN [list |-> h, at |-> pos]
                      ELSE LET s == f[n - 1] IN IF GoesUp(s) THEN UpOne(s) ELSE s
  IN f

SiftUp(h, pos, item) ==
  LET end == UpAfter(h, pos)[Len(h)] IN SiftDown(end.list, end.at, item)

HeappushLoop(h, x) == SiftDown(Append(h, x), Len(h) + 1, x)

HeappopLoop(h) ==
  LET rest == SubSeq(h, 1, Len(h) - 1)
  IN IF rest = <<>> THEN rest ELSE SiftUp(rest, 1, h[Len(h)])

---------------------------------------------------------------------------
\* The closed forms are the loops: on a heap with any one entry taken out of its
\* list, which is what the filter of MatchingEngine.cancel leaves and need be no
\* heap, a push and a pop leave what CPython's leave.
AgreesOnAnyList ==
  \A drop \in DOMAIN heap :
    LET h == [i \in 1..Len(heap) - 1 |-> heap[IF i < drop THEN i ELSE i + 1]]
    IN /\ HeapPush(h, heap[drop]) = HeappushLoop(h, heap[drop])
       /\ h # <<>> => HeapPop(h) = HeappopLoop(h)
=============================================================================
