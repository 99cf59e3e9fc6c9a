---------------------------- MODULE HeapOperations ----------------------------
(***************************************************************************)
(* Every heap that pushes, pops and removals of the numbers 1..MaxValue    *)
(* can build, against the definition of a heap.                            *)
(***************************************************************************)
EXTENDS Naturals, Sequences, FiniteSets

CONSTANT MaxValue

VARIABLES
  heap,
  popped   \* the value the last step popped, 0 after another step

Values == 1..MaxValue
LessThan(x, y) == x < y

Heap == INSTANCE TypedHeap WITH Less <- LessThan

Held == {heap.items[i] : i \in DOMAIN heap.items}

Init ==
  /\ heap = [items |-> <<>>, index |-> [v \in Values |-> 0]]
  /\ popped = 0

Push(v) == v \notin Held /\ heap' = Heap!Push(heap, v) /\ popped' = 0

Pop == Held # {} /\ heap' = Heap!Pop(heap) /\ popped' = heap.items[1]

Remove(v) == v \in Held /\ heap' = Heap!Remove(heap, heap.index[v]) /\ popped' = 0

Next ==
  \/ \E v \in Values : Push(v) \/ Remove(v)
  \/ Pop

vars == <<heap, popped>>

Spec == Init /\ [][Next]_vars

(* No value is smaller than its parent: what typed_heap.go maintains, also *)
(* when a removal fills a gap with a value from another branch.            *)
HeapOrdered ==
  \A i \in DOMAIN heap.items : i > 1 => heap.items[i \div 2] < heap.items[i]

(* setIndex keeps every value's position exact, and none for the values    *)
(* taken out, so that Remove by position takes out the value it means.     *)
IndexExact ==
  \A v \in Values : IF heap.index[v] = 0 THEN v \notin Held
                    ELSE heap.index[v] <= Len(heap.items) /\ heap.items[heap.index[v]] = v

(* A pop yields the least value and no operation loses or doubles one.     *)
OperationsExact ==
  [][/\ popped' # 0 => /\ \A v \in Held : popped' <= v
                       /\ Held' = Held \ {popped'}
     /\ Len(heap'.items) = Cardinality(Held')
     /\ \/ Held' \subseteq Held /\ Cardinality(Held \ Held') = 1
        \/ Held \subseteq Held' /\ Cardinality(Held' \ Held) = 1]_vars
===============================================================================
