------------------------------- MODULE TypedHeap -------------------------------
(***************************************************************************)
(* internal/matchsystem/typed_heap.go: the binary heap behind the ranked   *)
(* seed orders, the ticket store and candidate ranking.  A heap is a       *)
(* record of its array and of the position setIndex gave each value, 0 for *)
(* a value that is not in the heap (-1 in the code, whose arrays start at  *)
(* 0).  Values are comparable by Less and never equal to one another.      *)
(***************************************************************************)
EXTENDS Naturals, Sequences

CONSTANT Less(_, _)

Swap(h, i, j) ==
  [items |-> [h.items EXCEPT ![i] = h.items[j], ![j] = h.items[i]],
   index |-> [h.index EXCEPT ![h.items[i]] = j, ![h.items[j]] = i]]

RECURSIVE Up(_, _)
Up(h, i) ==
  IF i > 1 /\ Less(h.items[i], h.items[i \div 2])
  THEN Up(Swap(h, i, i \div 2), i \div 2)
  ELSE h

(* Seeded fault: the smaller child is looked for among all but the last.   *)
ChildMissingLast(h, i) ==
  IF 2*i + 1 < Len(h.items) /\ Less(h.items[2*i + 1], h.items[2*i])
  THEN 2*i + 1 ELSE 2*i

Child(h, i) ==
  IF 2*i + 1 <= Len(h.items) /\ Less(h.items[2*i + 1], h.items[2*i])
  THEN 2*i + 1 ELSE 2*i

RECURSIVE Down(_, _)
Down(h, i) ==
  IF 2*i <= Len(h.items) /\ Less(h.items[Child(h, i)], h.items[i])
  THEN Down(Swap(h, i, Child(h, i)), Child(h, i))
  ELSE h

Push(h, value) ==
  LET n == Len(h.items) + 1
  IN Up([items |-> Append(h.items, value), index |-> [h.index EXCEPT ![value] = n]], n)

(* Seeded fault: the value taken out keeps its position.                   *)
WithoutLastKeepingIndex(h) ==
  [items |-> SubSeq(h.items, 1, Len(h.items) - 1), index |-> h.index]

WithoutLast(h) ==
  LET n == Len(h.items)
  IN [items |-> SubSeq(h.items, 1, n - 1), index |-> [h.index EXCEPT ![h.items[n]] = 0]]

(* Seeded fault: the value that fills the gap is never moved up.           *)
ReplaceDownOnly(h, i) == Down(h, i)

Replace(h, i) == IF Down(h, i) # h THEN Down(h, i) ELSE Up(h, i)

Pop(h) == Down(WithoutLast(Swap(h, 1, Len(h.items))), 1)

Remove(h, i) ==
  LET n == Len(h.items)
      rest == WithoutLast(Swap(h, i, n))
  IN IF i = n THEN rest ELSE Replace(rest, i)

===============================================================================
