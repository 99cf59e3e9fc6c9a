--------------------------- MODULE TicketBatch_proofs ---------------------------
(***************************************************************************)
(* The HTTP API.  Batches of tickets, for any number of clients and any    *)
(* batches they send: what a failed atomic batch leaves behind, and that   *)
(* the answer of a batch tells what became of it.  And the event log with  *)
(* its readers, for any sizes of buffers and pages: what a subscriber and  *)
(* the client of an event stream are sent.  And the background traffic:    *)
(* which of its goroutines may act.                                        *)
(***************************************************************************)
EXTENDS TicketBatch, SequenceTheorems, FiniteSetTheorems, WellFoundedInduction, TLAPS

Entries == [id : TicketIDs, insert : Nat]

Records ==
  [pc : {"idle", "resolve", "insert", "undo"},
   kind : {"atomic", "list", "generated", "direct"},
   ids : Seq(TicketIDs), todo : Seq(TicketIDs), added : Seq(Entries),
   left : Nat, rejected : Nat, unseen : Nat, gone : BOOLEAN, failed : BOOLEAN,
   answer : {"none", "done", "error", "rollback failed"}]

(* The insertions of a batch were made: they have numbers already given.   *)
Numbered(b, top) ==
  \A i \in 1..Len(b.added) : b.added[i].insert \in 1..top

(* A rollback has passed these insertions: none of them waits.             *)
Undone(b, waits) ==
  \A i \in 1..Len(b.added) : b.left < i => waits[b.added[i].id] # b.added[i].insert

Undoing(b) == b.kind = "atomic" /\ (b.pc = "undo" \/ b.answer \notin {"none", "done"})

Prefixed(b) ==
  /\ Len(b.added) <= Len(b.ids)
  /\ \A i \in 1..Len(b.added) : b.added[i].id = b.ids[i]

(* The rest of a batch that nothing was rejected of.                       *)
RestAhead(b) ==
  \A k \in 1..Len(b.todo) : b.todo[k] = b.ids[Len(b.added) + k]

Working(b) ==
  /\ b.kind # "direct" /\ b.answer = "none" /\ b.left = 0
  /\ b.todo # <<>>
  /\ Len(b.added) + b.rejected + Len(b.todo) = Len(b.ids)
  /\ b.kind # "list" => b.rejected = 0 /\ Prefixed(b) /\ RestAhead(b)

RollingBack(b) ==
  /\ b.kind = "atomic" /\ b.answer = "none"
  /\ Prefixed(b) /\ Len(b.added) < Len(b.ids)
  /\ b.left <= Len(b.added)

(* What AnswerIsTrue says of a batch that was answered.                    *)
Answered(b) ==
  /\ b.answer # "none" /\ b.left = 0
  /\ b.kind = "list" => b.answer = "done" /\ Len(b.added) + b.rejected = Len(b.ids)
  /\ b.kind # "list" => Prefixed(b) /\ (b.answer = "done" <=> Len(b.added) = Len(b.ids))

Progress(b) ==
  /\ b.pc \in {"resolve", "insert"} => Working(b)
  /\ b.pc = "undo" => RollingBack(b)
  /\ b.pc = "idle" => Answered(b)

BatchInv(b, waits, top) ==
  /\ b \in Records
  /\ Numbered(b, top)
  /\ Undoing(b) => Undone(b, waits)
  /\ Progress(b)

(* A closed simulator, and one that lost the placement, has no ticket.     *)
PoolInv ==
  /\ pool \in [TicketIDs -> Nat] /\ inserts \in Nat
  /\ served \in BOOLEAN /\ closed \in BOOLEAN
  /\ \A id \in TicketIDs : pool[id] <= inserts
  /\ closed \/ ~served => \A id \in TicketIDs : pool[id] = 0

BatchesInv ==
  /\ DOMAIN batch = Clients
  /\ \A c \in Clients : batch[c] = Idle \/ BatchInv(batch[c], pool, inserts)

Inv == PoolInv /\ BatchesInv

-------------------------------------------------------------------------------
LEMMA RecordIsBusy ==
  ASSUME NEW b \in Records
  PROVE  b # Idle
<1>1. "kind" \in DOMAIN b
  BY DEF Records
<1>2. "kind" \notin DOMAIN Idle
  BY DEF Idle
<1> QED
  BY <1>1, <1>2, Zenon

(* The fields of a batch.                                                  *)
LEMMA Fields ==
  ASSUME NEW b \in Records
  PROVE  /\ b.ids \in Seq(TicketIDs) /\ b.todo \in Seq(TicketIDs) /\ b.added \in Seq(Entries)
         /\ Len(b.ids) \in Nat /\ Len(b.todo) \in Nat /\ Len(b.added) \in Nat
         /\ b.left \in Nat /\ b.rejected \in Nat
         /\ \A i \in 1..Len(b.added) : b.added[i].id \in TicketIDs /\ b.added[i].insert \in Nat
<1>1. b.ids \in Seq(TicketIDs) /\ b.todo \in Seq(TicketIDs) /\ b.added \in Seq(Entries)
      /\ b.left \in Nat /\ b.rejected \in Nat
  BY DEF Records
<1>2. \A i \in 1..Len(b.added) : b.added[i] \in Entries
  BY <1>1, ElementOfSeq
<1> QED
  BY <1>1, <1>2, LenProperties DEF Entries

(* Whatever leaves the pool, and whatever enters it under a new number,    *)
(* what is known of a batch stays.                                         *)
LEMMA Ages ==
  ASSUME NEW b, NEW waits, NEW top \in Nat, BatchInv(b, waits, top),
         NEW waits2, NEW top2 \in Nat, top <= top2,
         \A id \in TicketIDs : \/ waits2[id] = waits[id] \/ waits2[id] = 0
                               \/ waits2[id] > top
  PROVE  BatchInv(b, waits2, top2)
<1>1. b \in Records /\ Progress(b) /\ Numbered(b, top)
  BY DEF BatchInv
<1>2. Numbered(b, top2)
  BY <1>1 DEF Numbered
<1>3. ASSUME Undoing(b)
      PROVE  Undone(b, waits2)
  <2>1. SUFFICES ASSUME NEW i \in 1..Len(b.added), b.left < i
                 PROVE  waits2[b.added[i].id] # b.added[i].insert
    BY DEF Undone
  <2>2. waits[b.added[i].id] # b.added[i].insert
    BY <1>3, <2>1 DEF BatchInv, Undone
  <2>3. b.added[i].id \in TicketIDs /\ b.added[i].insert \in 1..top
    BY <1>1, Fields DEF Numbered
  <2> QED
    BY <2>2, <2>3
<1> QED
  BY <1>1, <1>2, <1>3 DEF BatchInv

(* A rejected ticket: an atomic batch is about to take back the insertions *)
(* it was told of, a generated one holds a prefix, a list goes on.         *)
LEMMA Rejected ==
  ASSUME NEW b, NEW waits, NEW top, BatchInv(b, waits, top), b.pc \in {"resolve", "insert"}
  PROVE  BatchInv(AfterRejection(b), waits, top)
<1> DEFINE r == [b EXCEPT !.rejected = b.rejected + 1, !.todo = Tail(b.todo), !.pc = "resolve"]
<1>1. b \in Records /\ Numbered(b, top) /\ Working(b) /\ b.kind # "direct" /\ b.todo # <<>>
  BY DEF BatchInv, Progress, Working
<1>2. /\ Tail(b.todo) \in Seq(TicketIDs) /\ Len(Tail(b.todo)) = Len(b.todo) - 1
      /\ Len(b.todo) \in Nat /\ Len(b.ids) \in Nat /\ Len(b.added) \in Nat /\ b.rejected \in Nat
      /\ Len(b.todo) # 0
  BY <1>1, Fields, HeadTailProperties, EmptySeq
<1>3. /\ r \in Records /\ r.kind = b.kind /\ r.ids = b.ids /\ r.added = b.added
      /\ r.left = b.left /\ r.answer = b.answer /\ r.rejected = b.rejected + 1
      /\ r.todo = Tail(b.todo) /\ r.pc = "resolve"
  <2>1. b.rejected + 1 \in Nat
    BY <1>2
  <2> QED
    BY <1>1, <1>2, <2>1 DEF Records
<1>4. AfterRejection(b) =
        CASE b.kind = "atomic" -> [r EXCEPT !.pc = "undo", !.left = Len(b.added)]
          [] b.kind = "generated" -> [r EXCEPT !.pc = "idle", !.answer = "error"]
          [] b.kind = "list" /\ r.todo = <<>> -> [r EXCEPT !.pc = "idle", !.answer = "done"]
          [] OTHER -> r
  BY DEF AfterRejection
<1> HIDE DEF r
<1>5. CASE b.kind = "atomic"
  <2> DEFINE a == [r EXCEPT !.pc = "undo", !.left = Len(b.added)]
  <2>1. AfterRejection(b) = a
    BY <1>4, <1>5
  <2>2. /\ a \in Records /\ a.kind = "atomic" /\ a.ids = b.ids /\ a.added = b.added
        /\ a.left = Len(b.added) /\ a.answer = "none" /\ a.pc = "undo"
    BY <1>1, <1>2, <1>3, <1>5 DEF Records, Working
  <2> HIDE DEF a
  <2>3. Numbered(a, top) /\ Undone(a, waits)
    BY <1>1, <1>2, <2>2 DEF Numbered, Undone
  <2>4. Prefixed(b) /\ Len(b.added) < Len(b.ids)
    BY <1>1, <1>2, <1>5 DEF Working
  <2>5. Progress(a)
    BY <1>2, <2>2, <2>4 DEF Progress, RollingBack, Prefixed
  <2> QED
    BY <2>1, <2>2, <2>3, <2>5 DEF BatchInv
<1>6. CASE b.kind = "generated"
  <2> DEFINE a == [r EXCEPT !.pc = "idle", !.answer = "error"]
  <2>1. AfterRejection(b) = a
    BY <1>4, <1>6
  <2>2. /\ a \in Records /\ a.kind = "generated" /\ a.ids = b.ids /\ a.added = b.added
        /\ a.left = b.left /\ a.answer = "error" /\ a.pc = "idle"
    BY <1>1, <1>2, <1>3, <1>6 DEF Records
  <2> HIDE DEF a
  <2>3. Numbered(a, top) /\ ~Undoing(a)
    BY <1>1, <2>2 DEF Numbered, Undoing
  <2>4. Prefixed(b) /\ Len(b.added) < Len(b.ids) /\ b.left = 0
    BY <1>1, <1>2, <1>6 DEF Working
  <2>5. Progress(a)
    BY <1>2, <2>2, <2>4 DEF Progress, Answered, Prefixed
  <2> QED
    BY <2>1, <2>2, <2>3, <2>5 DEF BatchInv
<1>7. CASE b.kind = "list" /\ r.todo = <<>>
  <2> DEFINE a == [r EXCEPT !.pc = "idle", !.answer = "done"]
  <2>1. AfterRejection(b) = a
    BY <1>4, <1>7
  <2>2. /\ a \in Records /\ a.kind = "list" /\ a.ids = b.ids /\ a.added = b.added
        /\ a.left = b.left /\ a.answer = "done" /\ a.pc = "idle" /\ a.rejected = b.rejected + 1
    BY <1>1, <1>2, <1>3, <1>7 DEF Records
  <2> HIDE DEF a
  <2>3. Numbered(a, top) /\ ~Undoing(a)
    BY <1>1, <2>2 DEF Numbered, Undoing
  <2>4. Len(b.added) + b.rejected + Len(b.todo) = Len(b.ids) /\ Len(b.todo) = 1 /\ b.left = 0
    <3>1. Len(r.todo) = 0
      BY <1>7
    <3> QED
      BY <1>1, <1>2, <1>3, <3>1 DEF Working
  <2>5. Progress(a)
    BY <1>2, <2>2, <2>4 DEF Progress, Answered
  <2> QED
    BY <2>1, <2>2, <2>3, <2>5 DEF BatchInv
<1>8. CASE b.kind = "list" /\ r.todo # <<>>
  <2>1. AfterRejection(b) = r
    BY <1>4, <1>8
  <2>2. Numbered(r, top) /\ ~Undoing(r)
    BY <1>1, <1>3, <1>8 DEF Numbered, Undoing, Working
  <2>3. Working(r)
    <3>1. Len(b.added) + b.rejected + Len(b.todo) = Len(b.ids)
      BY <1>1 DEF Working
    <3>2. /\ Len(r.added) = Len(b.added) /\ Len(r.ids) = Len(b.ids)
          /\ Len(r.todo) = Len(b.todo) - 1 /\ r.rejected = b.rejected + 1
      BY <1>2, <1>3
    <3>3. Len(r.added) + r.rejected + Len(r.todo) = Len(r.ids)
      <4>1. PICK x \in Nat, y \in Nat, z \in Nat, w \in Nat :
              x = Len(b.added) /\ y = b.rejected /\ z = Len(b.todo) /\ w = Len(b.ids)
        BY <1>2
      <4>2. x + y + z = w
        BY <3>1, <4>1, Zenon
      <4>3. x + (y + 1) + (z - 1) = w
        BY <4>2
      <4> QED
        BY <3>2, <4>1, <4>3, Zenon
    <3> QED
      BY <1>1, <1>3, <1>8, <3>3 DEF Working
  <2> QED
    BY <1>3, <2>1, <2>2, <2>3 DEF BatchInv, Progress
<1>9. b.kind \in {"atomic", "generated", "list"}
  BY <1>1 DEF Records
<1> QED
  BY <1>5, <1>6, <1>7, <1>8, <1>9

(* A ticket that went in.                                                  *)
AfterInsert(b, n) ==
  [b EXCEPT !.added = Append(b.added, [id |-> Head(b.todo), insert |-> n]),
            !.todo = Tail(b.todo),
            !.pc = IF Len(b.todo) = 1 THEN "idle" ELSE "resolve",
            !.answer = IF Len(b.todo) = 1 THEN "done" ELSE "none"]

LEMMA Inserted ==
  ASSUME NEW b, NEW waits, NEW top \in Nat, BatchInv(b, waits, top), b.pc = "insert", NEW waits2
  PROVE  BatchInv(AfterInsert(b, top + 1), waits2, top + 1)
<1> DEFINE e == [id |-> Head(b.todo), insert |-> top + 1]
           added == Append(b.added, e)
           r == AfterInsert(b, top + 1)
<1>1. b \in Records /\ Numbered(b, top) /\ Working(b) /\ b.kind # "direct" /\ b.todo # <<>>
  BY DEF BatchInv, Progress, Working
<1>2. /\ Tail(b.todo) \in Seq(TicketIDs) /\ Len(Tail(b.todo)) = Len(b.todo) - 1
      /\ \A k \in 1..Len(Tail(b.todo)) : Tail(b.todo)[k] = b.todo[k + 1]
      /\ Head(b.todo) \in TicketIDs /\ Head(b.todo) = b.todo[1] /\ b.added \in Seq(Entries)
  BY <1>1, Fields, HeadTailProperties
<1>3. PICK x \in Nat, y \in Nat, z \in Nat, w \in Nat :
        x = Len(b.added) /\ y = b.rejected /\ z = Len(b.todo) /\ w = Len(b.ids)
  BY <1>1, Fields
<1>4. x + y + z = w /\ z # 0 /\ b.left = 0
  <2>1. x + y + z = w /\ b.left = 0
    BY <1>1, <1>3, Zenon DEF Working
  <2>2. z # 0
    BY <1>1, <1>3, Fields, EmptySeq
  <2> QED
    BY <2>1, <2>2
<1>5. e \in Entries /\ e.insert = top + 1 /\ e.id = b.todo[1]
  BY <1>2 DEF Entries
<1> HIDE DEF e
<1>6. /\ added \in Seq(Entries) /\ Len(added) = x + 1
      /\ \A i \in 1..x : added[i] = b.added[i]
      /\ added[x + 1] = e
  BY <1>2, <1>3, <1>5, AppendProperties
<1> HIDE DEF added
<1>7. /\ r \in Records /\ r.kind = b.kind /\ r.ids = b.ids /\ r.added = added
      /\ r.left = b.left /\ r.rejected = b.rejected /\ r.todo = Tail(b.todo)
      /\ r.pc = IF Len(b.todo) = 1 THEN "idle" ELSE "resolve"
      /\ r.answer = IF Len(b.todo) = 1 THEN "done" ELSE "none"
  BY <1>1, <1>2, <1>6 DEF Records, AfterInsert, added, e
<1> HIDE DEF r
<1>8. Numbered(r, top + 1)
  <2>1. SUFFICES ASSUME NEW i \in 1..(x + 1)
                 PROVE  added[i].insert \in 1..(top + 1)
    BY <1>6, <1>7 DEF Numbered
  <2>2. CASE i = x + 1
    BY <1>5, <1>6, <2>2
  <2>3. CASE i \in 1..x
    <3>1. added[i].insert \in 1..top
      BY <1>1, <1>3, <1>6, <2>3 DEF Numbered
    <3> QED
      BY <3>1
  <2> QED
    BY <2>2, <2>3
<1>9. ~Undoing(r)
  BY <1>7 DEF Undoing
<1>10. ASSUME b.kind # "list"
       PROVE  Prefixed(r) /\ RestAhead(r) /\ x + z = w
  <2>1. /\ \A i \in 1..x : b.added[i].id = b.ids[i]
        /\ \A k \in 1..z : b.todo[k] = b.ids[x + k]
        /\ x + z = w
    <3>1. b.rejected = 0 /\ Prefixed(b) /\ RestAhead(b)
      BY <1>1, <1>10 DEF Working
    <3>2. x + z = w
      <4>1. y = 0
        BY <1>3, <3>1
      <4> QED
        BY <1>4, <4>1
    <3>3. \A i \in 1..x : b.added[i].id = b.ids[i]
      BY <1>3, <3>1, Zenon DEF Prefixed
    <3>4. \A k \in 1..z : b.todo[k] = b.ids[x + k]
      BY <1>3, <3>1, Zenon DEF RestAhead
    <3> QED
      BY <3>2, <3>3, <3>4
  <2>2. added[x + 1].id = b.ids[x + 1]
    BY <1>4, <1>5, <1>6, <2>1
  <2>3. \A i \in 1..(x + 1) : added[i].id = b.ids[i]
    <3>1. \A i \in 1..(x + 1) : i = x + 1 \/ i \in 1..x
      OBVIOUS
    <3> QED
      BY <1>6, <2>1, <2>2, <3>1
  <2>4. Prefixed(r)
    <3>1. x + 1 <= w
      BY <1>4, <2>1
    <3>2. Len(r.added) = x + 1 /\ Len(r.ids) = w
      BY <1>3, <1>6, <1>7, Zenon
    <3>3. \A i \in 1..(x + 1) : r.added[i].id = r.ids[i]
      BY <1>7, <2>3, Zenon
    <3> QED
      BY <3>1, <3>2, <3>3, Zenon DEF Prefixed
  <2>5. \A k \in 1..(z - 1) : Tail(b.todo)[k] = b.ids[x + 1 + k]
    <3>1. SUFFICES ASSUME NEW k \in 1..(z - 1)
                   PROVE  Tail(b.todo)[k] = b.ids[x + 1 + k]
      OBVIOUS
    <3>2. k + 1 \in 1..z /\ x + (k + 1) = x + 1 + k
      BY <1>4
    <3>3. Tail(b.todo)[k] = b.todo[k + 1]
      BY <1>2, <1>3
    <3> QED
      BY <2>1, <3>2, <3>3
  <2>6. RestAhead(r)
    BY <1>2, <1>3, <1>6, <1>7, <2>5 DEF RestAhead
  <2> QED
    BY <2>1, <2>4, <2>6
<1>11. /\ Len(r.added) = x + 1 /\ r.rejected = y /\ Len(r.ids) = w /\ Len(r.todo) = z - 1
       /\ r.left = 0 /\ r.kind = b.kind
  BY <1>2, <1>3, <1>4, <1>6, <1>7
<1>12. ASSUME z = 1
       PROVE  BatchInv(r, waits2, top + 1)
  <2>1. r.pc = "idle" /\ r.answer = "done"
    BY <1>3, <1>7, <1>12
  <2>2. Len(r.added) + r.rejected = Len(r.ids)
    <3>1. (x + 1) + y = w
      BY <1>4, <1>12
    <3> QED
      BY <1>11, <3>1, Zenon
  <2>3. b.kind # "list" => Prefixed(r) /\ Len(r.added) = Len(r.ids)
    <3>1. b.kind # "list" => x + 1 = w
      BY <1>10, <1>12
    <3> QED
      BY <1>10, <1>11, <3>1
  <2>4. Answered(r)
    BY <1>11, <2>1, <2>2, <2>3 DEF Answered
  <2> QED
    BY <1>7, <1>8, <1>9, <2>1, <2>4 DEF BatchInv, Progress
<1>13. ASSUME z # 1
       PROVE  BatchInv(r, waits2, top + 1)
  <2>1. r.pc = "resolve" /\ r.answer = "none"
    BY <1>3, <1>7, <1>13
  <2>2. Len(r.added) + r.rejected + Len(r.todo) = Len(r.ids)
    <3>1. (x + 1) + y + (z - 1) = w
      BY <1>4
    <3> QED
      BY <1>11, <3>1, Zenon
  <2>3. r.todo # <<>>
    <3>1. Len(r.todo) # 0
      BY <1>4, <1>11, <1>13
    <3> QED
      BY <3>1
  <2>4. b.kind # "list" => r.rejected = 0
    BY <1>1, <1>7 DEF Working
  <2>5. Working(r)
    BY <1>1, <1>7, <1>10, <1>11, <2>1, <2>2, <2>3, <2>4 DEF Working
  <2> QED
    BY <1>7, <1>8, <1>9, <2>1, <2>5 DEF BatchInv, Progress
<1> QED
  BY <1>12, <1>13 DEF r

(* One step of a rollback.                                                 *)
AfterUndo(b, fails) == [b EXCEPT !.left = b.left - 1, !.failed = b.failed \/ fails]

LEMMA UndoneOne ==
  ASSUME NEW b, NEW waits, NEW top \in Nat, BatchInv(b, waits, top),
         b.pc = "undo", b.left > 0, NEW fails \in BOOLEAN, NEW waits2,
         waits2[b.added[b.left].id] = 0,
         \A id \in TicketIDs : waits2[id] = waits[id] \/ waits2[id] = 0
  PROVE  BatchInv(AfterUndo(b, fails), waits2, top)
<1> DEFINE r == AfterUndo(b, fails)
<1>1. /\ b \in Records /\ Numbered(b, top) /\ RollingBack(b) /\ Undone(b, waits)
      /\ b.left \in Nat /\ b.left <= Len(b.added) /\ Len(b.added) \in Nat /\ b.kind = "atomic"
  BY Fields DEF BatchInv, Progress, Undoing, RollingBack
<1>2. /\ r \in Records /\ r.kind = b.kind /\ r.ids = b.ids /\ r.added = b.added
      /\ r.left = b.left - 1 /\ r.answer = b.answer /\ r.pc = b.pc
  <2>1. b.left - 1 \in Nat /\ (b.failed \/ fails) \in BOOLEAN
    BY <1>1
  <2> QED
    BY <1>1, <2>1 DEF Records, AfterUndo
<1> HIDE DEF r
<1>3. Numbered(r, top)
  BY <1>1, <1>2 DEF Numbered
<1>4. Undone(r, waits2)
  <2>1. SUFFICES ASSUME NEW i \in 1..Len(b.added), b.left - 1 < i
                 PROVE  waits2[b.added[i].id] # b.added[i].insert
    BY <1>2 DEF Undone
  <2>2. b.added[i].id \in TicketIDs /\ b.added[i].insert \in 1..top
    BY <1>1, Fields DEF Numbered
  <2>3. CASE i = b.left
    BY <2>2, <2>3
  <2>4. CASE b.left < i
    BY <1>1, <2>2, <2>4 DEF Undone
  <2> QED
    BY <1>1, <2>1, <2>3, <2>4
<1>5. RollingBack(r)
  BY <1>1, <1>2 DEF RollingBack, Prefixed
<1> QED
  BY <1>2, <1>3, <1>4, <1>5 DEF BatchInv, Progress, r

AfterRollback(b) ==
  [b EXCEPT !.pc = "idle", !.answer = IF b.failed THEN "rollback failed" ELSE "error"]

LEMMA RolledBackAll ==
  ASSUME NEW b, NEW waits, NEW top \in Nat, BatchInv(b, waits, top), b.pc = "undo", b.left = 0
  PROVE  BatchInv(AfterRollback(b), waits, top)
<1> DEFINE r == AfterRollback(b)
<1>1. /\ b \in Records /\ Numbered(b, top) /\ RollingBack(b) /\ Undone(b, waits)
      /\ b.kind = "atomic"
  BY DEF BatchInv, Progress, Undoing, RollingBack
<1>2. /\ r \in Records /\ r.kind = b.kind /\ r.ids = b.ids /\ r.added = b.added
      /\ r.left = b.left /\ r.answer \in {"rollback failed", "error"} /\ r.pc = "idle"
  BY <1>1 DEF Records, AfterRollback
<1> HIDE DEF r
<1>3. Numbered(r, top) /\ Undone(r, waits)
  BY <1>1, <1>2 DEF Numbered, Undone
<1>4. Answered(r)
  <2>1. Len(b.added) # Len(b.ids) /\ Prefixed(b)
    BY <1>1, Fields DEF RollingBack
  <2> QED
    BY <1>1, <1>2, <2>1 DEF Answered, Prefixed
<1> QED
  BY <1>2, <1>3, <1>4 DEF BatchInv, Progress, r

-------------------------------------------------------------------------------
(* A batch in one call holds the prefix it was told to insert.             *)
LEMMA MaxOfPrefix ==
  ASSUME NEW k \in Nat, NEW S \in SUBSET (0..k), 0 \in S
  PROVE  Max(S) \in S
<1> DEFINE R == OpToRel(<, Nat)
           T == {m \in Nat : k - m \in S}
<1>1. \A x, y \in Nat : <<x, y>> \in R <=> x < y
  BY DEF OpToRel
<1>2. k \in T
  OBVIOUS
<1>3. PICK m \in T : \A y \in T : ~ (<<y, m>> \in R)
  <2>1. T \subseteq Nat /\ T # {} /\ IsWellFoundedOn(R, Nat)
    BY <1>2, NatLessThanWellFounded
  <2> HIDE DEF R, T
  <2> QED
    BY <2>1, WFMin
<1>4. m \in Nat /\ k - m \in S
  OBVIOUS
<1> HIDE DEF R
<1>5. ASSUME NEW y \in S
      PROVE  k - m >= y
  <2>1. y \in Nat /\ k - y \in Nat /\ k - (k - y) = y
    OBVIOUS
  <2>2. k - y \in T
    BY <2>1
  <2>3. ~ (k - y < m)
    BY <1>1, <1>3, <1>4, <2>1, <2>2
  <2> QED
    BY <1>4, <2>1, <2>3
<1> QED
  BY <1>4, <1>5, Zenon DEF Max

LEMMA PrefixIsLength ==
  ASSUME NEW ids \in Seq(TicketIDs)
  PROVE  AddedPrefix(ids) \in 0..Len(ids)
<1> DEFINE S == {n \in 0..Len(ids) :
                   \A i \in 1..n : pool[ids[i]] = 0 /\ \A j \in 1..(i - 1) : ids[j] # ids[i]}
<1>1. Len(ids) \in Nat
  BY LenProperties
<1>2. S \in SUBSET (0..Len(ids)) /\ 0 \in S
  BY <1>1
<1>3. AddedPrefix(ids) = Max(S)
  BY DEF AddedPrefix
<1> HIDE DEF S
<1> QED
  BY <1>1, <1>2, <1>3, MaxOfPrefix

DirectBatch(ids, n, top, part) ==
  [pc |-> "idle", kind |-> "direct", ids |-> ids, todo |-> <<>>,
   added |-> [i \in 1..n |-> [id |-> ids[i], insert |-> top + i]],
   left |-> 0, rejected |-> 0, unseen |-> 0, gone |-> part,
   failed |-> FALSE, answer |-> IF n = Len(ids) THEN "done" ELSE "error"]

LEMMA AddedAtOnce ==
  ASSUME NEW ids \in Seq(TicketIDs), NEW n \in 0..Len(ids), NEW top \in Nat,
         NEW part \in BOOLEAN, NEW waits
  PROVE  BatchInv(DirectBatch(ids, n, top, part), waits, top + n)
<1> DEFINE added == [i \in 1..n |-> [id |-> ids[i], insert |-> top + i]]
           b == DirectBatch(ids, n, top, part)
<1>1. Len(ids) \in Nat /\ n \in Nat /\ n <= Len(ids) /\ \A i \in 1..Len(ids) : ids[i] \in TicketIDs
  BY LenProperties, ElementOfSeq
<1>2. \A i \in 1..n : added[i].id = ids[i] /\ added[i].insert = top + i /\ added[i] \in Entries
  BY <1>1 DEF Entries
<1>3. added \in Seq(Entries) /\ Len(added) = n
  <2>1. added = [i \in 1..n |-> added[i]]
    OBVIOUS
  <2> HIDE DEF added
  <2> QED
    BY <1>1, <1>2, <2>1, IsASeq, LenProperties
<1> HIDE DEF added
<1>4. /\ b \in Records /\ b.pc = "idle" /\ b.kind = "direct" /\ b.ids = ids /\ b.added = added
      /\ b.left = 0 /\ b.answer = IF n = Len(ids) THEN "done" ELSE "error"
  <2>1. <<>> \in Seq(TicketIDs)
    BY EmptySeq
  <2> QED
    BY <1>3, <2>1 DEF DirectBatch, Records, added
<1> HIDE DEF b
<1>5. Numbered(b, top + n) /\ ~Undoing(b)
  BY <1>1, <1>2, <1>3, <1>4 DEF Numbered, Undoing
<1>6. Prefixed(b)
  BY <1>1, <1>2, <1>3, <1>4 DEF Prefixed
<1>7. Progress(b)
  BY <1>3, <1>4, <1>6 DEF Progress, Answered
<1> QED
  BY <1>4, <1>5, <1>7 DEF BatchInv, b

NewBatch(kind, ids) ==
  [pc |-> "resolve", kind |-> kind, ids |-> ids, todo |-> ids,
   added |-> <<>>, left |-> 0, rejected |-> 0, unseen |-> 0, gone |-> FALSE,
   failed |-> FALSE, answer |-> "none"]

LEMMA Begun ==
  ASSUME NEW kind \in {"atomic", "list", "generated"}, NEW ids \in Seq(TicketIDs), ids # <<>>,
         NEW waits, NEW top \in Nat
  PROVE  BatchInv(NewBatch(kind, ids), waits, top)
<1> DEFINE b == NewBatch(kind, ids)
<1>1. /\ b \in Records /\ b.pc = "resolve" /\ b.kind = kind /\ b.ids = ids /\ b.todo = ids
      /\ b.added = <<>> /\ b.left = 0 /\ b.rejected = 0 /\ b.answer = "none"
  <2>1. <<>> \in Seq(TicketIDs) /\ <<>> \in Seq(Entries)
    BY EmptySeq
  <2> QED
    BY <2>1 DEF NewBatch, Records
<1> HIDE DEF b
<1>2. Len(b.added) = 0 /\ Len(b.ids) = Len(ids) /\ Len(b.todo) = Len(ids) /\ Len(ids) \in Nat
  BY <1>1, EmptySeq, LenProperties
<1>3. Numbered(b, top) /\ ~Undoing(b)
  BY <1>1, <1>2 DEF Numbered, Undoing
<1>4. Prefixed(b) /\ RestAhead(b)
  BY <1>1, <1>2 DEF Prefixed, RestAhead
<1>5. Len(b.added) + b.rejected + Len(b.todo) = Len(b.ids)
  <2>1. 0 + 0 + Len(ids) = Len(ids)
    BY <1>2
  <2> QED
    BY <1>1, <1>2, <2>1, Zenon
<1>6. Working(b)
  BY <1>1, <1>4, <1>5 DEF Working
<1> QED
  BY <1>1, <1>3, <1>6 DEF BatchInv, Progress, b

(* A step between two calls, and a client that leaves.                     *)
LEMMA Marked ==
  ASSUME NEW b, NEW waits, NEW top, BatchInv(b, waits, top), b.pc \in {"resolve", "insert"},
         NEW r, \/ r = [b EXCEPT !.pc = "insert"]
                \/ r = [b EXCEPT !.gone = TRUE]
                \/ \E n \in Nat : r = [b EXCEPT !.gone = TRUE, !.unseen = n]
  PROVE  BatchInv(r, waits, top) /\ r.pc \in {"resolve", "insert"}
<1>1. b \in Records /\ Numbered(b, top) /\ Working(b)
  BY DEF BatchInv, Progress
<1>2. /\ r \in Records /\ r.kind = b.kind /\ r.ids = b.ids /\ r.todo = b.todo
      /\ r.added = b.added /\ r.left = b.left /\ r.rejected = b.rejected
      /\ r.answer = b.answer /\ r.pc \in {"resolve", "insert"}
  BY <1>1 DEF Records
<1>3. Numbered(r, top) /\ ~Undoing(r)
  BY <1>1, <1>2 DEF Numbered, Undoing, Working
<1>4. Working(r)
  <2>1. Prefixed(b) => Prefixed(r)
    BY <1>2, Zenon DEF Prefixed
  <2>2. RestAhead(b) => RestAhead(r)
    BY <1>2, Zenon DEF RestAhead
  <2>3. Len(r.added) + r.rejected + Len(r.todo) = Len(r.ids)
    BY <1>1, <1>2, Zenon DEF Working
  <2> QED
    BY <1>1, <1>2, <2>1, <2>2, <2>3, Zenon DEF Working
<1> QED
  BY <1>2, <1>3, <1>4 DEF BatchInv, Progress

-------------------------------------------------------------------------------
(* One client's batch changes; the others only see what enters and leaves  *)
(* the pool.                                                               *)
LEMMA OneMoves ==
  ASSUME Inv, NEW c \in Clients, NEW r, NEW waits2, NEW top2 \in Nat,
         BatchInv(r, waits2, top2), NEW after, after = [batch EXCEPT ![c] = r],
         inserts <= top2,
         \A id \in TicketIDs : waits2[id] = pool[id] \/ waits2[id] = 0 \/ waits2[id] > inserts
  PROVE  /\ DOMAIN after = Clients
         /\ \A d \in Clients : after[d] = Idle \/ BatchInv(after[d], waits2, top2)
<1>1. DOMAIN batch = Clients /\ inserts \in Nat
  BY DEF Inv, BatchesInv, PoolInv
<1>2. DOMAIN after = Clients /\ after[c] = r /\ \A d \in Clients : d # c => after[d] = batch[d]
  BY <1>1, Zenon
<1>3. ASSUME NEW d \in Clients, d # c, batch[d] # Idle
      PROVE  BatchInv(batch[d], waits2, top2)
  <2>1. BatchInv(batch[d], pool, inserts)
    BY <1>3, Zenon DEF Inv, BatchesInv
  <2> QED
    BY <1>1, <2>1, Ages
<1> QED
  BY <1>2, <1>3, Zenon

(* No batch changes.                                                       *)
LEMMA NoneMoves ==
  ASSUME Inv, NEW waits2,
         \A id \in TicketIDs : waits2[id] = pool[id] \/ waits2[id] = 0
  PROVE  \A d \in Clients : batch[d] = Idle \/ BatchInv(batch[d], waits2, inserts)
<1>1. inserts \in Nat /\ inserts <= inserts
  BY DEF Inv, PoolInv
<1>2. ASSUME NEW d \in Clients, batch[d] # Idle
      PROVE  BatchInv(batch[d], waits2, inserts)
  <2>1. BatchInv(batch[d], pool, inserts)
    BY <1>2, Zenon DEF Inv, BatchesInv
  <2> QED
    BY <1>1, <2>1, Ages
<1> QED
  BY <1>2

LEMMA Busy ==
  ASSUME Inv, NEW c \in Clients, batch[c].pc \in {"resolve", "insert", "undo"}
  PROVE  BatchInv(batch[c], pool, inserts)
<1>1. batch[c] # Idle
  BY DEF Idle
<1> QED
  BY <1>1, Zenon DEF Inv, BatchesInv

LEMMA BeginPreserves ==
  ASSUME Inv, NEW c \in Clients, NEW kind \in Kinds, NEW ids \in Batches, Begin(c, kind, ids)
  PROVE  Inv'
<1>1. kind \in {"atomic", "list", "generated"} /\ ids \in Seq(TicketIDs) /\ ids # <<>>
  BY BatchAssumption DEF Begin
<1>2. batch' = [batch EXCEPT ![c] = NewBatch(kind, ids)]
  BY DEF Begin, NewBatch
<1>3. UNCHANGED <<pool, served, closed, inserts>>
  BY DEF Begin
<1>4. inserts \in Nat
  BY DEF Inv, PoolInv
<1>5. BatchInv(NewBatch(kind, ids), pool, inserts)
  BY <1>1, <1>4, Begun
<1>6. BatchesInv'
  BY <1>2, <1>3, <1>4, <1>5, OneMoves DEF BatchesInv
<1> QED
  BY <1>3, <1>6 DEF Inv, PoolInv

LEMMA AddBatchPreserves ==
  ASSUME Inv, NEW c \in Clients, NEW ids \in Batches, NEW n \in 0..Len(ids), AddBatch(c, ids, n)
  PROVE  Inv'
<1> DEFINE part == n < AddedPrefix(ids)
<1>1. ids \in Seq(TicketIDs) /\ Len(ids) \in Nat /\ n \in Nat /\ inserts \in Nat
  BY BatchAssumption, LenProperties DEF Inv, PoolInv
<1>2. part \in BOOLEAN
  OBVIOUS
<1>3. batch' = [batch EXCEPT ![c] = DirectBatch(ids, n, inserts, part)]
  BY DEF AddBatch, DirectBatch
<1> HIDE DEF part
<1>4. BatchInv(DirectBatch(ids, n, inserts, part), pool', inserts + n)
  BY <1>1, <1>2, AddedAtOnce
<1>5. ASSUME NEW id \in TicketIDs
      PROVE  pool'[id] = pool[id] \/ pool'[id] \in (inserts + 1)..(inserts + n)
  <2>1. pool'[id] = IF \E i \in 1..n : ids[i] = id
                    THEN inserts + (CHOOSE i \in 1..n : ids[i] = id) ELSE pool[id]
    BY DEF AddBatch
  <2>2. CASE \E i \in 1..n : ids[i] = id
    <3>1. PICK i \in 1..n : i = CHOOSE k \in 1..n : ids[k] = id
      BY <2>2
    <3>2. pool'[id] = inserts + i
      BY <2>1, <2>2, <3>1
    <3> QED
      BY <1>1, <3>1, <3>2
  <2> QED
    BY <2>1, <2>2
<1>6. inserts' = inserts + n /\ inserts' \in Nat /\ inserts <= inserts'
  BY <1>1 DEF AddBatch
<1>7. \A id \in TicketIDs : pool'[id] = pool[id] \/ pool'[id] > inserts
  BY <1>1, <1>5
<1>8. BatchesInv'
  BY <1>3, <1>4, <1>6, <1>7, OneMoves DEF BatchesInv
<1>9. PoolInv'
  <2>1. pool' \in [TicketIDs -> Nat] /\ \A id \in TicketIDs : pool'[id] <= inserts'
    <3>1. \A id \in TicketIDs : pool[id] \in Nat /\ pool[id] <= inserts
      BY DEF Inv, PoolInv
    <3>2. \A id \in TicketIDs : pool'[id] \in Nat /\ pool'[id] <= inserts + n
      BY <1>1, <1>5, <3>1
    <3>3. pool' = [id \in TicketIDs |-> pool'[id]]
      BY DEF AddBatch
    <3> QED
      BY <1>6, <3>2, <3>3
  <2>2. ~closed' /\ served' /\ served' \in BOOLEAN /\ closed' \in BOOLEAN
    BY DEF AddBatch, Inv, PoolInv
  <2> QED
    BY <1>6, <2>1, <2>2 DEF PoolInv
<1> QED
  BY <1>8, <1>9 DEF Inv

LEMMA ResolvePreserves ==
  ASSUME Inv, NEW c \in Clients, Resolve(c)
  PROVE  Inv'
<1>1. BatchInv(batch[c], pool, inserts) /\ batch[c].pc \in {"resolve", "insert"}
  BY Busy DEF Resolve
<1>2. PICK r : r = IF served /\ ~closed /\ ~batch[c].gone
                   THEN [batch[c] EXCEPT !.pc = "insert"] ELSE AfterRejection(batch[c])
  OBVIOUS
<1>3. batch' = [batch EXCEPT ![c] = r] /\ UNCHANGED <<pool, served, closed, inserts>>
  BY <1>2 DEF Resolve
<1>4. BatchInv(r, pool, inserts)
  <2>1. BatchInv(AfterRejection(batch[c]), pool, inserts)
    BY <1>1, Rejected
  <2>2. BatchInv([batch[c] EXCEPT !.pc = "insert"], pool, inserts)
    BY <1>1, Marked
  <2> QED
    BY <1>2, <2>1, <2>2, Zenon
<1>5. inserts \in Nat
  BY DEF Inv, PoolInv
<1>6. BatchesInv'
  BY <1>3, <1>4, <1>5, OneMoves DEF BatchesInv
<1> QED
  BY <1>3, <1>6 DEF Inv, PoolInv

(* A number that is new enters the pool of a served placement.             *)
LEMMA PoolGrows ==
  ASSUME Inv, NEW id \in TicketIDs, served, ~closed, UNCHANGED <<served, closed>>,
         inserts' = inserts + 1, pool' = [pool EXCEPT ![id] = inserts + 1]
  PROVE  /\ PoolInv' /\ inserts \in Nat /\ inserts' \in Nat
         /\ \A i \in TicketIDs : pool'[i] = pool[i] \/ pool'[i] > inserts
<1>1. /\ inserts \in Nat /\ pool \in [TicketIDs -> Nat] /\ served \in BOOLEAN /\ closed \in BOOLEAN
      /\ \A i \in TicketIDs : pool[i] <= inserts
  BY DEF Inv, PoolInv
<1>2. pool' \in [TicketIDs -> Nat] /\ \A i \in TicketIDs : pool'[i] <= inserts + 1
  BY <1>1
<1>3. PoolInv'
  BY <1>1, <1>2 DEF PoolInv
<1> QED
  BY <1>1, <1>3

LEMMA InsertPreserves ==
  ASSUME Inv, NEW c \in Clients, Insert(c)
  PROVE  Inv'
<1> DEFINE b == batch[c]
           id == Head(b.todo)
<1>1. BatchInv(b, pool, inserts) /\ b.pc = "insert" /\ inserts \in Nat
  BY Busy DEF Insert, Inv, PoolInv
<1>2. CASE closed \/ ~served \/ b.gone \/ pool[id] # 0
  <2>1. /\ batch' = [batch EXCEPT ![c] = AfterRejection(b)]
        /\ UNCHANGED <<pool, served, closed, inserts>>
    BY <1>2 DEF Insert
  <2>2. BatchInv(AfterRejection(b), pool, inserts)
    BY <1>1, Rejected
  <2> HIDE DEF b
  <2>3. BatchesInv'
    BY <1>1, <2>1, <2>2, OneMoves DEF BatchesInv
  <2> QED
    BY <2>1, <2>3 DEF Inv, PoolInv
<1>3. CASE ~ (closed \/ ~served \/ b.gone \/ pool[id] # 0)
  <2>1. /\ inserts' = inserts + 1
        /\ pool' = [pool EXCEPT ![id] = inserts + 1]
        /\ UNCHANGED <<served, closed>>
    BY <1>3 DEF Insert
  <2>2. batch' = [batch EXCEPT ![c] = AfterInsert(b, inserts + 1)]
    <3>1. batch' = [batch EXCEPT ![c].added = Append(@, [id |-> id, insert |-> inserts + 1]),
                                 ![c].todo = Tail(@),
                                 ![c].pc = IF Len(b.todo) = 1 THEN "idle" ELSE "resolve",
                                 ![c].answer = IF Len(b.todo) = 1 THEN "done" ELSE "none"]
      BY <1>3 DEF Insert
    <3> QED
      BY <3>1 DEF AfterInsert, Inv, BatchesInv
  <2>3. id \in TicketIDs
    <3>1. b \in Records /\ b.todo # <<>>
      BY <1>1 DEF BatchInv, Progress, Working
    <3> QED
      BY <3>1, Fields, HeadTailProperties
  <2>4. BatchInv(AfterInsert(b, inserts + 1), pool', inserts')
    BY <1>1, <2>1, Inserted
  <2>5. /\ PoolInv' /\ inserts' \in Nat /\ inserts <= inserts'
        /\ \A i \in TicketIDs : pool'[i] = pool[i] \/ pool'[i] > inserts
    <3>1. served /\ ~closed
      BY <1>3
    <3>2. /\ PoolInv' /\ inserts' \in Nat
          /\ \A i \in TicketIDs : pool'[i] = pool[i] \/ pool'[i] > inserts
      BY <2>1, <2>3, <3>1, PoolGrows
    <3>3. inserts <= inserts'
      BY <1>1, <2>1
    <3> QED
      BY <3>2, <3>3
  <2> HIDE DEF b, id
  <2>6. BatchesInv'
    BY <2>2, <2>4, <2>5, OneMoves DEF BatchesInv
  <2> QED
    BY <2>5, <2>6 DEF Inv
<1> QED
  BY <1>2, <1>3

(* The ticket goes in and the client is told of an error.                  *)
LEMMA InsertUnseenPreserves ==
  ASSUME Inv, NEW c \in Clients, InsertUnseen(c)
  PROVE  Inv'
<1> DEFINE b == batch[c]
           id == Head(b.todo)
           u == [b EXCEPT !.gone = TRUE, !.unseen = inserts + 1]
<1>1. BatchInv(b, pool, inserts) /\ b.pc = "insert" /\ inserts \in Nat
  BY Busy DEF InsertUnseen, Inv, PoolInv
<1>2. /\ inserts' = inserts + 1
      /\ pool' = [pool EXCEPT ![id] = inserts + 1]
      /\ UNCHANGED <<served, closed>> /\ served /\ ~closed
      /\ batch' = [batch EXCEPT ![c] = AfterRejection(u)]
  BY DEF InsertUnseen
<1>3. id \in TicketIDs
  <2>1. b \in Records /\ b.todo # <<>>
    BY <1>1 DEF BatchInv, Progress, Working
  <2> QED
    BY <2>1, Fields, HeadTailProperties
<1>4. /\ PoolInv' /\ inserts' \in Nat
      /\ \A i \in TicketIDs : pool'[i] = pool[i] \/ pool'[i] > inserts
  BY <1>2, <1>3, PoolGrows
<1>5. inserts <= inserts' /\ inserts + 1 \in Nat
  BY <1>1, <1>2
<1>6. BatchInv(b, pool', inserts')
  BY <1>1, <1>4, <1>5, Ages
<1>7. BatchInv(u, pool', inserts') /\ u.pc \in {"resolve", "insert"}
  <2>1. b.pc \in {"resolve", "insert"} /\ \E n \in Nat : u = [b EXCEPT !.gone = TRUE, !.unseen = n]
    BY <1>1, <1>5
  <2> HIDE DEF b, u
  <2> QED
    BY <1>6, <2>1, Marked
<1> HIDE DEF b, id, u
<1>8. BatchInv(AfterRejection(u), pool', inserts')
  BY <1>7, Rejected
<1>9. BatchesInv'
  <2>1. batch' = [batch EXCEPT ![c] = AfterRejection(u)]
    BY <1>2
  <2> QED
    BY <1>4, <1>5, <1>8, <2>1, OneMoves DEF BatchesInv
<1> QED
  BY <1>4, <1>9 DEF Inv

LEMMA ClientGonePreserves ==
  ASSUME Inv, NEW c \in Clients, ClientGone(c)
  PROVE  Inv'
<1>1. BatchInv(batch[c], pool, inserts) /\ batch[c].pc \in {"resolve", "insert"}
  BY Busy DEF ClientGone
<1>2. batch' = [batch EXCEPT ![c] = [batch[c] EXCEPT !.gone = TRUE]]
  BY DEF ClientGone, Inv, BatchesInv
<1>3. UNCHANGED <<pool, served, closed, inserts>> /\ inserts \in Nat
  BY DEF ClientGone, Inv, PoolInv
<1>4. PICK r : r = [batch[c] EXCEPT !.gone = TRUE]
  OBVIOUS
<1>5. BatchInv(r, pool, inserts) /\ batch' = [batch EXCEPT ![c] = r]
  BY <1>1, <1>2, <1>4, Marked
<1>6. BatchesInv'
  BY <1>3, <1>5, OneMoves DEF BatchesInv
<1> QED
  BY <1>3, <1>6 DEF Inv, PoolInv

(* A removal takes what waits under the TicketID; one that fails finds the *)
(* pool of a closed simulator, or of a lost placement, which is empty.     *)
LEMMA UndoPreserves ==
  ASSUME Inv, NEW c \in Clients, Undo(c)
  PROVE  Inv'
<1> DEFINE b == batch[c]
           t == b.added[b.left]
           fails == closed \/ ~served
<1>1. BatchInv(b, pool, inserts) /\ b.pc = "undo" /\ b.left > 0 /\ inserts \in Nat
  BY Busy DEF Undo, Inv, PoolInv
<1>2. /\ pool \in [TicketIDs -> Nat] /\ fails \in BOOLEAN
      /\ fails => \A id \in TicketIDs : pool[id] = 0
  BY DEF Inv, PoolInv
<1>3. t.id \in TicketIDs
  <2>1. b \in Records /\ b.left \in 1..Len(b.added)
    BY <1>1, Fields DEF BatchInv, Progress, RollingBack
  <2> QED
    BY <2>1, Fields
<1>4. /\ batch' = [batch EXCEPT ![c] = AfterUndo(b, fails)]
      /\ pool' = IF fails THEN pool ELSE [pool EXCEPT ![t.id] = 0]
      /\ UNCHANGED <<served, closed, inserts>>
  BY DEF Undo, Rest, RemovalFails, AfterUndo, Inv, BatchesInv
<1> HIDE DEF fails
<1>5. /\ pool' \in [TicketIDs -> Nat] /\ pool'[t.id] = 0
      /\ \A id \in TicketIDs : pool'[id] = pool[id] \/ pool'[id] = 0
  BY <1>2, <1>3, <1>4
<1>6. BatchInv(AfterUndo(b, fails), pool', inserts)
  BY <1>1, <1>2, <1>5, UndoneOne
<1> HIDE DEF b, t
<1>7. BatchesInv'
  <2>1. inserts <= inserts /\ inserts' = inserts
    BY <1>1, <1>4
  <2> QED
    BY <1>1, <1>4, <1>5, <1>6, <2>1, OneMoves DEF BatchesInv
<1>8. PoolInv'
  BY <1>4, <1>5 DEF PoolInv, Inv
<1> QED
  BY <1>7, <1>8 DEF Inv

LEMMA RolledBackPreserves ==
  ASSUME Inv, NEW c \in Clients, RolledBack(c)
  PROVE  Inv'
<1>1. BatchInv(batch[c], pool, inserts) /\ batch[c].pc = "undo" /\ batch[c].left = 0
  BY Busy DEF RolledBack
<1>2. batch' = [batch EXCEPT ![c] = AfterRollback(batch[c])]
  BY DEF RolledBack, AfterRollback, Inv, BatchesInv
<1>3. UNCHANGED <<pool, served, closed, inserts>> /\ inserts \in Nat
  BY DEF RolledBack, Inv, PoolInv
<1>4. BatchInv(AfterRollback(batch[c]), pool, inserts)
  BY <1>1, <1>3, RolledBackAll
<1>5. BatchesInv'
  BY <1>2, <1>3, <1>4, OneMoves DEF BatchesInv
<1> QED
  BY <1>3, <1>5 DEF Inv, PoolInv

(* Whatever falls between the calls of the batches only takes tickets.     *)
LEMMA OthersPreserve ==
  ASSUME Inv, \/ \E ids \in SUBSET TicketIDs : Leave(ids)
              \/ \E has \in BOOLEAN : ReplaceScenario(has)
              \/ Close
              \/ UNCHANGED vars
  PROVE  Inv'
<1>1. UNCHANGED <<batch, inserts>>
  BY DEF Leave, ReplaceScenario, Close, vars
<1>2. \A id \in TicketIDs : pool'[id] = pool[id] \/ pool'[id] = 0
  BY DEF Leave, ReplaceScenario, Close, vars
<1>3. BatchesInv'
  <2>1. \A d \in Clients : batch[d] = Idle \/ BatchInv(batch[d], pool', inserts)
    BY <1>2, NoneMoves
  <2> QED
    BY <1>1, <2>1, Zenon DEF BatchesInv, Inv
<1>4. PoolInv'
  <2>1. PoolInv
    BY DEF Inv
  <2>2. ASSUME NEW ids \in SUBSET TicketIDs, Leave(ids)
        PROVE  PoolInv'
    <3>1. \A id \in TicketIDs : pool'[id] \in {0, pool[id]}
      BY <2>2 DEF Leave
    <3>2. pool' = [id \in TicketIDs |-> pool'[id]]
      BY <2>2 DEF Leave
    <3>3. UNCHANGED <<served, closed, inserts>>
      BY <2>2 DEF Leave
    <3>4. pool' \in [TicketIDs -> Nat]
      BY <2>1, <3>1, <3>2 DEF PoolInv
    <3> QED
      BY <2>1, <3>1, <3>3, <3>4 DEF PoolInv
  <2>3. ASSUME NEW has \in BOOLEAN, ReplaceScenario(has)
        PROVE  PoolInv'
    BY <2>1, <2>3 DEF ReplaceScenario, PoolInv
  <2>4. ASSUME Close
        PROVE  PoolInv'
    BY <2>1, <2>4 DEF Close, PoolInv
  <2>5. ASSUME UNCHANGED vars
        PROVE  PoolInv'
    BY <2>1, <2>5 DEF vars, PoolInv
  <2> QED
    BY <2>2, <2>3, <2>4, <2>5
<1> QED
  BY <1>3, <1>4 DEF Inv

LEMMA StartsWell == Init => Inv
<1>1. ASSUME Init
      PROVE  PoolInv
  <2>1. /\ pool = [id \in TicketIDs |-> 0] /\ inserts = 0
        /\ served = TRUE /\ closed = FALSE
    BY <1>1 DEF Init
  <2>2. \A id \in TicketIDs : pool[id] = 0
    BY <2>1
  <2>3. pool \in [TicketIDs -> Nat] /\ inserts \in Nat
    BY <2>1
  <2>4. \A id \in TicketIDs : pool[id] <= inserts
    BY <2>1, <2>2
  <2> QED
    BY <2>1, <2>2, <2>3, <2>4, Zenon DEF PoolInv
<1>2. Init => BatchesInv
  BY Zenon DEF Init, BatchesInv
<1> QED
  BY <1>1, <1>2 DEF Inv

LEMMA StepsPreserve ==
  ASSUME Inv, [Next]_vars
  PROVE  Inv'
<1>1. ASSUME NEW c \in Clients, NEW kind \in Kinds, NEW ids \in Batches, Begin(c, kind, ids)
      PROVE  Inv'
  BY <1>1, BeginPreserves
<1>2. ASSUME NEW c \in Clients, NEW ids \in Batches, NEW n \in 0..Len(ids), AddBatch(c, ids, n)
      PROVE  Inv'
  BY <1>2, AddBatchPreserves
<1>3. ASSUME NEW c \in Clients, ClientStep(c)
      PROVE  Inv'
  BY <1>3, ResolvePreserves, InsertPreserves, InsertUnseenPreserves, UndoPreserves,
     RolledBackPreserves DEF ClientStep
<1>4. ASSUME NEW c \in Clients, ClientGone(c)
      PROVE  Inv'
  BY <1>4, ClientGonePreserves
<1>5. ASSUME \/ \E ids \in SUBSET TicketIDs : Leave(ids)
             \/ \E has \in BOOLEAN : ReplaceScenario(has)
             \/ Close
             \/ UNCHANGED vars
      PROVE  Inv'
  BY <1>5, OthersPreserve
<1> QED
  BY <1>1, <1>2, <1>3, <1>4, <1>5, Zenon DEF Next

LEMMA BatchAlways == Spec => []Inv
<1>1. Inv /\ [Next]_vars => Inv'
  BY StepsPreserve
<1> QED
  BY StartsWell, <1>1, PTL DEF Spec

-------------------------------------------------------------------------------
(* An atomic batch answered with an error has left behind none of the      *)
(* insertions it was told of: not if matches, deletions and other clients  *)
(* fall between the removals of rollbackTickets, not if the client leaves, *)
(* nor if the scenario loses the placement or the simulator closes.        *)
THEOREM AtomicBatchesTakeBack == Spec => []AtomicLeavesNone
<1>1. Inv => AtomicLeavesNone
  <2>1. SUFFICES ASSUME Inv, NEW c \in Clients, batch[c] # Idle, batch[c].kind = "atomic",
                        batch[c].answer \notin {"none", "done"},
                        NEW i \in 1..Len(batch[c].added)
                 PROVE  pool[batch[c].added[i].id] # batch[c].added[i].insert
    BY Zenon DEF AtomicLeavesNone
  <2>2. BatchInv(batch[c], pool, inserts)
    BY <2>1, Zenon DEF Inv, BatchesInv
  <2>3. Undone(batch[c], pool)
    BY <2>1, <2>2 DEF BatchInv, Undoing
  <2>4. batch[c].left = 0
    BY <2>1, <2>2 DEF BatchInv, Progress, Working, RollingBack, Answered, Records
  <2> QED
    BY <2>1, <2>3, <2>4 DEF Undone
<1> QED
  BY <1>1, BatchAlways, PTL

(* What CreateTicketsBatch, createGeneratedTickets and AddBatch answer is  *)
(* so: an atomic, a generated or a direct batch holds a prefix of what was *)
(* sent, all of it exactly if it succeeded; a list accounts for each       *)
(* ticket.                                                                 *)
THEOREM AnswersTrue == Spec => []AnswerIsTrue
<1>1. Inv => AnswerIsTrue
  <2>1. SUFFICES ASSUME Inv, NEW c \in Clients, batch[c] # Idle, batch[c].answer # "none"
                 PROVE  LET b == batch[c]
                            Prefix == \A i \in 1..Len(b.added) : b.added[i].id = b.ids[i]
                        IN CASE b.kind = "atomic" ->
                                  (b.answer = "done") = (Len(b.added) = Len(b.ids)) /\ Prefix
                             [] b.kind = "list" ->
                                  b.answer = "done" /\ Len(b.added) + b.rejected = Len(b.ids)
                             [] OTHER ->
                                  Prefix /\ (b.answer = "done") = (Len(b.added) = Len(b.ids))
    BY Zenon DEF AnswerIsTrue
  <2> DEFINE b == batch[c]
  <2>2. BatchInv(b, pool, inserts)
    BY <2>1, Zenon DEF Inv, BatchesInv
  <2>3. Answered(b)
    BY <2>1, <2>2 DEF BatchInv, Progress, Working, RollingBack, Records
  <2>4. CASE b.kind = "list"
    BY <2>3, <2>4 DEF Answered
  <2>5. CASE b.kind # "list"
    <3>1. /\ \A i \in 1..Len(b.added) : b.added[i].id = b.ids[i]
          /\ (b.answer = "done") = (Len(b.added) = Len(b.ids))
      BY <2>3, <2>5 DEF Answered, Prefixed
    <3> QED
      BY <2>5, <3>1, Zenon
  <2> QED
    BY <2>4, <2>5
<1> QED
  BY <1>1, BatchAlways, PTL

-------------------------------------------------------------------------------
(* The event log and its readers.                                          *)
CONSTANTS MinBuffer, SubscribeLimit, PageLimit, StreamBuffer, MaxEvents, MaxConnects

VARIABLES runtime, total, retired, logClosed, sub, stream, got, seen, connects

Log == INSTANCE EventLog WITH closed <- logClosed

Event == Nat \X Nat
Numbers(r, n) == <<r, n>>

LEMMA EventParts ==
  ASSUME NEW r \in Nat, NEW n \in Nat
  PROVE  Numbers(r, n) \in Event /\ Numbers(r, n)[1] = r /\ Numbers(r, n)[2] = n
  BY DEF Event, Numbers

(* The n events of runtime r after number k.                               *)
IsRun(s, r, k, n) ==
  /\ s \in Seq(Event) /\ Len(s) = n
  /\ \A i \in 1..n : s[i] = Numbers(r, k + i)

LEMMA EventsRun ==
  ASSUME NEW r \in Nat, NEW k \in Nat, NEW n \in Nat
  PROVE  IsRun(Log!Events(r, k + 1, k + n), r, k, n)
<1>1. PICK s : s = Log!Events(r, k + 1, k + n)
  OBVIOUS
<1>2. ((k + n) + 1) - (k + 1) = n /\ \A i \in 1..n : ((k + 1) + i) - 1 = k + i
  OBVIOUS
<1>3. s = [i \in 1..n |-> Numbers(r, k + i)]
  BY <1>1, <1>2 DEF Log!Events, Numbers
<1>4. \A i \in 1..n : Numbers(r, k + i) \in Event
  BY EventParts
<1>5. s \in [1..n -> Event] /\ \A i \in 1..n : s[i] = Numbers(r, k + i)
  BY <1>3, <1>4
<1>6. s \in Seq(Event) /\ Len(s) = n
  BY <1>5, IsASeq, LenProperties
<1> QED
  BY <1>1, <1>5, <1>6 DEF IsRun

LEMMA RunIsEvents ==
  ASSUME NEW r \in Nat, NEW k \in Nat, NEW n \in Nat, NEW s, IsRun(s, r, k, n)
  PROVE  s = Log!Events(r, k + 1, k + n)
<1>1. PICK t : t = Log!Events(r, k + 1, k + n) /\ IsRun(t, r, k, n)
  BY EventsRun
<1>2. s = t
  BY <1>1, SeqEqual DEF IsRun
<1> QED
  BY <1>1, <1>2

LEMMA RunAppend ==
  ASSUME NEW r \in Nat, NEW k \in Nat, NEW n \in Nat, NEW s, IsRun(s, r, k, n),
         NEW e, e = Numbers(r, k + n + 1)
  PROVE  IsRun(Append(s, e), r, k, n + 1)
<1>1. PICK t : t = Append(s, e)
  OBVIOUS
<1>2. e \in Event
  BY EventParts
<1>3. /\ t \in Seq(Event) /\ Len(t) = n + 1
      /\ \A i \in 1..n : t[i] = s[i]
      /\ t[n + 1] = e
  BY <1>1, <1>2, AppendProperties DEF IsRun
<1>4. \A i \in 1..(n + 1) : t[i] = Numbers(r, k + i)
  <2>1. \A i \in 1..n : t[i] = Numbers(r, k + i)
    BY <1>3 DEF IsRun
  <2>2. t[n + 1] = Numbers(r, k + (n + 1))
    BY <1>3
  <2> QED
    BY <2>1, <2>2
<1> QED
  BY <1>1, <1>3, <1>4 DEF IsRun

(* What has been received or waits in the buffer of subscription s.        *)
Kept(all, s, published, count) ==
  /\ all \in Seq(Event)
  /\ \A i \in 1..Len(all) : all[i][1] = s.runtime
  /\ \A i, j \in 1..Len(all) : i < j => all[i][2] < all[j][2]
  /\ s.runtime = published => \A i \in 1..Len(all) : all[i][2] <= count
  /\ s.overrun = FALSE => IsRun(all, s.runtime, s.start, Len(all))
  /\ s.overrun = FALSE /\ s.registered = TRUE /\ s.runtime = published =>
       s.start + Len(all) = count

Subscriptions ==
  [state : {"live", "cancelled", "gone"}, runtime : Nat, start : Nat, queue : Seq(Event),
   capacity : Nat, registered : BOOLEAN, closes : {0, 1}, overrun : BOOLEAN]

SubInv ==
  /\ runtime \in Nat /\ total \in Nat /\ logClosed \in BOOLEAN
  /\ got \in Seq(Event)
  /\ sub \in Subscriptions \cup {Log!NoSub}
  /\ sub = Log!NoSub => got = <<>>
  /\ sub \in Subscriptions =>
       /\ sub.runtime <= runtime
       /\ Len(sub.queue) <= sub.capacity
       /\ sub.registered = TRUE /\ logClosed = FALSE /\ sub.runtime = runtime => sub.closes = 0
       /\ Kept(got \o sub.queue, sub, runtime, total)

LEMMA NoSubscription == Log!NoSub \notin Subscriptions
  BY DEF Log!NoSub, Subscriptions

(* Subscription t with log p, c is s with log published, count some time   *)
(* later; nothing was sent to it meanwhile.                                *)
Continues(t, p, c, s, published, count) ==
  /\ t.runtime = s.runtime /\ t.start = s.start
  /\ t.overrun = FALSE => s.overrun = FALSE
  /\ t.registered = TRUE => s.registered = TRUE
  /\ t.runtime = p => published = p /\ count <= c
  /\ t.overrun = FALSE /\ t.registered = TRUE /\ t.runtime = p => c = count

LEMMA KeptOn ==
  ASSUME NEW all, NEW s, NEW published \in Nat, NEW count \in Nat, NEW t, NEW p \in Nat, NEW c \in Nat,
         Kept(all, s, published, count), Continues(t, p, c, s, published, count)
  PROVE  Kept(all, t, p, c)
<1>1. /\ all \in Seq(Event)
      /\ \A i \in 1..Len(all) : all[i][1] = t.runtime
      /\ \A i, j \in 1..Len(all) : i < j => all[i][2] < all[j][2]
  BY DEF Kept, Continues
<1>2. t.overrun = FALSE => IsRun(all, t.runtime, t.start, Len(all))
  BY DEF Kept, Continues
<1>3. ASSUME t.runtime = p, NEW i \in 1..Len(all) PROVE all[i][2] <= c
  <2>1. all[i] \in Event
    BY <1>1
  <2>2. all[i][2] \in Nat
    BY <2>1 DEF Event
  <2>3. all[i][2] <= count
    BY <1>3 DEF Kept, Continues
  <2> QED
    BY <1>3, <2>2, <2>3 DEF Continues
<1>4. t.overrun = FALSE /\ t.registered = TRUE /\ t.runtime = p => t.start + Len(all) = c
  BY DEF Kept, Continues
<1> QED
  BY <1>1, <1>2, <1>3, <1>4 DEF Kept

LEMMA KeptAppend ==
  ASSUME NEW all, NEW s, NEW count \in Nat, s.runtime \in Nat, s.start \in Nat,
         Kept(all, s, s.runtime, count), s.registered = TRUE,
         NEW e, e = Numbers(s.runtime, count + 1),
         NEW t, t.runtime = s.runtime, t.start = s.start, t.overrun = s.overrun
  PROVE  Kept(Append(all, e), t, t.runtime, count + 1)
<1>1. PICK n \in Nat, r \in Nat : n = Len(all) /\ r = s.runtime
  BY DEF Kept
<1>2. e \in Event /\ e[1] = r /\ e[2] = count + 1
  BY <1>1, EventParts
<1>3. PICK more : more = Append(all, e)
  OBVIOUS
<1>4. /\ more \in Seq(Event) /\ Len(more) = n + 1
      /\ \A i \in 1..n : more[i] = all[i]
      /\ more[n + 1] = e
  BY <1>1, <1>2, <1>3, AppendProperties DEF Kept
<1>5. \A i \in 1..n : all[i][1] = r /\ all[i][2] \in Nat /\ all[i][2] <= count
  <2> TAKE i \in 1..n
  <2>1. all[i] \in Event
    BY <1>1 DEF Kept
  <2> QED
    BY <1>1, <2>1 DEF Kept, Event
<1>6. \A i \in 1..(n + 1) : more[i][1] = r /\ more[i][2] <= count + 1
  <2>1. \A i \in 1..n : more[i][1] = r /\ more[i][2] <= count + 1
    BY <1>4, <1>5
  <2> QED
    BY <1>2, <1>4, <2>1
<1>7. \A i, j \in 1..(n + 1) : i < j => more[i][2] < more[j][2]
  <2> TAKE i, j \in 1..(n + 1)
  <2> HAVE i < j
  <2>1. i \in 1..n /\ more[i] = all[i]
    BY <1>4
  <2>2. CASE j \in 1..n
    BY <1>1, <1>4, <2>1, <2>2 DEF Kept
  <2>3. CASE j = n + 1
    BY <1>2, <1>4, <1>5, <2>1, <2>3
  <2> QED
    BY <2>2, <2>3
<1>8. ASSUME t.overrun = FALSE
      PROVE  IsRun(more, r, s.start, n + 1) /\ s.start + (n + 1) = count + 1
  <2>1. IsRun(all, r, s.start, n) /\ s.start + n = count
    BY <1>1, <1>8 DEF Kept
  <2>2. e = Numbers(r, s.start + n + 1)
    BY <1>1, <2>1
  <2> QED
    BY <1>1, <1>3, <2>1, <2>2, RunAppend
<1>9. /\ t.runtime = r /\ t.start = s.start /\ Len(more) = n + 1
  BY <1>1, <1>4
<1> QED
  BY <1>3, <1>4, <1>6, <1>7, <1>8, <1>9 DEF Kept

LEMMA SubInitially == Log!Init => SubInv
<1>1. <<>> \in Seq(Event)
  BY EmptySeq
<1> SUFFICES ASSUME Log!Init PROVE SubInv
  OBVIOUS
<1>2. runtime \in Nat /\ total \in Nat /\ got = <<>> /\ sub = Log!NoSub
  BY DEF Log!Init
<1>3. logClosed \in BOOLEAN
  BY DEF Log!Init
<1>4. sub \notin Subscriptions /\ got \in Seq(Event)
  BY <1>1, <1>2, NoSubscription
<1> QED
  BY <1>2, <1>3, <1>4 DEF SubInv

(* The steps of the stream leave the log and its subscription alone.       *)
LEMMA SubUntouched ==
  ASSUME SubInv, UNCHANGED <<runtime, total, logClosed, sub, got>>
  PROVE  SubInv'
  BY DEF SubInv

(* A step that moves no event and takes no subscription anew.              *)
LEMMA SubKept ==
  ASSUME SubInv, sub \in Subscriptions, got' = got,
         sub' \in Subscriptions, sub'.queue = sub.queue, sub'.capacity = sub.capacity,
         sub'.runtime = sub.runtime, sub'.start = sub.start, sub'.overrun = sub.overrun,
         sub'.registered = TRUE => sub.registered = TRUE,
         sub'.registered = TRUE /\ logClosed' = FALSE /\ sub.runtime = runtime' =>
           sub'.closes = 0,
         logClosed' \in BOOLEAN,
         \/ UNCHANGED <<runtime, total>>
         \/ runtime' = runtime + 1 /\ total' = 0
  PROVE  SubInv'
<1>1. Kept(got' \o sub'.queue, sub', runtime', total')
  <2>1. sub.runtime \in Nat /\ runtime \in Nat /\ total \in Nat
        /\ sub.runtime <= runtime /\ Kept(got \o sub.queue, sub, runtime, total)
    BY DEF SubInv, Subscriptions
  <2>2. PICK all : all = got \o sub.queue
    OBVIOUS
  <2>3. Kept(all, sub, runtime, total)
    BY <2>1, <2>2
  <2>4. runtime' \in Nat /\ total' \in Nat
    BY <2>1
  <2>5. sub'.runtime = runtime' => runtime = runtime' /\ total' = total
    BY <2>1
  <2>6. PICK s : s = sub
    OBVIOUS
  <2>7. PICK t : t = sub'
    OBVIOUS
  <2>8. PICK p \in Nat : p = runtime'
    BY <2>4
  <2>9. PICK c \in Nat : c = total'
    BY <2>4
  <2>10. PICK r \in Nat, n \in Nat : r = runtime /\ n = total
    BY <2>1
  <2>11. Kept(all, t, p, c)
    <3>1. Kept(all, s, r, n)
      BY <2>3, <2>6, <2>10
    <3>2. t.runtime = s.runtime /\ t.start = s.start
      BY <2>6, <2>7
    <3>3. t.overrun = FALSE => s.overrun = FALSE
      BY <2>6, <2>7
    <3>4. t.registered = TRUE => s.registered = TRUE
      BY <2>6, <2>7
    <3>5. t.runtime = p => r = p /\ c = n
      BY <2>5, <2>6, <2>7, <2>8, <2>9, <2>10
    <3>6. t.runtime = p => r = p /\ n <= c
      BY <3>5
    <3>7. t.overrun = FALSE /\ t.registered = TRUE /\ t.runtime = p => c = n
      BY <3>5
    <3>8. Continues(t, p, c, s, r, n)
      BY <3>2, <3>3, <3>4, <3>6, <3>7 DEF Continues
    <3> QED
      BY <3>1, <3>8, KeptOn
  <2> QED
    BY <2>2, <2>7, <2>8, <2>9, <2>11
<1>2. runtime' \in Nat /\ total' \in Nat /\ sub.runtime <= runtime'
  BY DEF SubInv, Subscriptions
<1>3. got' \in Seq(Event) /\ Len(sub'.queue) <= sub'.capacity
  BY DEF SubInv
<1> QED
  BY <1>1, <1>2, <1>3, NoSubscription DEF SubInv

LEMMA AppendBehind ==
  ASSUME NEW S, NEW s \in Seq(S), NEW t \in Seq(S), NEW e \in S
  PROVE  s \o Append(t, e) = Append(s \o t, e)
<1>1. PICK one \in Seq(S) : one = <<e>>
  <2>1. <<e>> \in Seq(S)
    OBVIOUS
  <2> QED
    BY <2>1
<1>2. PICK st : st = s \o t /\ st \in Seq(S)
  BY ConcatProperties
<1>3. Append(t, e) = t \o one /\ Append(st, e) = st \o one
  BY <1>1, <1>2, AppendIsConcat
<1>4. (s \o t) \o one = s \o (t \o one)
  BY <1>1, ConcatAssociative, SMTT(30)
<1> QED
  BY <1>2, <1>3, <1>4

LEMMA SubAppendEvent ==
  ASSUME SubInv, Log!AppendEvent
  PROVE  SubInv'
<1>1. /\ logClosed = FALSE /\ logClosed' = logClosed /\ runtime' = runtime
      /\ total' = total + 1 /\ got' = got
      /\ runtime \in Nat /\ total \in Nat /\ got \in Seq(Event)
  BY DEF Log!AppendEvent, SubInv
<1>2. CASE sub = Log!NoSub
  BY <1>1, <1>2, NoSubscription DEF Log!AppendEvent, SubInv
<1>3. CASE sub \in Subscriptions /\ ~(sub.registered /\ sub.runtime = runtime)
  <2>1. sub' = sub
    BY <1>3 DEF Log!AppendEvent
  <2>2. PICK all : all = got \o sub.queue /\ Kept(all, sub, runtime, total)
    BY <1>3 DEF SubInv
  <2>3. sub.registered \in BOOLEAN /\ total <= total + 1 /\ total + 1 \in Nat
    BY <1>1, <1>3 DEF Subscriptions
  <2>4. sub.runtime = runtime => sub.registered # TRUE
    BY <1>3
  <2>5. Continues(sub, runtime, total + 1, sub, runtime, total)
    BY <2>3, <2>4 DEF Continues
  <2>6. Kept(all, sub, runtime, total + 1)
    BY <1>1, <2>2, <2>3, <2>5, KeptOn
  <2> QED
    BY <1>1, <1>3, <2>1, <2>2, <2>6, NoSubscription DEF SubInv
<1>4. CASE sub \in Subscriptions /\ sub.registered /\ sub.runtime = runtime
  <2>1. sub # Log!NoSub
    BY <1>4, NoSubscription
  <2>2. PICK q \in Seq(Event), n \in Nat :
          /\ q = sub.queue /\ n = sub.capacity /\ Len(q) <= n
          /\ Kept(got \o q, sub, runtime, total)
    BY <1>4 DEF SubInv, Subscriptions
  <2>3. PICK e : e = Numbers(runtime, total + 1) /\ e \in Event
    BY <1>1, EventParts
  <2>4. sub' = Log!Sent(sub, e)
    BY <1>4, <2>1, <2>3 DEF Log!AppendEvent, Numbers
  <2>5. sub.registered = TRUE /\ sub.closes = 0 /\ sub.start \in Nat
    BY <1>1, <1>4 DEF SubInv, Subscriptions
  <2>6. CASE Len(q) < n
    <3>1. sub' = [sub EXCEPT !.queue = Append(q, e)]
      BY <2>2, <2>4, <2>6 DEF Log!Sent
    <3>2. PICK more \in Seq(Event) : more = Append(q, e) /\ Len(more) = Len(q) + 1
      <4>1. Append(q, e) \in Seq(Event) /\ Len(Append(q, e)) = Len(q) + 1
        BY <2>3, AppendProperties
      <4> QED
        BY <4>1
    <3>3. /\ sub' \in Subscriptions /\ sub'.queue = more /\ sub'.capacity = n
          /\ sub'.runtime = runtime /\ sub'.start = sub.start /\ sub'.overrun = sub.overrun
          /\ sub'.closes = 0
      BY <1>4, <2>2, <2>5, <3>1, <3>2 DEF Subscriptions
    <3>4. Len(q) \in Nat /\ Len(more) <= n
      BY <2>2, <2>6, <3>2, LenProperties
    <3>5. got \o more = Append(got \o q, e)
      <4>1. got \in Seq(Event) /\ e \in Event
        BY <1>1, <2>3
      <4>2. got \o Append(q, e) = Append(got \o q, e)
        BY <4>1, AppendBehind
      <4> QED
        BY <3>2, <4>2
    <3>6. Kept(Append(got \o q, e), sub', runtime, total + 1)
      <4>1. PICK all : all = got \o q /\ Kept(all, sub, sub.runtime, total)
        BY <1>4, <2>2
      <4>2. e = Numbers(sub.runtime, total + 1) /\ sub.runtime \in Nat
        BY <1>1, <1>4, <2>3
      <4>3. Kept(Append(all, e), sub', sub'.runtime, total + 1)
        BY <1>1, <1>4, <2>5, <3>3, <4>1, <4>2, KeptAppend
      <4> QED
        BY <3>3, <4>1, <4>3
    <3>7. Kept(got' \o sub'.queue, sub', runtime', total')
      BY <1>1, <3>3, <3>5, <3>6
    <3>8. total' \in Nat /\ sub'.runtime <= runtime' /\ Len(sub'.queue) <= sub'.capacity
      BY <1>1, <3>3, <3>4
    <3> QED
      BY <1>1, <3>3, <3>7, <3>8, NoSubscription DEF SubInv
  <2>7. CASE ~(Len(q) < n)
    <3>1. sub' = [sub EXCEPT !.overrun = TRUE]
      BY <2>2, <2>4, <2>7 DEF Log!Sent
    <3>2. /\ sub' \in Subscriptions /\ sub'.queue = q /\ sub'.capacity = n
          /\ sub'.runtime = runtime /\ sub'.start = sub.start /\ sub'.overrun = TRUE
          /\ sub'.registered = sub.registered /\ sub'.closes = 0
      BY <1>4, <2>2, <2>5, <3>1 DEF Subscriptions
    <3>3. PICK all : all = got \o q /\ Kept(all, sub, runtime, total)
      BY <2>2
    <3>4. total <= total + 1 /\ total + 1 \in Nat
      BY <1>1
    <3>5. PICK t : t = sub'
      OBVIOUS
    <3>6. Continues(t, runtime, total + 1, sub, runtime, total)
      BY <1>4, <3>2, <3>4, <3>5 DEF Continues
    <3>7. Kept(all, t, runtime, total + 1)
      BY <1>1, <3>3, <3>4, <3>6, KeptOn
    <3>8. Kept(got' \o sub'.queue, sub', runtime', total')
      BY <1>1, <3>2, <3>3, <3>5, <3>7
    <3>9. total' \in Nat /\ sub'.runtime <= runtime' /\ Len(sub'.queue) <= sub'.capacity
      BY <1>1, <2>2, <3>2
    <3> QED
      BY <1>1, <3>2, <3>8, <3>9, NoSubscription DEF SubInv
  <2> QED
    BY <2>6, <2>7
<1> QED
  BY <1>2, <1>3, <1>4 DEF SubInv, Subscriptions

LEMMA FirstMoves ==
  ASSUME NEW S, NEW s \in Seq(S), NEW t \in Seq(S), t # <<>>
  PROVE  Append(s, Head(t)) \o Tail(t) = s \o t
<1>1. PICK h \in S : h = Head(t)
  BY HeadTailProperties
<1>2. PICK u \in Seq(S) : u = Tail(t) /\ Len(u) = Len(t) - 1 /\ \A i \in 1..Len(u) : u[i] = t[i + 1]
  BY HeadTailProperties
<1>3. PICK one \in Seq(S) : one = <<h>>
  <2>1. <<h>> \in Seq(S)
    OBVIOUS
  <2> QED
    BY <2>1
<1>4. one \o u = t
  <2>1. Len(one) = 1 /\ one[1] = t[1]
    BY <1>1, <1>3
  <2>2. PICK w : w = one \o u
    OBVIOUS
  <2>7. /\ w \in Seq(S) /\ Len(w) = Len(one) + Len(u)
        /\ \A i \in 1..(Len(one) + Len(u)) :
             w[i] = IF i <= Len(one) THEN one[i] ELSE u[i - Len(one)]
    BY <2>2, ConcatProperties
  <2>3. Len(t) \in Nat /\ Len(u) \in Nat
    BY LenProperties
  <2>4. Len(w) = Len(t)
    BY <1>2, <2>1, <2>3, <2>7
  <2>5. \A i \in 1..Len(t) : w[i] = t[i]
    <3> TAKE i \in 1..Len(t)
    <3>1. w[i] = IF i <= 1 THEN one[i] ELSE u[i - 1]
      BY <1>2, <2>1, <2>3, <2>7
    <3>2. CASE i = 1
      BY <2>1, <3>1, <3>2
    <3>3. CASE i # 1
      <4>1. i - 1 \in 1..Len(u) /\ (i - 1) + 1 = i /\ ~(i <= 1)
        BY <1>2, <2>3, <3>3
      <4> QED
        BY <1>2, <3>1, <4>1
    <3> QED
      BY <3>2, <3>3
  <2>6. w = t
    BY <2>4, <2>5, <2>7, SeqEqual
  <2> QED
    BY <2>2, <2>6
<1>5. Append(s, h) = s \o one
  BY <1>3, AppendIsConcat
<1>6. (s \o one) \o u = s \o (one \o u)
  BY ConcatAssociative, SMTT(30)
<1> QED
  BY <1>1, <1>2, <1>4, <1>5, <1>6

LEMMA SubReceive ==
  ASSUME SubInv, Log!Receive
  PROVE  SubInv'
<1>1. sub \in Subscriptions /\ sub # Log!NoSub
  BY DEF Log!Receive, SubInv
<1>2. PICK q \in Seq(Event) : q = sub.queue /\ q # <<>>
  BY <1>1 DEF Log!Receive, Subscriptions
<1>3. PICK h, u : h = Head(q) /\ u = Tail(q)
  OBVIOUS
<1>4. h \in Event /\ u \in Seq(Event) /\ Len(u) = Len(q) - 1 /\ Len(q) \in Nat
  BY <1>2, <1>3, HeadTailProperties, LenProperties
<1>5. got' = Append(got, h) /\ sub' = [sub EXCEPT !.queue = u]
  BY <1>2, <1>3 DEF Log!Receive
<1>6. /\ sub' \in Subscriptions /\ sub'.queue = u /\ sub'.capacity = sub.capacity
      /\ sub'.runtime = sub.runtime /\ sub'.start = sub.start /\ sub'.overrun = sub.overrun
      /\ sub'.registered = sub.registered /\ sub'.closes = sub.closes
  BY <1>1, <1>4, <1>5 DEF Subscriptions
<1>7. runtime' = runtime /\ total' = total /\ logClosed' = logClosed
  BY DEF Log!Receive
<1>8. got \in Seq(Event) /\ got' \in Seq(Event)
  BY <1>4, <1>5, AppendProperties DEF SubInv
<1>9. got' \o sub'.queue = got \o q
  <2>1. Append(got, Head(q)) \o Tail(q) = got \o q
    BY <1>2, <1>8, FirstMoves
  <2> QED
    BY <1>3, <1>5, <1>6, <2>1
<1>10. Kept(got' \o sub'.queue, sub', runtime', total')
  <2>1. PICK all : all = got \o q /\ Kept(all, sub, runtime, total)
    BY <1>1, <1>2 DEF SubInv
  <2>2. Kept(all, sub', runtime, total)
    BY <1>6, <2>1 DEF Kept
  <2> QED
    BY <1>7, <1>9, <2>1, <2>2
<1>11. Len(sub'.queue) <= sub'.capacity
  BY <1>1, <1>2, <1>4, <1>6 DEF SubInv, Subscriptions
<1> QED
  BY <1>1, <1>6, <1>7, <1>8, <1>10, <1>11, NoSubscription DEF SubInv

LEMMA SubCancelSubscriber ==
  ASSUME SubInv, Log!CancelSubscriber
  PROVE  SubInv'
<1>1. sub \in Subscriptions
  BY DEF Log!CancelSubscriber, SubInv
<1>2. sub' = [sub EXCEPT !.state = "cancelled"]
  BY DEF Log!CancelSubscriber
<1>3. /\ sub' \in Subscriptions /\ sub'.queue = sub.queue /\ sub'.capacity = sub.capacity
      /\ sub'.runtime = sub.runtime /\ sub'.start = sub.start /\ sub'.overrun = sub.overrun
      /\ sub'.registered = sub.registered /\ sub'.closes = sub.closes
  BY <1>1, <1>2 DEF Subscriptions
<1>4. /\ runtime' = runtime /\ total' = total /\ logClosed' = logClosed /\ got' = got
      /\ logClosed' \in BOOLEAN
  BY DEF Log!CancelSubscriber, SubInv
<1>5. sub'.registered = TRUE /\ logClosed' = FALSE /\ sub.runtime = runtime' => sub'.closes = 0
  BY <1>1, <1>3, <1>4 DEF SubInv
<1> QED
  BY <1>1, <1>3, <1>4, <1>5, SubKept

LEMMA ChannelClosed ==
  ASSUME NEW s \in Subscriptions
  PROVE  /\ Log!CloseChannel(s) \in Subscriptions
         /\ Log!CloseChannel(s).queue = s.queue
         /\ Log!CloseChannel(s).capacity = s.capacity
         /\ Log!CloseChannel(s).runtime = s.runtime
         /\ Log!CloseChannel(s).start = s.start
         /\ Log!CloseChannel(s).overrun = s.overrun
         /\ Log!CloseChannel(s).registered = s.registered
         /\ Log!CloseChannel(s).closes = 1
<1>1. PICK t : t = Log!CloseChannel(s)
  OBVIOUS
<1>2. CASE s.closes = 0
  <2>1. t = [s EXCEPT !.closes = 1]
    BY <1>1, <1>2 DEF Log!CloseChannel
  <2>2. /\ t \in Subscriptions /\ t.queue = s.queue /\ t.capacity = s.capacity
        /\ t.runtime = s.runtime /\ t.start = s.start /\ t.overrun = s.overrun
        /\ t.registered = s.registered /\ t.closes = 1
    BY <2>1 DEF Subscriptions
  <2> QED
    BY <1>1, <2>2
<1>3. CASE s.closes # 0
  <2>1. t = s /\ s.closes = 1
    BY <1>1, <1>3 DEF Log!CloseChannel, Subscriptions
  <2> QED
    BY <1>1, <2>1
<1> QED
  BY <1>2, <1>3

LEMMA SubUnsubscribe ==
  ASSUME SubInv, Log!Unsubscribe
  PROVE  SubInv'
<1>1. sub \in Subscriptions
  BY DEF Log!Unsubscribe, SubInv
<1>2. PICK u : u = Log!Unregistered(sub)
  OBVIOUS
<1>3. /\ u \in Subscriptions /\ u.queue = sub.queue /\ u.capacity = sub.capacity
      /\ u.runtime = sub.runtime /\ u.start = sub.start /\ u.overrun = sub.overrun
      /\ u.registered = TRUE => sub.registered = TRUE
      /\ logClosed = FALSE /\ sub.runtime = runtime => u.registered = FALSE
  <2>1. CASE ~logClosed /\ sub.runtime = runtime
    <3>1. u = [sub EXCEPT !.registered = FALSE]
      BY <1>2, <2>1 DEF Log!Unregistered
    <3> QED
      BY <1>1, <3>1 DEF Subscriptions
  <2>2. CASE ~(~logClosed /\ sub.runtime = runtime)
    <3>1. u = sub
      BY <1>2, <2>2 DEF Log!Unregistered
    <3> QED
      BY <1>1, <2>2, <3>1
  <2> QED
    BY <2>1, <2>2
<1>4. PICK v : v = [u EXCEPT !.state = "gone"]
  OBVIOUS
<1>5. /\ v \in Subscriptions /\ v.queue = sub.queue /\ v.capacity = sub.capacity
      /\ v.runtime = sub.runtime /\ v.start = sub.start /\ v.overrun = sub.overrun
      /\ v.registered = u.registered
  BY <1>3, <1>4 DEF Subscriptions
<1>6. sub' = Log!CloseChannel(v)
  BY <1>2, <1>4 DEF Log!Unsubscribe
<1>7. /\ sub' \in Subscriptions /\ sub'.queue = sub.queue /\ sub'.capacity = sub.capacity
      /\ sub'.runtime = sub.runtime /\ sub'.start = sub.start /\ sub'.overrun = sub.overrun
      /\ sub'.registered = u.registered
  BY <1>5, <1>6, ChannelClosed
<1>8. /\ runtime' = runtime /\ total' = total /\ logClosed' = logClosed /\ got' = got
      /\ logClosed' \in BOOLEAN
  BY DEF Log!Unsubscribe, SubInv
<1>9. /\ sub'.registered = TRUE => sub.registered = TRUE
      /\ sub'.registered = TRUE /\ logClosed' = FALSE /\ sub.runtime = runtime' => sub'.closes = 0
  BY <1>3, <1>7, <1>8
<1> QED
  BY <1>1, <1>7, <1>8, <1>9, SubKept

LEMMA SubReplaceScenario ==
  ASSUME SubInv, Log!ReplaceScenario
  PROVE  SubInv'
<1>1. /\ runtime' = runtime + 1 /\ total' = 0 /\ logClosed' = logClosed /\ got' = got
      /\ sub' = sub /\ logClosed' \in BOOLEAN /\ runtime \in Nat
  BY DEF Log!ReplaceScenario, SubInv
<1>2. CASE sub \in Subscriptions
  <2>1. sub.runtime # runtime'
    BY <1>1, <1>2 DEF SubInv, Subscriptions
  <2> QED
    BY <1>1, <1>2, <2>1, SubKept
<1>3. CASE sub = Log!NoSub
  BY <1>1, <1>3, NoSubscription DEF SubInv
<1> QED
  BY <1>2, <1>3 DEF SubInv

LEMMA SubClose ==
  ASSUME SubInv, Log!Close
  PROVE  SubInv'
<1>1. /\ runtime' = runtime /\ total' = total /\ logClosed' = TRUE /\ got' = got /\ sub' = sub
  BY DEF Log!Close
<1>2. CASE sub \in Subscriptions
  BY <1>1, <1>2, SubKept
<1>3. CASE sub = Log!NoSub
  BY <1>1, <1>3, NoSubscription DEF SubInv
<1> QED
  BY <1>2, <1>3 DEF SubInv

LEMMA SubCloseRuntime ==
  ASSUME SubInv, NEW r \in retired, Log!CloseRuntime(r)
  PROVE  SubInv'
<1>1. /\ runtime' = runtime /\ total' = total /\ logClosed' = logClosed /\ got' = got
      /\ logClosed' \in BOOLEAN
  BY DEF Log!CloseRuntime, SubInv
<1>2. CASE Log!SubscribedTo(r)
  <2>1. sub \in Subscriptions
    BY <1>2 DEF Log!SubscribedTo, SubInv
  <2>2. PICK u : u = [sub EXCEPT !.registered = FALSE]
    OBVIOUS
  <2>3. /\ u \in Subscriptions /\ u.queue = sub.queue /\ u.capacity = sub.capacity
        /\ u.runtime = sub.runtime /\ u.start = sub.start /\ u.overrun = sub.overrun
        /\ u.registered = FALSE
    BY <2>1, <2>2 DEF Subscriptions
  <2>4. sub' = Log!CloseChannel(u)
    BY <1>2, <2>2 DEF Log!CloseRuntime
  <2>5. /\ sub' \in Subscriptions /\ sub'.queue = sub.queue /\ sub'.capacity = sub.capacity
        /\ sub'.runtime = sub.runtime /\ sub'.start = sub.start /\ sub'.overrun = sub.overrun
        /\ sub'.registered = FALSE
    BY <2>3, <2>4, ChannelClosed
  <2> QED
    BY <1>1, <2>1, <2>5, SubKept
<1>3. CASE ~Log!SubscribedTo(r)
  <2>1. sub' = sub
    BY <1>3 DEF Log!CloseRuntime
  <2> QED
    BY <1>1, <2>1, SubUntouched DEF Log!CloseRuntime
<1> QED
  BY <1>2, <1>3

LEMMA SubSubscribe ==
  ASSUME Log!EventAssumption, SubInv, NEW cursor \in Nat, Log!Subscribe(cursor)
  PROVE  SubInv'
<1>1. /\ runtime \in Nat /\ total \in Nat /\ logClosed = FALSE /\ got = <<>>
      /\ runtime' = runtime /\ total' = total /\ logClosed' = logClosed /\ got' = got
  BY DEF Log!Subscribe, SubInv
<1>2. PICK r \in Nat, k \in Nat : r = runtime /\ k = Log!Smaller(cursor, total) /\ k <= total
  <2>1. Log!Smaller(cursor, total) \in Nat /\ Log!Smaller(cursor, total) <= total
    BY <1>1 DEF Log!Smaller
  <2> QED
    BY <1>1, <2>1
<1>3. PICK n \in Nat : n = total - k /\ total = k + n
  <2>1. total - k \in Nat /\ total = k + (total - k)
    BY <1>1, <1>2
  <2> QED
    BY <2>1
<1>4. PICK q : q = Log!Events(r, k + 1, k + n) /\ IsRun(q, r, k, n)
  BY EventsRun
<1>5. PICK c \in Nat : c = Log!Capacity(n) /\ n <= c
  <2>1. MinBuffer \in Nat /\ SubscribeLimit \in Nat
    BY DEF Log!EventAssumption
  <2>2. Log!Capacity(n) \in Nat /\ n <= Log!Capacity(n)
    BY <2>1 DEF Log!Capacity, Log!Larger
  <2> QED
    BY <2>2
<1>6. sub' = [state |-> "live", runtime |-> r, start |-> k, queue |-> q, capacity |-> c,
              registered |-> TRUE, closes |-> 0, overrun |-> FALSE]
  BY <1>2, <1>3, <1>4, <1>5 DEF Log!Subscribe
<1>7. /\ sub' \in Subscriptions /\ sub'.runtime = r /\ sub'.start = k /\ sub'.queue = q
      /\ sub'.capacity = c /\ sub'.registered = TRUE /\ sub'.closes = 0 /\ sub'.overrun = FALSE
  BY <1>4, <1>6 DEF Subscriptions, IsRun
<1>8. got' \o sub'.queue = q
  BY <1>1, <1>4, <1>7, ConcatEmptySeq DEF IsRun
<1>9. Kept(got' \o sub'.queue, sub', runtime', total')
  <2>1. /\ q \in Seq(Event) /\ Len(q) = n
        /\ \A i \in 1..n : q[i][1] = r /\ q[i][2] = k + i
    <3>1. \A i \in 1..n : q[i] = Numbers(r, k + i) /\ k + i \in Nat
      BY <1>4 DEF IsRun
    <3>2. ASSUME NEW i \in 1..n PROVE q[i][1] = r /\ q[i][2] = k + i
      BY <3>1, EventParts
    <3>3. q \in Seq(Event) /\ Len(q) = n
      BY <1>4 DEF IsRun
    <3> QED
      BY <3>2, <3>3
  <2>2. \A i \in 1..n : q[i][2] <= total
    BY <1>3, <2>1
  <2>3. \A i, j \in 1..n : i < j => q[i][2] < q[j][2]
    BY <2>1
  <2>4. PICK s : s = sub'
    OBVIOUS
  <2>5. s.runtime = r /\ s.start = k
    BY <1>7, <2>4
  <2>6. Kept(q, s, runtime, total)
    BY <1>3, <1>4, <2>1, <2>2, <2>3, <2>5 DEF Kept
  <2> QED
    BY <1>1, <1>8, <2>4, <2>6
<1>10. /\ sub'.runtime <= runtime' /\ Len(sub'.queue) <= sub'.capacity
       /\ got' \in Seq(Event)
  BY <1>1, <1>2, <1>4, <1>5, <1>7 DEF IsRun, SubInv
<1> QED
  BY <1>1, <1>7, <1>9, <1>10, NoSubscription DEF SubInv

LEMMA SubStep == Log!EventAssumption /\ SubInv /\ [Log!Next]_(Log!vars) => SubInv'
<1> SUFFICES ASSUME Log!EventAssumption, SubInv, [Log!Next]_(Log!vars)
             PROVE  SubInv'
  OBVIOUS
<1>1. CASE Log!AppendEvent
  BY <1>1, SubAppendEvent
<1>2. CASE Log!Receive
  BY <1>2, SubReceive
<1>3. CASE Log!CancelSubscriber
  BY <1>3, SubCancelSubscriber
<1>4. CASE Log!Unsubscribe
  BY <1>4, SubUnsubscribe
<1>5. ASSUME NEW cursor \in 0..MaxEvents, Log!Subscribe(cursor) PROVE SubInv'
  BY <1>5, SubSubscribe
<1>6. CASE Log!ReplaceScenario
  BY <1>6, SubReplaceScenario
<1>7. CASE Log!Close
  BY <1>7, SubClose
<1>8. ASSUME NEW r \in retired, Log!CloseRuntime(r) PROVE SubInv'
  BY <1>8, SubCloseRuntime
<1>9. CASE Log!Connect \/ Log!Poll \/ Log!Send \/ Log!Tick \/ Log!Deliver \/ Log!Disconnect
  BY <1>9, SubUntouched
     DEF Log!Connect, Log!Poll, Log!Send, Log!Tick, Log!Deliver, Log!Disconnect
<1>10. CASE UNCHANGED Log!vars
  BY <1>10, SubUntouched DEF Log!vars
<1> QED
  BY <1>1, <1>2, <1>3, <1>4, <1>5, <1>6, <1>7, <1>8, <1>9, <1>10 DEF Log!Next

LEMMA SubAlways == ASSUME Log!EventAssumption PROVE Log!Spec => []SubInv
<1>1. SubInv /\ [Log!Next]_(Log!vars) => SubInv'
  BY SubStep
<1>2. Log!Spec => Log!Init /\ [][Log!Next]_(Log!vars)
  BY DEF Log!Spec
<1> QED
  BY <1>1, <1>2, SubInitially, PTL

(* A subscriber gets the events after its cursor in order, none twice and  *)
(* none missing but those that met a full buffer, through any number of    *)
(* replacements.                                                           *)
THEOREM SubscriberInOrder == Log!EventAssumption /\ Log!Spec => []Log!SubscriberOrder
<1> SUFFICES ASSUME Log!EventAssumption PROVE Log!Spec => []Log!SubscriberOrder
  OBVIOUS
<1>1. ASSUME SubInv PROVE Log!SubscriberOrder
  <2> SUFFICES ASSUME sub # Log!NoSub PROVE Log!SubscriberOrder
    BY DEF Log!SubscriberOrder
  <2>1. sub \in Subscriptions /\ runtime \in Nat /\ total \in Nat
    BY <1>1 DEF SubInv
  <2>2. PICK all : all = got \o sub.queue
    OBVIOUS
  <2>3. Kept(all, sub, runtime, total)
    BY <1>1, <2>1, <2>2 DEF SubInv
  <2>4. /\ \A i \in 1..Len(all) : all[i][1] = sub.runtime
        /\ \A i, j \in 1..Len(all) : i < j => all[i][2] < all[j][2]
    BY <2>3 DEF Kept
  <2>5. ASSUME ~sub.overrun
        PROVE  all = Log!Events(sub.runtime, sub.start + 1, sub.start + Len(all))
    <3>1. PICK r \in Nat, k \in Nat, n \in Nat : r = sub.runtime /\ k = sub.start /\ n = Len(all)
      <4>1. sub.runtime \in Nat /\ sub.start \in Nat
        BY <2>1 DEF Subscriptions
      <4>2. Len(all) \in Nat
        BY <2>3, LenProperties DEF Kept
      <4> QED
        BY <4>1, <4>2
    <3>2. sub.overrun = FALSE
      BY <2>1, <2>5 DEF Subscriptions
    <3>3. IsRun(all, r, k, n)
      BY <2>3, <3>1, <3>2 DEF Kept
    <3> QED
      BY <3>1, <3>3, RunIsEvents
  <2>6. ASSUME ~sub.overrun, sub.registered, sub.runtime = runtime
        PROVE  sub.start + Len(all) = total
    <3>1. sub.overrun = FALSE /\ sub.registered = TRUE
      BY <2>1, <2>6 DEF Subscriptions
    <3> QED
      BY <2>3, <2>6, <3>1 DEF Kept
  <2> QED
    BY <2>2, <2>4, <2>5, <2>6 DEF Log!SubscriberOrder
<1>2. Log!Spec => []SubInv
  BY SubAlways
<1> QED
  BY <1>1, <1>2, PTL

(* The channel of a subscription is never over its capacity, it is closed  *)
(* at most once, and appendEvent never sends to it afterwards.             *)
THEOREM ChannelStaysSound == Log!EventAssumption /\ Log!Spec => []Log!ChannelSound
<1> SUFFICES ASSUME Log!EventAssumption PROVE Log!Spec => []Log!ChannelSound
  OBVIOUS
<1>1. SubInv => Log!ChannelSound
  <2> SUFFICES ASSUME SubInv, sub # Log!NoSub PROVE Log!ChannelSound
    BY DEF Log!ChannelSound
  <2>1. sub \in Subscriptions
    BY DEF SubInv
  <2>2. Len(sub.queue) <= sub.capacity
    BY <2>1 DEF SubInv
  <2>3. sub.closes <= 1
    BY <2>1 DEF Subscriptions
  <2>4. ~logClosed /\ sub.registered /\ sub.runtime = runtime => sub.closes = 0
    BY <2>1 DEF SubInv, Subscriptions
  <2> QED
    BY <2>2, <2>3, <2>4 DEF Log!ChannelSound
<1>2. Log!Spec => []SubInv
  BY SubAlways
<1> QED
  BY <1>1, <1>2, PTL

-------------------------------------------------------------------------------
(* The stream of the HTTP client.                                          *)
Streams ==
  [state : {"poll", "send", "ended"}, cursor : Nat, page : Seq(Event), result : Seq(Event)]

StreamTyped ==
  /\ runtime \in 0..MaxReplacements /\ total \in 0..MaxEvents
  /\ retired \subseteq 0..MaxReplacements
  /\ seen \in Seq(Event)
  /\ stream \in Streams \cup {Log!NoStream}
  /\ stream \in Streams => Len(stream.result) <= StreamBuffer

(* What stream s has polled after the events seen, of the count there are. *)
Flows(s, last, count) ==
  /\ s.cursor = last + Len(s.result) /\ s.cursor <= count
  /\ IsRun(s.result, 0, last, Len(s.result))
  /\ s.state = "send" =>
       IsRun(s.page, 0, s.cursor, Len(s.page)) /\ s.cursor + Len(s.page) <= count

InFlow ==
  /\ runtime = 0
  /\ IsRun(seen, 0, 0, Len(seen)) /\ Len(seen) <= total
  /\ stream \in Streams => Flows(stream, Len(seen), total)

LEMMA NotStreaming == Log!NoStream \notin Streams /\ Log!NoStream.state = "off"
  BY DEF Log!NoStream, Streams

LEMMA RunTail ==
  ASSUME NEW r \in Nat, NEW k \in Nat, NEW n \in Nat, NEW s, IsRun(s, r, k, n), s # <<>>
  PROVE  /\ n # 0 /\ Head(s) = Numbers(r, k + 1)
         /\ IsRun(Tail(s), r, k + 1, n - 1)
<1>1. s \in Seq(Event) /\ Len(s) = n /\ \A i \in 1..n : s[i] = Numbers(r, k + i)
  BY DEF IsRun
<1>2. n # 0
  BY <1>1, EmptySeq
<1>3. Head(s) = Numbers(r, k + 1)
  BY <1>1, <1>2
<1>4. PICK t : t = Tail(s)
  OBVIOUS
<1>7. /\ t \in Seq(Event) /\ Len(t) = Len(s) - 1
      /\ \A i \in 1..Len(t) : t[i] = s[i + 1]
  BY <1>1, <1>4, HeadTailProperties
<1>5. ASSUME NEW i \in 1..(n - 1) PROVE t[i] = Numbers(r, (k + 1) + i)
  <2>1. i + 1 \in 1..n /\ k + (i + 1) = (k + 1) + i
    OBVIOUS
  <2> QED
    BY <1>1, <1>7, <2>1
<1>6. IsRun(t, r, k + 1, n - 1)
  BY <1>1, <1>5, <1>7 DEF IsRun
<1> QED
  BY <1>2, <1>3, <1>4, <1>6

(* A page is a run of the log after the cursor.                            *)
LEMMA PageRun ==
  ASSUME PageLimit \in Nat, runtime \in Nat, total \in Nat, NEW cursor \in Nat
  PROVE  \E n \in Nat :
           /\ IsRun(Log!PageAfter(cursor), runtime, Log!Smaller(cursor, total), n)
           /\ Log!Smaller(cursor, total) + n <= total
           /\ Log!Smaller(cursor, total) \in Nat
<1>1. PICK k \in Nat : k = Log!Smaller(cursor, total) /\ k <= total
  <2>1. Log!Smaller(cursor, total) \in Nat /\ Log!Smaller(cursor, total) <= total
    BY DEF Log!Smaller
  <2> QED
    BY <2>1
<1>2. PICK e \in Nat :
        /\ e = IF k < total /\ PageLimit < total - k THEN k + PageLimit ELSE total
        /\ k <= e /\ e <= total
  <2>1. CASE k < total /\ PageLimit < total - k
    BY <1>1, <2>1
  <2>2. CASE ~(k < total /\ PageLimit < total - k)
    BY <1>1, <2>2
  <2> QED
    BY <2>1, <2>2
<1>3. PICK n \in Nat : n = e - k
  <2>1. e - k \in Nat
    BY <1>2
  <2> QED
    BY <2>1
<1>4. e = k + n
  BY <1>2, <1>3
<1>5. PICK r \in Nat : r = runtime
  OBVIOUS
<1>6. Log!PageAfter(cursor) = Log!Events(r, k + 1, k + n)
  BY <1>1, <1>2, <1>4, <1>5 DEF Log!PageAfter
<1>7. IsRun(Log!PageAfter(cursor), r, k, n)
  BY <1>6, EventsRun
<1> QED
  BY <1>1, <1>2, <1>4, <1>5, <1>7

LEMMA StreamUntouched ==
  ASSUME StreamTyped, seen' = seen, stream' = stream,
         runtime' \in 0..MaxReplacements, total' \in 0..MaxEvents,
         retired' \subseteq 0..MaxReplacements
  PROVE  /\ StreamTyped'
         /\ runtime' = 0 /\ total <= total' /\ InFlow => InFlow'
<1>1. StreamTyped'
  BY DEF StreamTyped
<1>2. ASSUME runtime' = 0, total <= total', InFlow PROVE InFlow'
  <2>1. PICK m \in Nat, n \in Nat, p \in Nat :
          /\ m = total /\ n = total' /\ m <= n /\ p = Len(seen)
    <3>1. total \in Nat /\ total' \in Nat /\ Len(seen) \in Nat
      BY LenProperties DEF StreamTyped
    <3> QED
      BY <1>2, <3>1
  <2>2. IsRun(seen, 0, 0, p) /\ p <= m
    BY <1>2, <2>1 DEF InFlow
  <2>3. ASSUME stream \in Streams PROVE Flows(stream, p, n)
    <3>1. Flows(stream, p, m)
      BY <1>2, <2>1, <2>3 DEF InFlow
    <3>2. PICK c \in Nat, l \in Nat : c = stream.cursor /\ l = Len(stream.page)
      <4>1. stream.cursor \in Nat /\ Len(stream.page) \in Nat
        BY <2>3, LenProperties DEF Streams
      <4> QED
        BY <4>1
    <3>3. c <= m /\ (stream.state = "send" => c + l <= m)
      BY <3>1, <3>2 DEF Flows
    <3>4. c <= n /\ (stream.state = "send" => c + l <= n)
      BY <2>1, <3>3
    <3> QED
      BY <3>1, <3>2, <3>4 DEF Flows
  <2>4. p <= n
    BY <2>1, <2>2
  <2> QED
    BY <1>2, <2>1, <2>2, <2>3, <2>4 DEF InFlow
<1> QED
  BY <1>1, <1>2

LEMMA SeenLast ==
  ASSUME StreamTyped
  PROVE  /\ Log!LastSeen \in Nat
         /\ InFlow => Log!LastSeen = Len(seen)
<1>1. seen \in Seq(Event)
  BY DEF StreamTyped
<1>2. CASE seen = <<>>
  <2>1. Log!LastSeen = 0 /\ Len(seen) = 0
    BY <1>2 DEF Log!LastSeen
  <2> QED
    BY <2>1
<1>3. CASE seen # <<>>
  <2>1. PICK n \in Nat : n = Len(seen) /\ n # 0
    BY <1>1, <1>3, EmptySeq, LenProperties
  <2>2. Log!LastSeen = seen[n][2]
    BY <1>3, <2>1 DEF Log!LastSeen, Log!Last
  <2>3. seen[n] \in Event
    BY <1>1, <2>1
  <2>4. ASSUME InFlow PROVE seen[n][2] = n
    <3>1. seen[n] = Numbers(0, 0 + n)
      BY <2>1, <2>4 DEF InFlow, IsRun
    <3> QED
      BY <2>1, <3>1, EventParts
  <2> QED
    BY <2>1, <2>2, <2>3, <2>4 DEF Event
<1> QED
  BY <1>2, <1>3

LEMMA StreamConnect ==
  ASSUME Log!EventAssumption, StreamTyped, Log!Connect
  PROVE  StreamTyped' /\ (InFlow => InFlow')
<1>1. /\ runtime' = runtime /\ total' = total /\ retired' = retired /\ seen' = seen
      /\ stream' = [state |-> "poll", cursor |-> Log!LastSeen, page |-> <<>>, result |-> <<>>]
  BY DEF Log!Connect
<1>2. PICK e : e = <<>> /\ e \in Seq(Event) /\ Len(e) = 0
  BY EmptySeq
<1>3. PICK c \in Nat : c = Log!LastSeen
  BY SeenLast
<1>4. /\ stream' \in Streams /\ stream'.result = e /\ stream'.cursor = c
      /\ stream'.state = "poll"
  BY <1>1, <1>2, <1>3 DEF Streams
<1>5. StreamBuffer \in Nat
  BY DEF Log!EventAssumption
<1>6. StreamTyped'
  BY <1>1, <1>2, <1>4, <1>5 DEF StreamTyped
<1>7. ASSUME InFlow PROVE InFlow'
  <2>1. c = Len(seen) /\ Len(seen) <= total
    BY <1>3, <1>7, SeenLast DEF InFlow
  <2>2. IsRun(e, 0, c, 0)
    BY <1>2 DEF IsRun
  <2>3. PICK s : s = stream'
    OBVIOUS
  <2>4. Flows(s, c, total)
    BY <1>2, <1>4, <2>1, <2>2, <2>3 DEF Flows
  <2> QED
    BY <1>1, <1>4, <1>7, <2>1, <2>3, <2>4 DEF InFlow
<1> QED
  BY <1>6, <1>7

LEMMA StreamPoll ==
  ASSUME Log!EventAssumption, StreamTyped, Log!Poll
  PROVE  StreamTyped' /\ (InFlow => InFlow')
<1>1. /\ runtime' = runtime /\ total' = total /\ retired' = retired /\ seen' = seen
      /\ stream.state = "poll"
  BY DEF Log!Poll
<1>2. stream \in Streams
  BY <1>1, NotStreaming DEF StreamTyped
<1>3. CASE logClosed
  <2>1. stream' = [stream EXCEPT !.state = "ended"]
    BY <1>3 DEF Log!Poll
  <2>2. /\ stream' \in Streams /\ stream'.result = stream.result
        /\ stream'.cursor = stream.cursor /\ stream'.state = "ended"
    BY <1>2, <2>1 DEF Streams
  <2>3. StreamTyped'
    BY <1>1, <1>2, <2>2 DEF StreamTyped
  <2>4. ASSUME InFlow PROVE InFlow'
    <3>1. PICK s : s = stream'
      OBVIOUS
    <3>2. PICK p, m : p = Len(seen) /\ m = total
      OBVIOUS
    <3>3. Flows(stream, p, m)
      BY <1>2, <2>4, <3>2 DEF InFlow
    <3>4. Flows(s, p, m)
      BY <2>2, <3>1, <3>3 DEF Flows
    <3> QED
      BY <1>1, <2>2, <2>4, <3>1, <3>2, <3>4 DEF InFlow
  <2> QED
    BY <2>3, <2>4
<1>4. CASE ~logClosed
  <2>1. PICK c \in Nat, m \in Nat : c = stream.cursor /\ m = total
    BY <1>2 DEF Streams, StreamTyped
  <2>2. PICK page : page = Log!PageAfter(c)
    OBVIOUS
  <2>3. stream' = [stream EXCEPT !.state = "send", !.page = page]
    BY <1>4, <2>1, <2>2 DEF Log!Poll
  <2>4. PageLimit \in Nat /\ runtime \in Nat /\ total \in Nat
    BY DEF Log!EventAssumption, StreamTyped
  <2>5. PICK n \in Nat, r \in Nat, k \in Nat :
          /\ r = runtime /\ k = Log!Smaller(c, total)
          /\ IsRun(page, r, k, n) /\ k + n <= total
    BY <2>2, <2>4, PageRun
  <2>6. /\ stream' \in Streams /\ stream'.result = stream.result /\ stream'.cursor = c
        /\ stream'.state = "send" /\ stream'.page = page
    BY <1>2, <2>1, <2>3, <2>5 DEF Streams, IsRun
  <2>7. StreamTyped'
    BY <1>1, <1>2, <2>6 DEF StreamTyped
  <2>8. ASSUME InFlow PROVE InFlow'
    <3>1. PICK s : s = stream'
      OBVIOUS
    <3>2. PICK p : p = Len(seen)
      OBVIOUS
    <3>3. Flows(stream, p, m)
      BY <1>2, <2>1, <2>8, <3>2 DEF InFlow
    <3>4. c <= m
      BY <2>1, <3>3 DEF Flows
    <3>5. k = c /\ r = 0
      BY <2>1, <2>5, <2>8, <3>4 DEF Log!Smaller, InFlow
    <3>6. Len(page) = n
      BY <2>5 DEF IsRun
    <3>7. Flows(s, p, m)
      BY <2>1, <2>5, <2>6, <3>1, <3>3, <3>5, <3>6 DEF Flows
    <3> QED
      BY <1>1, <2>1, <2>6, <2>8, <3>1, <3>2, <3>7 DEF InFlow
  <2> QED
    BY <2>7, <2>8
<1> QED
  BY <1>3, <1>4

LEMMA StreamSend ==
  ASSUME Log!EventAssumption, StreamTyped, Log!Send
  PROVE  StreamTyped' /\ (InFlow => InFlow')
<1>1. /\ runtime' = runtime /\ total' = total /\ retired' = retired /\ seen' = seen
      /\ stream.state = "send"
  BY DEF Log!Send
<1>2. stream \in Streams
  BY <1>1, NotStreaming DEF StreamTyped
<1>3. PICK page \in Seq(Event), result \in Seq(Event), c \in Nat, l \in Nat, z \in Nat :
        /\ page = stream.page /\ result = stream.result /\ c = stream.cursor
        /\ l = Len(result) /\ z = Len(page)
  <2>1. stream.page \in Seq(Event) /\ stream.result \in Seq(Event) /\ stream.cursor \in Nat
    BY <1>2 DEF Streams
  <2>2. Len(stream.page) \in Nat /\ Len(stream.result) \in Nat
    BY <2>1, LenProperties
  <2> QED
    BY <2>1, <2>2
<1>4. page # <<>> /\ l < StreamBuffer
  BY <1>3 DEF Log!Send
<1>5. PICK h : h = Head(page) /\ h \in Event
  BY <1>4, HeadTailProperties
<1>6. PICK d \in Nat : d = h[2]
  BY <1>5 DEF Event
<1>7. PICK rest \in Seq(Event) : rest = Tail(page) /\ Len(rest) = z - 1
  BY <1>3, <1>4, HeadTailProperties
<1>8. PICK more \in Seq(Event) : more = Append(result, h) /\ Len(more) = l + 1
  <2>1. Append(result, h) \in Seq(Event) /\ Len(Append(result, h)) = l + 1
    BY <1>3, <1>5, AppendProperties
  <2> QED
    BY <2>1
<1>9. stream' = [stream EXCEPT !.page = rest, !.cursor = d, !.result = more]
  BY <1>3, <1>5, <1>6, <1>7, <1>8 DEF Log!Send
<1>10. /\ stream' \in Streams /\ stream'.page = rest /\ stream'.cursor = d
       /\ stream'.result = more /\ stream'.state = "send"
  BY <1>1, <1>2, <1>9 DEF Streams
<1>11. StreamTyped'
  <2>1. l + 1 <= StreamBuffer
    BY <1>4 DEF Log!EventAssumption
  <2> QED
    BY <1>1, <1>8, <1>10, <2>1 DEF StreamTyped
<1>12. ASSUME InFlow PROVE InFlow'
  <2>1. PICK p \in Nat, m \in Nat : p = Len(seen) /\ m = total
    <3>1. Len(seen) \in Nat /\ total \in Nat
      BY LenProperties DEF StreamTyped
    <3> QED
      BY <3>1
  <2>2. Flows(stream, p, m)
    BY <1>2, <1>12, <2>1 DEF InFlow
  <2>3. c = p + l /\ IsRun(result, 0, p, l) /\ IsRun(page, 0, c, z) /\ c + z <= m
    BY <1>1, <1>3, <2>2 DEF Flows
  <2>4. z # 0 /\ h = Numbers(0, c + 1) /\ IsRun(rest, 0, c + 1, z - 1)
    BY <1>4, <1>5, <1>7, <2>3, RunTail
  <2>5. d = c + 1
    BY <1>6, <2>4, EventParts
  <2>6. IsRun(more, 0, p, l + 1)
    <3>1. h = Numbers(0, p + l + 1)
      BY <2>3, <2>4
    <3> QED
      BY <1>8, <2>3, <3>1, RunAppend
  <2>7. d = p + (l + 1) /\ d <= m /\ d + (z - 1) <= m
    BY <2>3, <2>4, <2>5
  <2>8. PICK s : s = stream'
    OBVIOUS
  <2>9. IsRun(rest, 0, d, z - 1)
    BY <2>4, <2>5
  <2>10. Flows(s, p, m)
    BY <1>7, <1>8, <1>10, <2>6, <2>7, <2>8, <2>9 DEF Flows
  <2> QED
    BY <1>1, <1>10, <1>12, <2>1, <2>8, <2>10 DEF InFlow
<1> QED
  BY <1>11, <1>12

LEMMA StreamTick ==
  ASSUME StreamTyped, Log!Tick
  PROVE  StreamTyped' /\ (InFlow => InFlow')
<1>1. /\ runtime' = runtime /\ total' = total /\ retired' = retired /\ seen' = seen
      /\ stream.state = "send" /\ stream' = [stream EXCEPT !.state = "poll"]
  BY DEF Log!Tick
<1>2. stream \in Streams
  BY <1>1, NotStreaming DEF StreamTyped
<1>3. /\ stream' \in Streams /\ stream'.result = stream.result
      /\ stream'.cursor = stream.cursor /\ stream'.state = "poll"
  BY <1>1, <1>2 DEF Streams
<1>4. StreamTyped'
  BY <1>1, <1>2, <1>3 DEF StreamTyped
<1>5. ASSUME InFlow PROVE InFlow'
  <2>1. PICK s : s = stream'
    OBVIOUS
  <2>2. PICK p, m : p = Len(seen) /\ m = total
    OBVIOUS
  <2>3. Flows(stream, p, m)
    BY <1>2, <1>5, <2>2 DEF InFlow
  <2>4. Flows(s, p, m)
    BY <1>3, <2>1, <2>3 DEF Flows
  <2> QED
    BY <1>1, <1>3, <1>5, <2>1, <2>2, <2>4 DEF InFlow
<1> QED
  BY <1>4, <1>5

LEMMA StreamDeliver ==
  ASSUME Log!EventAssumption, StreamTyped, Log!Deliver
  PROVE  StreamTyped' /\ (InFlow => InFlow')
<1>1. /\ runtime' = runtime /\ total' = total /\ retired' = retired /\ stream.state # "off"
  BY DEF Log!Deliver
<1>2. stream \in Streams
  BY <1>1, NotStreaming DEF StreamTyped
<1>3. PICK result \in Seq(Event), l \in Nat, p \in Nat, m \in Nat :
        /\ result = stream.result /\ l = Len(result) /\ p = Len(seen) /\ m = total
  <2>1. stream.result \in Seq(Event) /\ total \in Nat
    BY <1>2 DEF Streams, StreamTyped
  <2>2. Len(stream.result) \in Nat /\ Len(seen) \in Nat
    BY <2>1, LenProperties DEF StreamTyped
  <2> QED
    BY <2>1, <2>2
<1>4. result # <<>>
  BY <1>3 DEF Log!Deliver
<1>5. PICK h : h = Head(result) /\ h \in Event
  BY <1>4, HeadTailProperties
<1>6. PICK rest \in Seq(Event) : rest = Tail(result) /\ Len(rest) = l - 1
  BY <1>3, <1>4, HeadTailProperties
<1>7. PICK more \in Seq(Event) : more = Append(seen, h) /\ Len(more) = p + 1
  BY <1>3, <1>5, AppendProperties DEF StreamTyped
<1>8. seen' = more /\ stream' = [stream EXCEPT !.result = rest]
  BY <1>3, <1>5, <1>6, <1>7 DEF Log!Deliver
<1>9. /\ stream' \in Streams /\ stream'.result = rest /\ stream'.page = stream.page
      /\ stream'.cursor = stream.cursor /\ stream'.state = stream.state
  BY <1>2, <1>8 DEF Streams
<1>10. StreamTyped'
  <2>1. l <= StreamBuffer
    BY <1>2, <1>3 DEF StreamTyped
  <2>2. l - 1 <= StreamBuffer
    BY <2>1 DEF Log!EventAssumption
  <2> QED
    BY <1>1, <1>6, <1>8, <1>9, <2>1, <2>2 DEF StreamTyped
<1>11. ASSUME InFlow PROVE InFlow'
  <2>1. Flows(stream, p, m)
    BY <1>2, <1>3, <1>11 DEF InFlow
  <2>2. stream.cursor = p + l /\ IsRun(result, 0, p, l) /\ p + l <= m
    BY <1>3, <2>1 DEF Flows
  <2>3. l # 0 /\ h = Numbers(0, p + 1) /\ IsRun(rest, 0, p + 1, l - 1)
    BY <1>4, <1>5, <1>6, <2>2, RunTail
  <2>4. IsRun(seen, 0, 0, p)
    BY <1>3, <1>11 DEF InFlow
  <2>5. IsRun(more, 0, 0, p + 1)
    <3>1. h = Numbers(0, 0 + p + 1)
      BY <2>3
    <3> QED
      BY <1>7, <2>4, <3>1, RunAppend
  <2>6. PICK s : s = stream'
    OBVIOUS
  <2>7. stream.cursor = (p + 1) + (l - 1) /\ p + 1 <= m
    BY <2>2, <2>3
  <2>8. Flows(s, p + 1, m)
    BY <1>6, <1>9, <2>1, <2>3, <2>6, <2>7 DEF Flows
  <2> QED
    BY <1>1, <1>3, <1>7, <1>8, <1>9, <1>11, <2>5, <2>6, <2>7, <2>8 DEF InFlow
<1> QED
  BY <1>10, <1>11

LEMMA StreamDisconnect ==
  ASSUME StreamTyped, Log!Disconnect
  PROVE  StreamTyped' /\ (InFlow => InFlow')
<1>1. /\ runtime' = runtime /\ total' = total /\ retired' = retired /\ seen' = seen
      /\ stream' = Log!NoStream
  BY DEF Log!Disconnect
<1> QED
  BY <1>1, NotStreaming DEF StreamTyped, InFlow

LEMMA StreamAppendEvent ==
  ASSUME Log!EventAssumption, StreamTyped, Log!AppendEvent
  PROVE  StreamTyped' /\ (InFlow => InFlow')
<1>1. /\ runtime' = runtime /\ retired' = retired /\ seen' = seen /\ stream' = stream
      /\ total' = total + 1 /\ total < MaxEvents
  BY DEF Log!AppendEvent
<1>2. MaxEvents \in Nat /\ total \in 0..MaxEvents
  BY DEF Log!EventAssumption, StreamTyped
<1>3. total' \in 0..MaxEvents /\ total <= total'
  BY <1>1, <1>2
<1>4. runtime' \in 0..MaxReplacements /\ retired' \subseteq 0..MaxReplacements
  BY <1>1 DEF StreamTyped
<1>5. InFlow => runtime' = 0
  BY <1>1 DEF InFlow
<1> QED
  BY <1>1, <1>3, <1>4, <1>5, StreamUntouched

LEMMA StreamReplaceScenario ==
  ASSUME Log!EventAssumption, StreamTyped, Log!ReplaceScenario
  PROVE  StreamTyped' /\ (MaxReplacements = 0 /\ InFlow => InFlow')
<1>1. /\ runtime' = runtime + 1 /\ retired' = retired \cup {runtime} /\ seen' = seen
      /\ stream' = stream /\ total' = 0 /\ runtime < MaxReplacements
  BY DEF Log!ReplaceScenario
<1>2. /\ MaxEvents \in Nat /\ MaxReplacements \in Nat /\ runtime \in 0..MaxReplacements
      /\ retired \subseteq 0..MaxReplacements
  BY DEF Log!EventAssumption, StreamTyped
<1>3. total' \in 0..MaxEvents /\ runtime' \in 0..MaxReplacements /\ retired' \subseteq 0..MaxReplacements
  BY <1>1, <1>2
<1>4. MaxReplacements # 0
  BY <1>1, <1>2
<1> QED
  BY <1>1, <1>3, <1>4, StreamUntouched

LEMMA StreamStep ==
  ASSUME Log!EventAssumption, StreamTyped, [Log!Next]_(Log!vars)
  PROVE  StreamTyped' /\ (MaxReplacements = 0 /\ InFlow => InFlow')
<1>1. CASE Log!AppendEvent
  BY <1>1, StreamAppendEvent
<1>2. CASE Log!ReplaceScenario
  BY <1>2, StreamReplaceScenario
<1>3. /\ runtime \in 0..MaxReplacements /\ total \in 0..MaxEvents
      /\ retired \subseteq 0..MaxReplacements /\ total <= total /\ (InFlow => runtime = 0)
  BY DEF StreamTyped, InFlow
<1>4. ASSUME UNCHANGED <<runtime, total, stream, seen>>, retired' \subseteq 0..MaxReplacements
      PROVE  StreamTyped' /\ (InFlow => InFlow')
  <2>1. /\ seen' = seen /\ stream' = stream /\ total' = total /\ runtime' = runtime
        /\ total <= total'
    BY <1>3, <1>4
  <2> QED
    BY <1>3, <1>4, <2>1, StreamUntouched
<1>5. CASE Log!Receive \/ Log!CancelSubscriber \/ Log!Unsubscribe
  BY <1>3, <1>4, <1>5 DEF Log!Receive, Log!CancelSubscriber, Log!Unsubscribe
<1>6. ASSUME NEW cursor \in 0..MaxEvents, Log!Subscribe(cursor)
      PROVE  StreamTyped' /\ (InFlow => InFlow')
  BY <1>3, <1>4, <1>6 DEF Log!Subscribe
<1>7. CASE Log!Close
  <2>1. retired' \subseteq 0..MaxReplacements /\ UNCHANGED <<runtime, total, stream, seen>>
    BY <1>3, <1>7 DEF Log!Close
  <2> QED
    BY <1>4, <2>1
<1>8. ASSUME NEW r \in retired, Log!CloseRuntime(r)
      PROVE  StreamTyped' /\ (InFlow => InFlow')
  <2>1. retired' \subseteq 0..MaxReplacements /\ UNCHANGED <<runtime, total, stream, seen>>
    BY <1>3, <1>8 DEF Log!CloseRuntime
  <2> QED
    BY <1>4, <2>1
<1>9. CASE Log!Connect
  BY <1>9, StreamConnect
<1>10. CASE Log!Poll
  BY <1>10, StreamPoll
<1>11. CASE Log!Send
  BY <1>11, StreamSend
<1>12. CASE Log!Tick
  BY <1>12, StreamTick
<1>13. CASE Log!Deliver
  BY <1>13, StreamDeliver
<1>14. CASE Log!Disconnect
  BY <1>14, StreamDisconnect
<1>15. CASE UNCHANGED Log!vars
  BY <1>3, <1>4, <1>15 DEF Log!vars
<1> QED
  BY <1>1, <1>2, <1>5, <1>6, <1>7, <1>8, <1>9, <1>10, <1>11, <1>12, <1>13, <1>14, <1>15
     DEF Log!Next

LEMMA StreamInitially ==
  ASSUME Log!EventAssumption, Log!Init
  PROVE  StreamTyped /\ InFlow
<1>1. MaxEvents \in Nat /\ MaxReplacements \in Nat
  BY DEF Log!EventAssumption
<1>2. /\ runtime = 0 /\ total = 0 /\ retired = {} /\ stream = Log!NoStream /\ seen = <<>>
  BY DEF Log!Init
<1>3. seen \in Seq(Event) /\ Len(seen) = 0
  BY <1>2, EmptySeq
<1>4. StreamTyped
  BY <1>1, <1>2, <1>3, NotStreaming DEF StreamTyped
<1>5. IsRun(seen, 0, 0, 0)
  BY <1>3 DEF IsRun
<1> QED
  BY <1>2, <1>3, <1>4, <1>5, NotStreaming DEF InFlow

(* The counters and the retired runtimes keep within their bounds, and the *)
(* poller never runs over its channel.                                     *)
THEOREM LogTypeCorrect == Log!EventAssumption /\ Log!Spec => []Log!TypeOK
<1> SUFFICES ASSUME Log!EventAssumption PROVE Log!Spec => []Log!TypeOK
  OBVIOUS
<1>1. SubInv /\ StreamTyped => Log!TypeOK
  <2> SUFFICES ASSUME SubInv, StreamTyped PROVE Log!TypeOK
    OBVIOUS
  <2>1. sub # Log!NoSub => sub.state \in {"live", "cancelled", "gone"}
    BY DEF SubInv, Subscriptions
  <2>2. /\ stream.state \in {"off", "poll", "send", "ended"}
        /\ stream.state # "off" => Len(stream.result) <= StreamBuffer
    BY NotStreaming DEF StreamTyped, Streams
  <2>3. logClosed \in BOOLEAN
    BY DEF SubInv
  <2> QED
    BY <2>1, <2>2, <2>3 DEF StreamTyped, Log!TypeOK
<1>2. Log!Spec => []SubInv
  BY SubAlways
<1>3. Log!Init => StreamTyped
  BY StreamInitially
<1>4. StreamTyped /\ [Log!Next]_(Log!vars) => StreamTyped'
  BY StreamStep
<1>5. Log!Spec => Log!Init /\ [][Log!Next]_(Log!vars)
  BY DEF Log!Spec
<1> QED
  BY <1>1, <1>2, <1>3, <1>4, <1>5, PTL

LEMMA SameCardinality == \A S : Log!Cardinality(S) = Cardinality(S)
  BY DEF Log!Cardinality, Cardinality

(* While the scenario is not replaced, an HTTP client sees every event     *)
(* from the first, each exactly once, over any number of connections.      *)
THEOREM StreamInOrder ==
  Log!EventAssumption /\ MaxReplacements = 0 /\ Log!Spec => []Log!StreamExactlyOnce
<1> SUFFICES ASSUME Log!EventAssumption, MaxReplacements = 0
             PROVE  Log!Spec => []Log!StreamExactlyOnce
  OBVIOUS
<1>1. StreamTyped /\ InFlow => Log!StreamExactlyOnce
  <2> SUFFICES ASSUME StreamTyped, InFlow, NEW i \in DOMAIN seen
               PROVE  seen[i][2] = Cardinality({j \in 1..i : seen[j][1] = seen[i][1]})
    BY SameCardinality DEF Log!StreamExactlyOnce
  <2>1. PICK n \in Nat : n = Len(seen) /\ DOMAIN seen = 1..n
    BY LenProperties DEF StreamTyped
  <2>2. \A j \in 1..n : seen[j][1] = 0 /\ seen[j][2] = j
    <3> TAKE j \in 1..n
    <3>1. seen[j] = Numbers(0, 0 + j) /\ 0 + j = j
      BY <2>1 DEF InFlow, IsRun
    <3> QED
      BY <3>1, EventParts
  <2>3. i \in 1..n /\ \A j \in 1..i : j \in 1..n
    BY <2>1
  <2>4. {j \in 1..i : seen[j][1] = seen[i][1]} = 1..i
    BY <2>2, <2>3
  <2>5. Cardinality(1..i) = i
    BY <2>3, FS_Interval
  <2> QED
    BY <2>2, <2>3, <2>4, <2>5
<1>2. Log!Init => StreamTyped /\ InFlow
  BY StreamInitially
<1>3. StreamTyped /\ InFlow /\ [Log!Next]_(Log!vars) => StreamTyped' /\ InFlow'
  BY StreamStep
<1>4. Log!Spec => Log!Init /\ [][Log!Next]_(Log!vars)
  BY DEF Log!Spec
<1> QED
  BY <1>1, <1>2, <1>3, <1>4, PTL

-------------------------------------------------------------------------------
(* The background traffic, for any configurations, runs and clocks.        *)
CONSTANTS Configs, LastTicketID, LastTime, ArrivalLimit, Failures, MaxRuns, MaxAdds

VARIABLES traffic, status, runs, tRuntime, tPool, tClosed, wall, adds, ended, made

Background == INSTANCE Traffic WITH runtime <- tRuntime, pool <- tPool, closed <- tClosed

(* The run that is current has not been ended by anybody.                  *)
RunsInv ==
  /\ \E S : runs \in Seq(S)
  /\ \A r \in 1..Len(runs) : "pc" \in DOMAIN runs[r]
  /\ traffic \in 0..Len(runs)
  /\ ended \subseteq 1..Len(runs)
  /\ traffic \notin ended
  /\ Background!OneRun

(* What one step of the goroutine of run r may do.                         *)
RunMoved(r, x) ==
  /\ runs' = [runs EXCEPT ![r] = x]
  /\ "pc" \in DOMAIN x
  /\ x.pc = "done" \/ traffic' = r \/ r \in ended
  /\ ended' = ended
  /\ traffic' \in {traffic, 0}
  /\ traffic # r => UNCHANGED <<made, tPool, status, traffic>>

(* Replacing one element of a sequence.                                    *)
LEMMA SeqReplaced ==
  ASSUME NEW S, NEW s \in Seq(S), NEW i \in 1..Len(s), NEW x, NEW t, t = [s EXCEPT ![i] = x]
  PROVE  /\ t \in Seq(S \cup {x}) /\ Len(t) = Len(s) /\ t[i] = x
         /\ \A j \in 1..Len(s) : j # i => t[j] = s[j]
<1>1. PICK n \in Nat : n = Len(s)
  BY LenProperties
<1>2. DOMAIN s = 1..n /\ \A j \in 1..n : s[j] \in S
  BY <1>1, LenProperties, ElementOfSeq
<1>3. t \in [1..n -> S \cup {x}] /\ t[i] = x /\ \A j \in 1..n : j # i => t[j] = s[j]
  BY <1>1, <1>2
<1> QED
  BY <1>1, <1>3, IsASeq, LenProperties

LEMMA ExitMoves ==
  ASSUME RunsInv, NEW r \in 1..Len(runs), Background!Exit(r)
  PROVE  \E x : runs' = [runs EXCEPT ![r] = x] /\ "pc" \in DOMAIN x /\ x.pc = "done"
<1> DEFINE x == [runs[r] EXCEPT !.pc = "done"]
<1>1. runs' = [runs EXCEPT ![r] = x]
  BY DEF Background!Exit, Background!Continue
<1>2. "pc" \in DOMAIN x /\ x.pc = "done"
  BY DEF RunsInv
<1> QED
  BY <1>1, <1>2

LEMMA ContinueMoves ==
  ASSUME RunsInv, NEW r \in 1..Len(runs), NEW pc, Background!Continue(r, pc)
  PROVE  \E x : runs' = [runs EXCEPT ![r] = x] /\ "pc" \in DOMAIN x /\ x.pc = pc
<1> DEFINE x == [runs[r] EXCEPT !.pc = pc]
<1>1. runs' = [runs EXCEPT ![r] = x]
  BY DEF Background!Continue
<1>2. "pc" \in DOMAIN x /\ x.pc = pc
  BY DEF RunsInv
<1> QED
  BY <1>1, <1>2

(* The steps that set several fields of a run.                             *)
FieldsSet(r, a, b, p, t) ==
  \/ t = [runs EXCEPT ![r].nextArrival = a, ![r].nextMatch = b, ![r].pc = p]
  \/ t = [runs EXCEPT ![r].nextMatch = a, ![r].step = b, ![r].pc = p]
  \/ t = [runs EXCEPT ![r].due = a, ![r].nextArrival = b, ![r].pc = p]
  \/ t = [runs EXCEPT ![r].pc = p, ![r].due = a, ![r].now = b]

LEMMA FieldsMove ==
  ASSUME RunsInv, NEW r \in 1..Len(runs), NEW a, NEW b, NEW p, NEW t, FieldsSet(r, a, b, p, t)
  PROVE  \E x : t = [runs EXCEPT ![r] = x] /\ "pc" \in DOMAIN x /\ x.pc = p
<1>1. "pc" \in DOMAIN runs[r] /\ r \in DOMAIN runs
  BY LenProperties DEF RunsInv
<1>2. CASE t = [runs EXCEPT ![r].nextArrival = a, ![r].nextMatch = b, ![r].pc = p]
  <2> DEFINE x == [runs[r] EXCEPT !.nextArrival = a, !.nextMatch = b, !.pc = p]
  <2>1. t = [runs EXCEPT ![r] = x]
    BY <1>1, <1>2
  <2>2. "pc" \in DOMAIN x /\ x.pc = p
    BY <1>1
  <2> QED
    BY <2>1, <2>2
<1>3. CASE t = [runs EXCEPT ![r].nextMatch = a, ![r].step = b, ![r].pc = p]
  <2> DEFINE x == [runs[r] EXCEPT !.nextMatch = a, !.step = b, !.pc = p]
  <2>1. t = [runs EXCEPT ![r] = x]
    BY <1>1, <1>3
  <2>2. "pc" \in DOMAIN x /\ x.pc = p
    BY <1>1
  <2> QED
    BY <2>1, <2>2
<1>4. CASE t = [runs EXCEPT ![r].due = a, ![r].nextArrival = b, ![r].pc = p]
  <2> DEFINE x == [runs[r] EXCEPT !.due = a, !.nextArrival = b, !.pc = p]
  <2>1. t = [runs EXCEPT ![r] = x]
    BY <1>1, <1>4
  <2>2. "pc" \in DOMAIN x /\ x.pc = p
    BY <1>1
  <2> QED
    BY <2>1, <2>2
<1>5. CASE t = [runs EXCEPT ![r].pc = p, ![r].due = a, ![r].now = b]
  <2> DEFINE x == [runs[r] EXCEPT !.pc = p, !.due = a, !.now = b]
  <2>1. t = [runs EXCEPT ![r] = x]
    BY <1>1, <1>5
  <2>2. "pc" \in DOMAIN x /\ x.pc = p
    BY <1>1
  <2> QED
    BY <2>1, <2>2
<1> QED
  BY <1>2, <1>3, <1>4, <1>5 DEF FieldsSet

LEMMA StepStops ==
  ASSUME NEW r, NEW due, NEW now, NEW match, Background!Step(r, due, now, match)
  PROVE  traffic' \in {traffic, 0}
<1>1. \A s, state : Background!StopLocked(s, state).traffic \in {s.traffic, 0}
  BY DEF Background!StopLocked
<1>2. \A s, state : [traffic |-> traffic, status |-> s].traffic = traffic
  OBVIOUS
<1> QED
  BY <1>1, <1>2 DEF Background!Step

LEMMA StopStops ==
  ASSUME NEW state, Background!Stop(state)
  PROVE  traffic' = 0
BY DEF Background!Stop, Background!StopLocked

LEMMA RunMoves ==
  ASSUME RunsInv, NEW r \in 1..Len(runs), Background!Goroutine(r)
  PROVE  \E x : RunMoved(r, x)
<1>1. /\ Background!At(r, "done") \/ traffic = r \/ r \in ended
      /\ \A pc : Background!At(r, pc) => runs[r].pc = pc
      /\ runs[r].pc = "done" => Background!At(r, "done")
  BY DEF RunsInv, Background!OneRun, Background!At
<1>2. CASE Background!SeesStop(r)
  <2>1. PICK x : runs' = [runs EXCEPT ![r] = x] /\ "pc" \in DOMAIN x /\ x.pc = "done"
    BY <1>2, ExitMoves DEF Background!SeesStop
  <2>2. UNCHANGED <<traffic, status, tPool, ended, made>>
    BY <1>2 DEF Background!SeesStop, Background!shared
  <2> QED
    BY <2>1, <2>2 DEF RunMoved
<1>3. CASE Background!RealtimeStep(r)
  <2>1. CASE Background!Mine(r)
    <3>1. traffic = r /\ ended' = ended
      BY <1>3, <2>1 DEF Background!RealtimeStep, Background!Mine
    <3>2. PICK due, match : Background!Step(r, due, wall, match)
      BY <1>3, <2>1, Zenon DEF Background!RealtimeStep
    <3>3. traffic' \in {traffic, 0}
      BY <3>2, StepStops
    <3>4. PICK p : p = IF traffic' = r THEN "wait" ELSE "done"
      OBVIOUS
    <3>5. PICK a, b : runs' = [runs EXCEPT ![r].nextArrival = a, ![r].nextMatch = b, ![r].pc = p]
      BY <1>3, <2>1, <3>4 DEF Background!RealtimeStep
    <3>6. PICK t : t = runs'
      OBVIOUS
    <3>7. FieldsSet(r, a, b, p, t)
      BY <3>5, <3>6 DEF FieldsSet
    <3>8. PICK x : t = [runs EXCEPT ![r] = x] /\ "pc" \in DOMAIN x /\ x.pc = p
      BY <3>7, FieldsMove
    <3> QED
      BY <3>1, <3>3, <3>4, <3>6, <3>8 DEF RunMoved
  <2>2. CASE ~Background!Mine(r)
    <3>1. PICK x : runs' = [runs EXCEPT ![r] = x] /\ "pc" \in DOMAIN x /\ x.pc = "done"
      BY <1>3, <2>2, ExitMoves DEF Background!RealtimeStep
    <3>2. UNCHANGED <<traffic, status, tPool, ended, made>>
      BY <1>3, <2>2 DEF Background!RealtimeStep, Background!shared
    <3> QED
      BY <3>1, <3>2 DEF RunMoved
  <2> QED
    BY <2>1, <2>2
<1>4. CASE Background!BeginStep(r)
  <2>0. UNCHANGED <<traffic, status, tPool, ended, made>>
    BY <1>4 DEF Background!BeginStep, Background!shared
  <2>1. CASE traffic # r
    <3>1. PICK x : runs' = [runs EXCEPT ![r] = x] /\ "pc" \in DOMAIN x /\ x.pc = "done"
      BY <1>4, <2>1, ExitMoves DEF Background!BeginStep
    <3> QED
      BY <2>0, <3>1 DEF RunMoved
  <2>2. CASE traffic = r /\ Background!Continue(r, "finish")
    <3>1. PICK x : runs' = [runs EXCEPT ![r] = x] /\ "pc" \in DOMAIN x
      BY <2>2, ContinueMoves
    <3> QED
      BY <2>0, <2>2, <3>1 DEF RunMoved
  <2>3. CASE traffic = r /\ ~ Background!Continue(r, "finish")
    <3>1. PICK a, b : runs' = [runs EXCEPT ![r].pc = "arrive", ![r].due = a, ![r].now = b]
      BY <1>4, <2>3 DEF Background!BeginStep
    <3>2. PICK t : t = runs'
      OBVIOUS
    <3>3. FieldsSet(r, a, b, "arrive", t)
      BY <3>1, <3>2 DEF FieldsSet
    <3>4. PICK x : t = [runs EXCEPT ![r] = x] /\ "pc" \in DOMAIN x
      BY <3>3, FieldsMove
    <3> QED
      BY <2>0, <2>3, <3>2, <3>4 DEF RunMoved
  <2> QED
    BY <2>1, <2>2, <2>3
<1>5. CASE Background!Arrive(r)
  <2>1. UNCHANGED <<traffic, status, tPool, ended, made>>
    BY <1>5 DEF Background!Arrive, Background!shared
  <2>2. traffic = r \/ r \in ended
    BY <1>1, <1>5 DEF Background!Arrive
  <2>3. PICK a, b, p : runs' = [runs EXCEPT ![r].due = a, ![r].nextArrival = b, ![r].pc = p]
    BY <1>5 DEF Background!Arrive
  <2>4. PICK t : t = runs'
    OBVIOUS
  <2>5. FieldsSet(r, a, b, p, t)
    BY <2>3, <2>4 DEF FieldsSet
  <2>6. PICK x : t = [runs EXCEPT ![r] = x] /\ "pc" \in DOMAIN x
    BY <2>5, FieldsMove
  <2> QED
    BY <2>1, <2>2, <2>4, <2>6 DEF RunMoved
<1>6. CASE Background!AllArrived(r)
  <2>1. UNCHANGED <<traffic, status, tPool, ended, made>>
    BY <1>6 DEF Background!AllArrived, Background!shared
  <2>2. traffic = r \/ r \in ended
    BY <1>1, <1>6 DEF Background!AllArrived
  <2>3. PICK x : runs' = [runs EXCEPT ![r] = x] /\ "pc" \in DOMAIN x
    BY <1>6, ContinueMoves DEF Background!AllArrived
  <2> QED
    BY <2>1, <2>2, <2>3 DEF RunMoved
<1>7. CASE Background!TooManyArrivals(r)
  <2>1. PICK x : runs' = [runs EXCEPT ![r] = x] /\ "pc" \in DOMAIN x /\ x.pc = "done"
    BY <1>7, ExitMoves DEF Background!TooManyArrivals
  <2>2. /\ UNCHANGED <<tPool, ended, made>>
        /\ traffic = r \/ UNCHANGED <<traffic, status>>
        /\ traffic' \in {traffic, 0}
    BY <1>7, StopStops DEF Background!TooManyArrivals, Background!Mine
  <2> QED
    BY <2>1, <2>2 DEF RunMoved
<1>8. CASE Background!FixedStep(r)
  <2>1. CASE Background!Mine(r)
    <3>1. traffic = r /\ ended' = ended
      BY <1>8, <2>1 DEF Background!FixedStep, Background!Mine
    <3>2. PICK match : Background!Step(r, runs[r].due, runs[r].now, match)
      BY <1>8, <2>1, Zenon DEF Background!FixedStep
    <3>3. traffic' \in {traffic, 0}
      BY <3>2, StepStops
    <3>4. PICK p : p = IF traffic' = r THEN "top" ELSE "done"
      OBVIOUS
    <3>5. PICK a, b : runs' = [runs EXCEPT ![r].nextMatch = a, ![r].step = b, ![r].pc = p]
      BY <1>8, <2>1, <3>4 DEF Background!FixedStep
    <3>6. PICK t : t = runs'
      OBVIOUS
    <3>7. FieldsSet(r, a, b, p, t)
      BY <3>5, <3>6 DEF FieldsSet
    <3>8. PICK x : t = [runs EXCEPT ![r] = x] /\ "pc" \in DOMAIN x /\ x.pc = p
      BY <3>7, FieldsMove
    <3> QED
      BY <3>1, <3>3, <3>4, <3>6, <3>8 DEF RunMoved
  <2>2. CASE ~Background!Mine(r)
    <3>1. PICK x : runs' = [runs EXCEPT ![r] = x] /\ "pc" \in DOMAIN x /\ x.pc = "done"
      BY <1>8, <2>2, ExitMoves DEF Background!FixedStep
    <3>2. UNCHANGED <<traffic, status, tPool, ended, made>>
      BY <1>8, <2>2 DEF Background!FixedStep, Background!shared
    <3> QED
      BY <3>1, <3>2 DEF RunMoved
  <2> QED
    BY <2>1, <2>2
<1>9. CASE Background!Complete(r)
  <2>1. PICK x : runs' = [runs EXCEPT ![r] = x] /\ "pc" \in DOMAIN x /\ x.pc = "done"
    BY <1>9, ExitMoves DEF Background!Complete
  <2>2. /\ UNCHANGED <<tPool, ended, made>>
        /\ traffic = r \/ UNCHANGED <<traffic, status>>
        /\ traffic' \in {traffic, 0}
    BY <1>9 DEF Background!Complete, Background!Completes
  <2> QED
    BY <2>1, <2>2 DEF RunMoved
<1> QED
  BY <1>2, <1>3, <1>4, <1>5, <1>6, <1>7, <1>8, <1>9 DEF Background!Goroutine

(* The action of StopIsFinal: a run that was ended touches nothing.        *)
EndedIsQuiet ==
  \A r \in ended : runs'[r] # runs[r] => UNCHANGED <<made, tPool, status, traffic>>

LEMMA RunsStep ==
  RunsInv /\ [Background!Next]_(Background!vars) => RunsInv' /\ EndedIsQuiet
<1> SUFFICES ASSUME RunsInv, [Background!Next]_(Background!vars)
             PROVE  RunsInv' /\ EndedIsQuiet
  OBVIOUS
<1>s. PICK S : runs \in Seq(S)
  BY DEF RunsInv
<1>0. PICK n \in Nat : runs \in Seq(S) /\ n = Len(runs)
  BY <1>s, LenProperties
<1>1. /\ \A r \in 1..n : "pc" \in DOMAIN runs[r]
      /\ traffic \in 0..n /\ ended \subseteq 1..n /\ traffic \notin ended
      /\ \A r \in 1..n : traffic = r \/ r \in ended \/ runs[r].pc = "done"
  BY <1>0 DEF RunsInv, Background!OneRun, Background!At
<1>2. ASSUME UNCHANGED <<runs, traffic, ended>> PROVE RunsInv' /\ EndedIsQuiet
  BY <1>2 DEF RunsInv, EndedIsQuiet, Background!OneRun, Background!At
<1>3. ASSUME NEW state, Background!Stop(state), Background!EndAll, runs' = runs
      PROVE  RunsInv' /\ EndedIsQuiet
  <2>1. traffic' = 0 /\ ended' = 1..n
    BY <1>0, <1>1, <1>3, StopStops DEF Background!EndAll
  <2>2. Len(runs') = n /\ runs' \in Seq(S)
    BY <1>0, <1>3
  <2> QED
    BY <1>0, <1>1, <1>3, <2>1, <2>2 DEF RunsInv, EndedIsQuiet, Background!OneRun, Background!At
<1>4. ASSUME NEW c \in Configs, Background!StartTraffic(c) PROVE RunsInv' /\ EndedIsQuiet
  <2>1. traffic = 0 /\ traffic' = n + 1 /\ ended' = ended
    BY <1>0, <1>4 DEF Background!StartTraffic, Background!MayStart
  <2>2. PICK x : runs' = Append(runs, x) /\ "pc" \in DOMAIN x
    BY <1>4 DEF Background!StartTraffic
  <2>3. /\ runs' \in Seq(S \cup {x}) /\ Len(runs') = n + 1 /\ runs'[n + 1] = x
        /\ \A r \in 1..n : runs'[r] = runs[r]
    <3>1. runs \in Seq(S \cup {x})
      BY <1>0, SeqMonotonic
    <3> QED
      BY <1>0, <2>2, <3>1, AppendProperties
  <2>4. \A r \in 1..(n + 1) : r = n + 1 \/ r \in 1..n
    BY <1>0
  <2>5. \A r \in 1..(n + 1) : "pc" \in DOMAIN runs'[r]
    BY <1>1, <2>2, <2>3, <2>4
  <2>6. \A r \in 1..(n + 1) : traffic' = r \/ r \in ended' \/ runs'[r].pc = "done"
    <3> TAKE r \in 1..(n + 1)
    <3>1. CASE r = n + 1
      BY <2>1, <3>1
    <3>2. CASE r \in 1..n
      <4>1. traffic # r
        BY <2>1, <3>2
      <4> QED
        BY <1>1, <2>1, <2>3, <3>2, <4>1
    <3> QED
      BY <2>4, <3>1, <3>2
  <2>7. /\ traffic' \in 0..(n + 1) /\ ended' \subseteq 1..(n + 1) /\ traffic' \notin ended'
    BY <1>0, <1>1, <2>1
  <2>8. EndedIsQuiet
    BY <1>1, <2>3 DEF EndedIsQuiet
  <2>9. Background!OneRun'
    BY <2>3, <2>6 DEF Background!OneRun, Background!At
  <2> QED
    BY <2>3, <2>5, <2>7, <2>8, <2>9 DEF RunsInv
<1>5. ASSUME NEW r \in 1..n, Background!Goroutine(r) PROVE RunsInv' /\ EndedIsQuiet
  <2>1. PICK x : RunMoved(r, x)
    BY <1>0, <1>5, RunMoves
  <2>2. PICK t : t = runs'
    OBVIOUS
  <2>3. t = [runs EXCEPT ![r] = x]
    BY <2>1, <2>2 DEF RunMoved
  <2>4. PICK u : u = runs
    OBVIOUS
  <2>5. /\ t \in Seq(S \cup {x}) /\ Len(t) = n /\ t[r] = x
        /\ \A q \in 1..n : q # r => t[q] = runs[q]
    <3>1. u \in Seq(S) /\ r \in 1..Len(u) /\ t = [u EXCEPT ![r] = x]
      BY <1>0, <2>3, <2>4
    <3> QED
      BY <1>0, <2>4, <3>1, SeqReplaced
  <2>6. /\ "pc" \in DOMAIN x /\ ended' = ended /\ traffic' \in {traffic, 0}
        /\ x.pc = "done" \/ traffic' = r \/ r \in ended
        /\ traffic # r => UNCHANGED <<made, tPool, status, traffic>>
    BY <2>1 DEF RunMoved
  <2>7. \A q \in 1..n : "pc" \in DOMAIN t[q]
    BY <1>1, <2>5, <2>6
  <2>8. \A q \in 1..n : traffic' = q \/ q \in ended' \/ t[q].pc = "done"
    <3> TAKE q \in 1..n
    <3>1. CASE q = r
      BY <2>5, <2>6, <3>1
    <3>2. CASE q # r
      BY <1>1, <2>5, <2>6, <3>2
    <3> QED
      BY <3>1, <3>2
  <2>9. traffic' \in 0..n /\ ended' \subseteq 1..n /\ traffic' \notin ended'
    BY <1>0, <1>1, <2>6
  <2>10. EndedIsQuiet
    BY <1>1, <2>2, <2>5, <2>6 DEF EndedIsQuiet
  <2>11. Background!OneRun'
    BY <2>2, <2>5, <2>8 DEF Background!OneRun, Background!At
  <2> QED
    BY <2>2, <2>5, <2>7, <2>9, <2>10, <2>11 DEF RunsInv
<1>6. CASE Background!StopTraffic \/ Background!ReplaceScenario \/ Background!Close
  BY <1>3, <1>6 DEF Background!StopTraffic, Background!ReplaceScenario, Background!Close
<1>7. CASE Background!WallTick \/ \E id \in 1..LastTicketID : Background!ClientAdd(id)
  BY <1>2, <1>7 DEF Background!WallTick, Background!ClientAdd
<1>8. CASE UNCHANGED Background!vars
  BY <1>2, <1>8 DEF Background!vars
<1> QED
  BY <1>0, <1>4, <1>5, <1>6, <1>7, <1>8 DEF Background!Next

LEMMA RunsInit == Background!Init => RunsInv
<1> SUFFICES ASSUME Background!Init PROVE RunsInv
  OBVIOUS
<1>1. runs = <<>> /\ runs \in Seq({}) /\ Len(runs) = 0 /\ traffic = 0 /\ ended = {}
  BY EmptySeq DEF Background!Init
<1> QED
  BY <1>1 DEF RunsInv, Background!OneRun

(* A goroutine of the traffic that still runs is the current one, or a     *)
(* stop, replacement or Close has ended it: no second run acts beside the  *)
(* first (Simulator.StartTraffic and stopTrafficLocked).                   *)
THEOREM RunIsAlone == Background!Spec => []Background!OneRun
<1>1. RunsInv => Background!OneRun
  BY DEF RunsInv
<1> QED
  BY <1>1, RunsInit, RunsStep, PTL DEF Background!Spec

(* Nothing is injected and no status touched by a run after StopTraffic,   *)
(* ReplaceScenario or Close has returned, at whatever point of its step it *)
(* was: every locked step asks again whether the run is the current one.   *)
THEOREM StopHolds == Background!Spec => Background!StopIsFinal
<1>1. EndedIsQuiet =>
        \A r \in 1..MaxRuns :
          r \in ended /\ runs'[r] # runs[r] => UNCHANGED <<made, tPool, status, traffic>>
  BY DEF EndedIsQuiet
<1> QED
  BY <1>1, RunsInit, RunsStep, PTL DEF Background!Spec, Background!StopIsFinal
===============================================================================
