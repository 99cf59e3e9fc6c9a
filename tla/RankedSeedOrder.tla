---------------------------- MODULE RankedSeedOrder ----------------------------
(***************************************************************************)
(* internal/matchsystem/seed_order.go, oldestSeedOrderPolicy and           *)
(* int64PrioritySeedOrderPolicy: seeds leave an index-carrying heap in     *)
(* rank order and wait in a held array for the next round.  The two differ *)
(* in the rank only: the oldest policy ranks by CreatedAt, ascending and   *)
(* always present, the priority policy by an int64 field a ticket may      *)
(* lack, in either direction.  An entry is known by its sequence number,   *)
(* which stands for its Go pointer.                                        *)
(* Arrays start at 1 and the position 0 stands for the code's -1.          *)
(***************************************************************************)
EXTENDS Integers, Sequences, FiniteSets

CONSTANTS
  TicketIDs,
  Ranks,        \* [present, value] of a ticket; an absent value reads as 0
  MaxEntries,   \* bound on the entries ever created
  Limits        \* round limits an owner may ask for

RankedAssumption ==
  /\ Ranks \subseteq [present : BOOLEAN, value : Int]
  /\ \A rank \in Ranks : ~rank.present => rank.value = 0
  /\ MaxEntries \in Nat
  /\ Limits \subseteq Int

VARIABLES
  ascending,    \* the direction of the policy, descending by default
  created,      \* ticketID, present and value of every entry so far
  activeFlag,   \* entries whose active flag is set
  active,       \* TicketID -> its entry, 0 when absent
  entries,      \* heap of entries, with their heapIndex
  held,
  heldIndex,    \* entry -> its position in held, 0 when it has none
  roundLimit, roundYielded, roundActive

roundVars == <<roundLimit, roundYielded, roundActive>>
vars == <<ascending, created, activeFlag, active, entries, held, heldIndex, roundVars>>

Entries == 1..MaxEntries
Entry == [ticketID : TicketIDs, present : BOOLEAN, value : Int]

(* Seeded fault: a missing value is compared as the zero it reads as.      *)
LessByValue(table, e, f) ==
  IF table[e].value # table[f].value
  THEN (table[e].value < table[f].value) = ascending
  ELSE e < f

(* Seeded fault: the entry that arrived last wins among equals.            *)
LessTieReversed(table, e, f) ==
  IF table[e].value # table[f].value
  THEN (table[e].value < table[f].value) = ascending
  ELSE f < e

Less(table, e, f) ==
  IF table[e].present # table[f].present THEN table[e].present
  ELSE IF table[e].value # table[f].value
       THEN (table[e].value < table[f].value) = ascending
       ELSE e < f

Heap(table) == INSTANCE TypedHeap WITH Less <- LAMBDA e, f : Less(table, e, f)

Init ==
  /\ ascending \in BOOLEAN
  /\ created = <<>>
  /\ activeFlag = {}
  /\ active = [id \in TicketIDs |-> 0]
  /\ entries = [items |-> <<>>, index |-> [e \in Entries |-> 0]]
  /\ held = <<>>
  /\ heldIndex = [e \in Entries |-> 0]
  /\ roundLimit = 0
  /\ roundYielded = 0
  /\ roundActive = FALSE

-------------------------------------------------------------------------------
(* removeEntry takes an entry out of the heap or out of held, by the       *)
(* position it carries; the last held entry moves into the gap.            *)
InHeap(e) ==
  entries.index[e] \in DOMAIN entries.items /\ entries.items[entries.index[e]] = e

InHeld(e) == heldIndex[e] \in DOMAIN held /\ held[heldIndex[e]] = e

HeapWithout(e) ==
  IF InHeap(e) THEN Heap(created)!Remove(entries, entries.index[e]) ELSE entries

HeldWithout(e) ==
  IF InHeld(e)
  THEN SubSeq([held EXCEPT ![heldIndex[e]] = held[Len(held)]], 1, Len(held) - 1)
  ELSE held

(* Seeded fault: the entry moved into the gap keeps its old position.      *)
HeldIndexStale(e) == [heldIndex EXCEPT ![e] = 0]

HeldIndexWithout(e) ==
  IF InHeld(e)
  THEN [heldIndex EXCEPT ![held[Len(held)]] = heldIndex[e], ![e] = 0]
  ELSE [heldIndex EXCEPT ![e] = 0]

(* A TicketID that is already active gets a new entry, behind its equals.  *)
Add(id, rank) ==
  LET previous == active[id]
      entry == Len(created) + 1
  IN /\ entry <= MaxEntries
     /\ created' = Append(created, [ticketID |-> id, present |-> rank.present,
                                    value |-> rank.value])
     /\ activeFlag' = (activeFlag \ {previous}) \cup {entry}
     /\ active' = [active EXCEPT ![id] = entry]
     /\ IF previous = 0
        THEN /\ entries' = Heap(created')!Push(entries, entry)
             /\ UNCHANGED <<held, heldIndex>>
        ELSE /\ entries' = Heap(created')!Push(HeapWithout(previous), entry)
             /\ held' = HeldWithout(previous)
             /\ heldIndex' = HeldIndexWithout(previous)
     /\ UNCHANGED <<ascending, roundVars>>

Remove(id) ==
  LET entry == active[id]
  IN /\ entry # 0
     /\ active' = [active EXCEPT ![id] = 0]
     /\ activeFlag' = activeFlag \ {entry}
     /\ entries' = HeapWithout(entry)
     /\ held' = HeldWithout(entry)
     /\ heldIndex' = HeldIndexWithout(entry)
     /\ UNCHANGED <<ascending, created, roundVars>>

(* BeginRound: held entries return to the heap, in their order in held,    *)
(* when they are still active and own their TicketID.                      *)
Owned(e) == e \in activeFlag /\ active[created[e].ticketID] = e

HeldEntries == {held[i] : i \in DOMAIN held}

(* Seeded fault: held entries are dropped.                                 *)
RestoredNone == entries

Restored ==
  LET after[n \in 0..Len(held)] ==
        IF n = 0 THEN entries
        ELSE IF Owned(held[n]) THEN Heap(created)!Push(after[n - 1], held[n])
             ELSE after[n - 1]
  IN after[Len(held)]

BeginRound(limit) ==
  /\ entries' = Restored
  /\ activeFlag' = activeFlag \ {e \in HeldEntries : ~Owned(e)}
  /\ heldIndex' = [e \in Entries |-> IF e \in HeldEntries THEN 0 ELSE heldIndex[e]]
  /\ held' = <<>>
  /\ roundLimit' = IF limit < 0 THEN 0 ELSE limit
  /\ roundYielded' = 0
  /\ roundActive' = TRUE
  /\ UNCHANGED <<ascending, created, active>>

(* Seeded fault: the round yields one seed more than its limit.            *)
HasNextAtLimit == roundActive /\ roundYielded <= roundLimit /\ entries.items # <<>>

HasNext == roundActive /\ roundYielded < roundLimit /\ entries.items # <<>>

(* Entries on top that no longer own their TicketID are popped and left.   *)
RECURSIVE Settled(_)
Settled(h) ==
  IF h.items # <<>> /\ ~Owned(h.items[1]) THEN Settled(Heap(created)!Pop(h)) ELSE h

Next ==
  /\ HasNext
  /\ LET heap == Settled(entries)
     IN IF heap.items = <<>>
        THEN /\ entries' = heap
             /\ UNCHANGED <<held, heldIndex, roundYielded>>
        ELSE LET seed == heap.items[1]
             IN /\ entries' = Heap(created)!Pop(heap)
                /\ held' = Append(held, seed)
                /\ heldIndex' = [heldIndex EXCEPT ![seed] = Len(held) + 1]
                /\ roundYielded' = roundYielded + 1
  /\ UNCHANGED <<ascending, created, activeFlag, active, roundLimit, roundActive>>

Step ==
  \/ \E id \in TicketIDs : Remove(id) \/ \E rank \in Ranks : Add(id, rank)
  \/ \E limit \in Limits : BeginRound(limit)
  \/ Next

Spec == Init /\ [][Step]_vars

-------------------------------------------------------------------------------
TypeOK ==
  /\ created \in Seq(Entry) /\ Len(created) <= MaxEntries
  /\ activeFlag \subseteq Entries
  /\ active \in [TicketIDs -> 0..MaxEntries]
  /\ entries.items \in Seq(Entries) /\ entries.index \in [Entries -> 0..MaxEntries]
  /\ held \in Seq(Entries)
  /\ heldIndex \in [Entries -> 0..MaxEntries]
  /\ roundLimit \in Nat
  /\ roundYielded \in 0..roundLimit
  /\ roundActive \in BOOLEAN

HeapEntries == {entries.items[i] : i \in DOMAIN entries.items}

(* Every active entry is in exactly one of the heap and held, once, at the *)
(* position it carries, and nothing else is: a removal by position never   *)
(* takes out another ticket's entry and never leaves a dead one behind.    *)
PositionsExact ==
  /\ \A i \in DOMAIN entries.items : entries.index[entries.items[i]] = i
  /\ \A i \in DOMAIN held : heldIndex[held[i]] = i
  /\ HeapEntries \cap HeldEntries = {}
  /\ HeapEntries \cup HeldEntries = activeFlag
  /\ activeFlag = {active[id] : id \in TicketIDs} \ {0}

(* A seed leaves the heap in rank order: no entry that could have been     *)
(* yielded has a present value where the seed's is missing, a better       *)
(* value, or the same value and an earlier arrival.                        *)
YieldsBestRank ==
  [][roundYielded' > roundYielded =>
       LET seed == created[held'[Len(held')]]
       IN \A e \in HeapEntries :
            LET other == created[e]
            IN /\ other.present => seed.present
               /\ other.present /\ seed.present =>
                    IF ascending THEN seed.value <= other.value
                    ELSE seed.value >= other.value
               /\ other.present = seed.present /\ other.value = seed.value =>
                    held'[Len(held')] <= e]_vars

(* The policy implements the stream contract: it never repeats a seed in a *)
(* round, never drops a waiting ticket, and stays within the limit.        *)
IDs(S) == {created[e].ticketID : e \in S}

Stream == INSTANCE SeedStream WITH
  ready <- IDs(HeapEntries), held <- IDs(HeldEntries),
  limit <- roundLimit, yielded <- roundYielded, open <- roundActive

ImplementsStream == Stream!StreamSpec

===============================================================================
