----------------------------- MODULE PrefilterIndex -----------------------------
(***************************************************************************)
(* The index store of internal/matchsystem/prefilter: store.go,            *)
(* int64_range_index.go and multi_value_index.go.  One int64_range and one *)
(* multi_value index over the waiting tickets.  The two multi_value        *)
(* variants of the code differ in the type of their keys only.             *)
(*                                                                         *)
(* The range index answers from a directory of its values in ascending     *)
(* order and from blocks that hold the documents of BlockSize consecutive  *)
(* values.  Directory and blocks are rebuilt at the next BeginTick once a  *)
(* value came or went, and the blocks are kept up to date in between.      *)
(***************************************************************************)
EXTENDS Integers, Sequences, FiniteSets, SequencesExt, FiniteSetsExt, Functions

CONSTANTS
  Docs,
  Tickets,           \* tickets: the int64 attribute (or NoValue) and the key list
  NoValue,
  MaxDocumentValues, \* of the multi_value index
  BlockSize          \* int64RangeBlockSize

IndexAssumption ==
  /\ BlockSize \in Nat \ {0}
  /\ \A t \in Tickets : t.value = NoValue \/ t.value \in Int

VARIABLES
  active,    \* DocIDs in the store
  snapshots, \* their tickets as they were added
  range,     \* the int64_range index
  multi,     \* the multi_value index
  session    \* a TickSession is open and nothing was added or removed since

vars == <<active, snapshots, range, multi, session>>

(* A map entry, the empty bitmap for none.                                 *)
At(f, x) == IF x \in DOMAIN f THEN f[x] ELSE {}

Put(f, x, v) == [y \in DOMAIN f \cup {x} |-> IF y = x THEN v ELSE f[y]]

(* A bitmap that got empty is deleted from its map.                        *)
Without(f, x, d) ==
  IF At(f, x) \subseteq {d} THEN Restrict(f, DOMAIN f \ {x}) ELSE [f EXCEPT ![x] = @ \ {d}]

Empty == Restrict([x \in {} |-> {}], {})

Init ==
  /\ active = {}
  /\ snapshots = Empty
  /\ range = [postings |-> Empty, valueOf |-> Empty, sorted |-> <<>>, dirty |-> FALSE,
              blocks |-> <<>>, blockOf |-> Empty]
  /\ multi = [postings |-> Empty, keysOf |-> Empty]
  /\ session = FALSE

-------------------------------------------------------------------------------
(* int64RangeIndex.                                                        *)

(* Seeded fault: a document of a known value stays out of its block.       *)
InBlocksUntouched(r, value, d) == r.blocks

InBlocks(r, value, d) ==
  IF value \in DOMAIN r.blockOf
  THEN [r.blocks EXCEPT ![r.blockOf[value]] = @ \cup {d}] ELSE r.blocks

OutOfBlocks(r, value, d) ==
  IF value \in DOMAIN r.blockOf
  THEN [r.blocks EXCEPT ![r.blockOf[value]] = @ \ {d}] ELSE r.blocks

AddRange(r, d, value) ==
  IF value = NoValue THEN r
  ELSE [r EXCEPT !.postings = Put(@, value, At(@, value) \cup {d}),
                 !.valueOf = Put(@, d, value),
                 !.dirty = @ \/ value \notin DOMAIN r.postings,
                 !.blocks = InBlocks(r, value, d)]

RemoveRange(r, d) ==
  IF d \notin DOMAIN r.valueOf THEN r
  ELSE LET value == r.valueOf[d]
       IN [r EXCEPT !.postings = Without(@, value, d),
                    !.valueOf = Restrict(@, DOMAIN @ \ {d}),
                    !.dirty = @ \/ r.postings[value] \subseteq {d},
                    !.blocks = OutOfBlocks(r, value, d)]

(* The block of the i-th value, blocks counted from 0.                     *)
BlockAt(i) == (i - 1) \div BlockSize

(* The place of a value in the ascending order of the values.              *)
Place(values, v) == Cardinality({w \in values : w <= v})

Ascending(values) ==
  [i \in 1..Cardinality(values) |-> CHOOSE v \in values : Place(values, v) = i]

Prepare(r) ==
  IF ~r.dirty THEN r
  ELSE LET values == DOMAIN r.postings
           n == Cardinality(values)
           Block(v) == BlockAt(Place(values, v)) + 1
       IN [r EXCEPT
            !.sorted = Ascending(values),
            !.blocks = [b \in 1..((n + BlockSize - 1) \div BlockSize) |->
                          UNION {r.postings[v] : v \in {w \in values : Block(w) = b}}],
            !.blockOf = [v \in values |-> Block(v)],
            !.dirty = FALSE]

(* rangeBounds: the values after the start-th up to the end-th.            *)
Start(min) == Cardinality({i \in DOMAIN range.sorted : range.sorted[i] < min})
End(max) == Cardinality({i \in DOMAIN range.sorted : range.sorted[i] <= max})

(* The bitmaps a range is read from: the values of its first and last      *)
(* block one by one, the blocks between as a whole.                        *)
Parts(min, max) ==
  LET start == Start(min)
      end == End(max)
      first == BlockAt(start + 1)
      last == BlockAt(end)
      Bitmaps(from, to) == [i \in 1..(to - from) |-> At(range.postings, range.sorted[from + i])]
  IN IF min > max \/ start >= end THEN <<>>
     ELSE IF first = last THEN Bitmaps(start, end)
     ELSE Bitmaps(start, Min({end, (first + 1) * BlockSize}))
            \o [i \in 1..(last - first - 1) |-> range.blocks[first + 1 + i]]
            \o Bitmaps(last * BlockSize, end)

LookupRange(min, max) == UNION Range(Parts(min, max))

EstimateRange(min, max) ==
  LET parts == Parts(min, max)
  IN MapThenSumSet(LAMBDA i : Cardinality(parts[i]), DOMAIN parts)

ContainsRange(min, max, d) ==
  d \in DOMAIN range.valueOf /\ range.valueOf[d] \in min..max

-------------------------------------------------------------------------------
(* stringIndex and uint64Index.                                            *)

(* uniqueStringsRuntime: each key once.                                    *)
KeysOf(ticket) == ToSet(ticket.keys)

Valid(ticket) == Cardinality(KeysOf(ticket)) <= MaxDocumentValues

AddKeys(m, d, keys) ==
  IF keys = {} THEN m
  ELSE [postings |-> [k \in DOMAIN m.postings \cup keys |->
                        At(m.postings, k) \cup IF k \in keys THEN {d} ELSE {}],
        keysOf |-> Put(m.keysOf, d, keys)]

(* Seeded fault: a document is taken out under one of its keys.            *)
RemoveOneKey(m, d) ==
  LET keys == At(m.keysOf, d)
  IN [postings |-> IF keys = {} THEN m.postings
                   ELSE Without(m.postings, CHOOSE k \in keys : TRUE, d),
      keysOf |-> Restrict(m.keysOf, DOMAIN m.keysOf \ {d})]

RemoveKeys(m, d) ==
  [postings |-> Restrict([k \in DOMAIN m.postings |-> m.postings[k] \ {d}],
                         {k \in DOMAIN m.postings : ~m.postings[k] \subseteq {d}}),
   keysOf |-> Restrict(m.keysOf, DOMAIN m.keysOf \ {d})]

LookupKeys(keys) == UNION {At(multi.postings, k) : k \in keys}

EstimateKeys(keys) == MapThenSumSet(LAMBDA k : Cardinality(At(multi.postings, k)), keys)

ContainsKeys(keys, d) == \E k \in keys : d \in At(multi.postings, k)

-------------------------------------------------------------------------------
(* IndexStore.                                                             *)

(* Seeded fault: each index validates only when its turn comes.            *)
AddDocInTurn(d, ticket) ==
  /\ d \notin active
  /\ range' = AddRange(range, d, ticket.value)
  /\ IF Valid(ticket)
     THEN /\ multi' = AddKeys(multi, d, KeysOf(ticket))
          /\ active' = active \cup {d}
          /\ snapshots' = Put(snapshots, d, ticket)
     ELSE UNCHANGED <<active, snapshots, multi>>
  /\ session' = FALSE

(* Every index validates the ticket before one of them takes it.           *)
AddDoc(d, ticket) ==
  /\ d \notin active
  /\ Valid(ticket)
  /\ active' = active \cup {d}
  /\ snapshots' = Put(snapshots, d, ticket)
  /\ range' = AddRange(range, d, ticket.value)
  /\ multi' = AddKeys(multi, d, KeysOf(ticket))
  /\ session' = FALSE

(* Seeded fault: the snapshot of the seed is not deleted.                  *)
RemoveDocOnly(d) ==
  /\ d \in active
  /\ active' = active \ {d}
  /\ range' = RemoveRange(range, d)
  /\ multi' = RemoveKeys(multi, d)
  /\ session' = FALSE
  /\ UNCHANGED snapshots

RemoveDoc(d) ==
  /\ d \in active
  /\ active' = active \ {d}
  /\ snapshots' = Restrict(snapshots, active \ {d})
  /\ range' = RemoveRange(range, d)
  /\ multi' = RemoveKeys(multi, d)
  /\ session' = FALSE

BeginTick ==
  /\ ~session
  /\ range' = Prepare(range)
  /\ session' = TRUE
  /\ UNCHANGED <<active, snapshots, multi>>

Next ==
  \/ \E d \in Docs : RemoveDoc(d) \/ \E t \in Tickets : AddDoc(d, t)
  \/ BeginTick

Spec == Init /\ [][Next]_vars

-------------------------------------------------------------------------------
TypeOK ==
  /\ active \subseteq Docs
  /\ DOMAIN snapshots = active
  /\ \A d \in active : snapshots[d] \in Tickets
  /\ range.dirty \in BOOLEAN /\ session \in BOOLEAN
  /\ Range(range.sorted) = DOMAIN range.blockOf

Values == {t.value : t \in Tickets} \ {NoValue}

Bounds == Values \cup {v - 1 : v \in Values}

Keys == UNION {KeysOf(t) : t \in Tickets}

InRange(min, max) ==
  {d \in active : snapshots[d].value # NoValue /\ snapshots[d].value \in min..max}

(* In a session every range finds exactly the tickets whose value is in    *)
(* it, whatever came and went since the directory was built, and the probe *)
(* of one document agrees with the lookup.                                 *)
RangeFound ==
  session =>
    \A min, max \in Bounds :
      LET found == InRange(min, max)
      IN /\ LookupRange(min, max) = found
         /\ {d \in Docs : ContainsRange(min, max, d)} = found

(* The estimate of a range is the number of the tickets it finds.          *)
RangeExact ==
  /\ RangeFound
  /\ session =>
       \A min, max \in Bounds : EstimateRange(min, max) = Cardinality(InRange(min, max))

HasOne(keys) == {d \in active : KeysOf(snapshots[d]) \cap keys # {}}

(* Every set of keys finds exactly the tickets that have one of them.      *)
KeysFound ==
  \A keys \in SUBSET Keys :
    LET found == HasOne(keys)
    IN /\ LookupKeys(keys) = found
       /\ \A d \in Docs : ContainsKeys(keys, d) <=> d \in found

(* The estimate of a set of keys is no less than the tickets it finds.     *)
KeysExact ==
  /\ KeysFound
  /\ \A keys \in SUBSET Keys : EstimateKeys(keys) >= Cardinality(HasOne(keys))

(* A ticket that left, or that was refused, is in no bitmap, and there is  *)
(* no bitmap left for a value or a key no waiting ticket has.              *)
NothingLeftBehind ==
  /\ \A i \in DOMAIN range.blocks : range.blocks[i] \subseteq active
  /\ DOMAIN range.valueOf = {d \in active : snapshots[d].value # NoValue}
  /\ DOMAIN multi.keysOf = {d \in active : KeysOf(snapshots[d]) # {}}
  /\ DOMAIN range.postings = {snapshots[d].value : d \in DOMAIN range.valueOf}
  /\ \A v \in DOMAIN range.postings : range.postings[v] \subseteq active
  /\ DOMAIN multi.postings = UNION {KeysOf(snapshots[d]) : d \in active}
================================================================================
