---------------------------- MODULE RandomSeedOrder ----------------------------
(***************************************************************************)
(* internal/matchsystem/seed_order.go, randomSeedOrderPolicy: a dense      *)
(* array of waiting TicketIDs, one of which is drawn at random, an array   *)
(* of the IDs held until the next round, and the position of each ID.      *)
(* Arrays start at 1 and the position 0 stands for an absent key.          *)
(***************************************************************************)
EXTENDS Integers, Sequences

CONSTANTS
  TicketIDs,
  Limits        \* round limits an owner may ask for

RandomAssumption == Limits \subseteq Int

VARIABLES
  ticketIDs, positions,
  held, heldPositions,
  roundLimit, roundYielded, roundActive

arrays == <<ticketIDs, positions, held, heldPositions>>
roundVars == <<roundLimit, roundYielded, roundActive>>
vars == <<arrays, roundVars>>

NoPositions == [id \in TicketIDs |-> 0]

Init ==
  /\ ticketIDs = <<>> /\ positions = NoPositions
  /\ held = <<>> /\ heldPositions = NoPositions
  /\ roundLimit = 0
  /\ roundYielded = 0
  /\ roundActive = FALSE

(* Swap-remove: the last ID moves into the gap, with its position.         *)
SwapRemove(array, i) ==
  [j \in 1..(Len(array) - 1) |-> IF j = i THEN array[Len(array)] ELSE array[j]]

(* Seeded fault: the position of the moved ID is not updated.              *)
PositionsWithoutMove(array, where, id) == [where EXCEPT ![id] = 0]

PositionsWithout(array, where, id) ==
  [where EXCEPT ![array[Len(array)]] = where[id], ![id] = 0]

(* Remove looks for the ID in the waiting array first, then in held.       *)
RemoveID(id) ==
  IF positions[id] # 0
  THEN /\ ticketIDs' = SwapRemove(ticketIDs, positions[id])
       /\ positions' = PositionsWithout(ticketIDs, positions, id)
       /\ UNCHANGED <<held, heldPositions>>
  ELSE /\ held' = SwapRemove(held, heldPositions[id])
       /\ heldPositions' = PositionsWithout(held, heldPositions, id)
       /\ UNCHANGED <<ticketIDs, positions>>

Remove(id) ==
  /\ positions[id] # 0 \/ heldPositions[id] # 0
  /\ RemoveID(id)
  /\ UNCHANGED roundVars

-------------------------------------------------------------------------------
(* A TicketID that is present is removed first, wherever it is.            *)
Add(id) ==
  /\ IF positions[id] # 0
     THEN LET array == SwapRemove(ticketIDs, positions[id])
              where == PositionsWithout(ticketIDs, positions, id)
          IN /\ ticketIDs' = Append(array, id)
             /\ positions' = [where EXCEPT ![id] = Len(array) + 1]
     ELSE /\ ticketIDs' = Append(ticketIDs, id)
          /\ positions' = [positions EXCEPT ![id] = Len(ticketIDs) + 1]
  /\ IF heldPositions[id] # 0
     THEN /\ held' = SwapRemove(held, heldPositions[id])
          /\ heldPositions' = PositionsWithout(held, heldPositions, id)
     ELSE UNCHANGED <<held, heldPositions>>
  /\ UNCHANGED roundVars

(* Restored IDs follow the waiting ones, in their order in held.           *)
RestoredPositions ==
  [id \in TicketIDs |->
     IF \E i \in DOMAIN held : held[i] = id
     THEN Len(ticketIDs) + (CHOOSE i \in DOMAIN held : held[i] = id)
     ELSE positions[id]]

BeginRound(limit) ==
  /\ ticketIDs' = ticketIDs \o held
  /\ positions' = RestoredPositions
  /\ held' = <<>>
  /\ heldPositions' = NoPositions
  /\ roundLimit' = IF limit < 0 THEN 0 ELSE limit
  /\ roundYielded' = 0
  /\ roundActive' = TRUE

(* Seeded fault: the round yields one seed more than its limit.            *)
HasNextAtLimit == roundActive /\ roundYielded <= roundLimit /\ ticketIDs # <<>>

HasNext == roundActive /\ roundYielded < roundLimit /\ ticketIDs # <<>>

(* Seeded fault: the ID that was drawn is not held.                        *)
HoldNothing(id) == UNCHANGED <<held, heldPositions>>

Hold(id) ==
  /\ held' = Append(held, id)
  /\ heldPositions' = [heldPositions EXCEPT ![id] = Len(held) + 1]

Next ==
  /\ HasNext
  /\ \E i \in DOMAIN ticketIDs :
       /\ ticketIDs' = SwapRemove(ticketIDs, i)
       /\ positions' =
            [positions EXCEPT ![ticketIDs[Len(ticketIDs)]] = i, ![ticketIDs[i]] = 0]
       /\ Hold(ticketIDs[i])
  /\ roundYielded' = roundYielded + 1
  /\ UNCHANGED <<roundLimit, roundActive>>

Step ==
  \/ \E id \in TicketIDs : Add(id) \/ Remove(id)
  \/ \E limit \in Limits : BeginRound(limit)
  \/ Next

Spec == Init /\ [][Step]_vars

-------------------------------------------------------------------------------
TypeOK ==
  /\ ticketIDs \in Seq(TicketIDs)
  /\ held \in Seq(TicketIDs)
  /\ positions \in [TicketIDs -> 0..Len(ticketIDs)]
  /\ heldPositions \in [TicketIDs -> 0..Len(held)]
  /\ roundLimit \in Nat
  /\ roundYielded \in 0..roundLimit
  /\ roundActive \in BOOLEAN

(* Both position maps are the inverses of their arrays after any sequence  *)
(* of swap-removes, and no ID is in both arrays: an ID is drawn at most    *)
(* once per round and a removal never takes out a neighbour.               *)
PositionsExact ==
  /\ \A i \in DOMAIN ticketIDs : positions[ticketIDs[i]] = i
  /\ \A i \in DOMAIN held : heldPositions[held[i]] = i
  /\ \A id \in TicketIDs :
       /\ positions[id] # 0 => ticketIDs[positions[id]] = id
       /\ heldPositions[id] # 0 => held[heldPositions[id]] = id
       /\ positions[id] = 0 \/ heldPositions[id] = 0

(* The policy implements the stream contract: it never repeats a seed in a *)
(* round, never drops a waiting ticket, and stays within the limit.        *)
Stream == INSTANCE SeedStream WITH
  ready <- {ticketIDs[i] : i \in DOMAIN ticketIDs},
  held <- {held[i] : i \in DOMAIN held},
  limit <- roundLimit, yielded <- roundYielded, open <- roundActive

ImplementsStream == Stream!StreamSpec

===============================================================================
