----------------------------- MODULE MCSelection -----------------------------
(***************************************************************************)
(* What is tried next as a seed: the arrival policy of a partition (the    *)
(* module extended), beside it the ranked and the random one and the heap  *)
(* under the ranked one.  They share no state: a behaviour picks one of    *)
(* them and leaves the others in their initial state.                      *)
(***************************************************************************)
EXTENDS ArrivalSeedOrder, TLC

CONSTANTS d, NoKey

VARIABLES
  part,
  kAscending, kCreated, kFlag, kActive, kEntries, kHeld, kHeldIndex,
  kLimit, kYielded, kRound,
  rIDs, rPositions, rHeld, rHeldPositions, rLimit, rYielded, rRound,
  heap, popped

kVars ==
  <<kAscending, kCreated, kFlag, kActive, kEntries, kHeld, kHeldIndex, kLimit, kYielded,
    kRound>>
rVars == <<rIDs, rPositions, rHeld, rHeldPositions, rLimit, rYielded, rRound>>
hVars == <<heap, popped>>
selectionVars == <<part, vars, kVars, rVars, hVars>>

AnyLimit == {-1, 1, 3}

(* The oldest policy has a rank for every ticket, the priority policy not. *)
FieldRanks ==
  [present : {TRUE}, value : {-1, 1}] \cup {[present |-> FALSE, value |-> 0]}

Ranked == INSTANCE RankedSeedOrder WITH
  Ranks <- FieldRanks, MaxEntries <- 4,
  ascending <- kAscending, created <- kCreated, activeFlag <- kFlag,
  active <- kActive, entries <- kEntries, held <- kHeld, heldIndex <- kHeldIndex,
  roundLimit <- kLimit, roundYielded <- kYielded, roundActive <- kRound

Random == INSTANCE RandomSeedOrder WITH
  TicketIDs <- TicketIDs \cup {d}, Limits <- {-1, 2, 3},
  ticketIDs <- rIDs, positions <- rPositions,
  held <- rHeld, heldPositions <- rHeldPositions,
  roundLimit <- rLimit, roundYielded <- rYielded, roundActive <- rRound

Heap == INSTANCE HeapOperations WITH MaxValue <- 7

ASSUME Bounds == Ranked!RankedAssumption /\ Random!RandomAssumption

SelectionInit ==
  /\ part \in {"arrival", "ranked", "random", "heap"}
  /\ Init /\ Ranked!Init /\ Random!Init /\ Heap!Init
  /\ kAscending => part = "ranked"

SelectionNext ==
  \/ part = "arrival" /\ Step /\ UNCHANGED <<part, kVars, rVars, hVars>>
  \/ part = "ranked" /\ Ranked!Step /\ UNCHANGED <<part, vars, rVars, hVars>>
  \/ part = "random" /\ Random!Step /\ UNCHANGED <<part, vars, kVars, hVars>>
  \/ part = "heap" /\ Heap!Next /\ UNCHANGED <<part, vars, kVars, rVars>>

SelectionSpec == SelectionInit /\ [][SelectionNext]_selectionVars

Symmetry == Permutations(TicketIDs)

-------------------------------------------------------------------------------
(* The redundant state of the other policies stays exact through removals  *)
(* and replacements in mid-round: every ranked entry and every random ID   *)
(* is in one array at the position recorded for it, and the heap is one.   *)
(* A pop of the heap returns its least value and loses none, so that a     *)
(* ranked policy yields its best rank: a present value first, the better   *)
(* value, the earlier arrival.  Both implement the stream contract that    *)
(* LogicalNode relies on: no seed twice in a round, no waiting ticket      *)
(* dropped, no limit exceeded.                                             *)
OtherPoliciesExact ==
  /\ [](CASE part = "arrival" -> TypeOK
         [] part = "ranked" -> Ranked!TypeOK /\ Ranked!PositionsExact
         [] part = "random" -> Random!TypeOK /\ Random!PositionsExact
         [] part = "heap" -> Heap!HeapOrdered /\ Heap!IndexExact)
  /\ Heap!OperationsExact
  /\ Ranked!YieldsBestRank
  /\ Ranked!ImplementsStream
  /\ Random!ImplementsStream
===============================================================================
