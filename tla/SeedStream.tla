------------------------------ MODULE SeedStream ------------------------------
(***************************************************************************)
(* The SeedOrderRuntime contract (internal/matchsystem/seed_order.go,      *)
(* lines 50-69) that LogicalNode relies on and every policy implements:    *)
(* a stream of TicketIDs.  An ID is ready when the stream may still yield  *)
(* it in the current round and held when it waits for the next one.        *)
(***************************************************************************)
EXTENDS Integers

CONSTANTS
  TicketIDs,
  Limits      \* round limits an owner may ask for

VARIABLES
  ready,    \* IDs the stream may still yield in this round
  held,     \* IDs kept until the next BeginRound
  limit,    \* most IDs the stream yields in this round
  yielded,  \* IDs yielded so far in this round
  open      \* a round has begun

streamVars == <<ready, held, limit, yielded, open>>

StreamTypeOK ==
  /\ ready \subseteq TicketIDs
  /\ held \subseteq TicketIDs
  /\ limit \in Nat
  /\ yielded \in Nat
  /\ open \in BOOLEAN

StreamInit ==
  /\ ready = {}
  /\ held = {}
  /\ limit = 0
  /\ yielded = 0
  /\ open = FALSE

HasNext == open /\ yielded < limit /\ ready # {}

(* A new ID, or a replacement of one, becomes ready at once; the arrival   *)
(* policy puts it behind an exhausted cursor, where it is held instead.    *)
StreamAdd(id) ==
  /\ \/ /\ ready' = ready \cup {id}
        /\ held' = held \ {id}
     \/ /\ ready' = ready \ {id}
        /\ held' = held \cup {id}
  /\ UNCHANGED <<limit, yielded, open>>

(* Seeded fault: an ID that waits for the next round is not removed.       *)
StreamRemoveReady(ids) ==
  /\ ready' = ready \ ids
  /\ UNCHANGED <<held, limit, yielded, open>>

StreamRemove(ids) ==
  /\ ready' = ready \ ids
  /\ held' = held \ ids
  /\ UNCHANGED <<limit, yielded, open>>

(* Seeded fault: the held IDs are not restored.                            *)
StreamBeginRoundKeeping(n) ==
  /\ limit' = n
  /\ yielded' = 0
  /\ open' = TRUE
  /\ UNCHANGED <<ready, held>>

StreamBeginRound(n) ==
  /\ ready' = ready \cup held
  /\ held' = {}
  /\ limit' = IF n < 0 THEN 0 ELSE n
  /\ yielded' = 0
  /\ open' = TRUE

StreamNext(id) ==
  /\ HasNext
  /\ id \in ready
  /\ ready' = ready \ {id}
  /\ held' = held \cup {id}
  /\ yielded' = yielded + 1
  /\ UNCHANGED <<limit, open>>

StreamStep ==
  \/ \E id \in TicketIDs : StreamAdd(id) \/ StreamNext(id)
  \/ \E ids \in SUBSET TicketIDs : StreamRemove(ids)
  \/ \E n \in Limits : StreamBeginRound(n)

StreamSpec == StreamInit /\ [][StreamStep]_streamVars

===============================================================================
