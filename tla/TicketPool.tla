------------------------------ MODULE TicketPool ------------------------------
(***************************************************************************)
(* What a LogicalNode's ticketStore promises its owner, without DocIDs,    *)
(* indexes or heaps: a partial map from TicketID to the one live Ticket    *)
(* object stored under it.  Objects are numbered in allocation order, so a *)
(* TicketID that is removed and added again names a different object.      *)
(***************************************************************************)
EXTENDS Naturals

CONSTANTS
  TicketIDs,   \* public identities
  MaxTickets   \* bound on the objects ever allocated

VARIABLES
  pool,        \* TicketID -> live object, 0 when the TicketID is not stored
  allocated    \* objects allocated so far

poolVars == <<pool, allocated>>

PoolTypeOK ==
  /\ allocated \in 0..MaxTickets
  /\ pool \in [TicketIDs -> 0..MaxTickets]

LiveIDs == {id \in TicketIDs : pool[id] # 0}

PoolInit ==
  /\ pool = [id \in TicketIDs |-> 0]
  /\ allocated = 0

(* A successful Add: the TicketID was free and now names a fresh object.   *)
PoolAdd(id) ==
  /\ pool[id] = 0
  /\ allocated < MaxTickets
  /\ allocated' = allocated + 1
  /\ pool' = [pool EXCEPT ![id] = allocated + 1]

(* Consuming tickets, by Remove (one) or by Commit (a whole match).        *)
PoolTake(ids) ==
  /\ ids # {}
  /\ ids \subseteq LiveIDs
  /\ pool' = [id \in TicketIDs |-> IF id \in ids THEN 0 ELSE pool[id]]
  /\ UNCHANGED allocated

PoolNext ==
  \/ \E id \in TicketIDs : PoolAdd(id)
  \/ \E ids \in SUBSET TicketIDs : PoolTake(ids)

PoolSpec == PoolInit /\ [][PoolNext]_poolVars

===============================================================================
