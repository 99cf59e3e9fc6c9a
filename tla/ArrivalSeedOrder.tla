--------------------------- MODULE ArrivalSeedOrder ---------------------------
(***************************************************************************)
(* internal/matchsystem/seed_order.go, arrivalSeedOrderPolicy: waiting     *)
(* TicketIDs in a linked list in arrival order, read by a round cursor.    *)
(* List elements are numbered as they are pushed to the back, so the order *)
(* of the list is the order of the numbers; 0 is Go's nil element.         *)
(***************************************************************************)
EXTENDS Integers, Sequences, FiniteSets

CONSTANTS
  TicketIDs,
  MaxElements,   \* bound on the elements ever pushed
  Limits         \* round limits an owner may ask for

ASSUME ArrivalAssumption ==
  /\ MaxElements \in Nat
  /\ Limits \subseteq Int

VARIABLES
  entries,       \* elements linked in the list
  ticketID,      \* element -> the TicketID it carries
  active,        \* TicketID -> its element
  roundCursor,
  roundLimit,
  roundYielded,
  roundActive,
  roundOrder,    \* history: elements yielded in this round, in order
  captured       \* history: elements pushed before this round began

listVars == <<entries, ticketID, active>>
roundVars == <<roundLimit, roundYielded, roundActive, roundOrder, captured>>
vars == <<listVars, roundCursor, roundVars>>

Init ==
  /\ entries = {}
  /\ ticketID = <<>>
  /\ active = [id \in TicketIDs |-> 0]
  /\ roundCursor = 0
  /\ roundLimit = 0
  /\ roundYielded = 0
  /\ roundActive = FALSE
  /\ roundOrder = <<>>
  /\ captured = 0

First(S) == IF S = {} THEN 0 ELSE CHOOSE e \in S : \A x \in S : e <= x

(* container/list: the Next of an element that was unlinked is nil.        *)
NextElement(e) == IF e \in entries THEN First({x \in entries : x > e}) ELSE 0

(* Seeded fault: unlinking does not move the cursor off the element.       *)
CursorLeftBehind(e) == roundCursor

CursorWithout(e) == IF roundCursor = e THEN NextElement(e) ELSE roundCursor

-------------------------------------------------------------------------------
(* A TicketID that is already active moves to the back of the list.        *)
Add(id) ==
  /\ Len(ticketID) < MaxElements
  /\ LET element == Len(ticketID) + 1
         previous == active[id]
     IN /\ roundCursor' = IF previous = 0 THEN roundCursor ELSE CursorWithout(previous)
        /\ entries' = (entries \ {previous}) \cup {element}
        /\ ticketID' = Append(ticketID, id)
        /\ active' = [active EXCEPT ![id] = element]
  /\ UNCHANGED roundVars

Remove(id) ==
  /\ active[id] # 0
  /\ roundCursor' = CursorWithout(active[id])
  /\ entries' = entries \ {active[id]}
  /\ active' = [active EXCEPT ![id] = 0]
  /\ UNCHANGED <<ticketID, roundVars>>

BeginRound(limit) ==
  /\ roundLimit' = IF limit < 0 THEN 0 ELSE limit
  /\ roundYielded' = 0
  /\ roundActive' = TRUE
  /\ roundCursor' = First(entries)
  /\ roundOrder' = <<>>
  /\ captured' = Len(ticketID)
  /\ UNCHANGED listVars

(* Seeded fault: the round yields one seed more than its limit.            *)
HasNextAtLimit == roundActive /\ roundYielded <= roundLimit /\ roundCursor # 0

HasNext == roundActive /\ roundYielded < roundLimit /\ roundCursor # 0

(* The elements from the cursor on, up to the end of the list.             *)
Ahead == {roundCursor} \cup {e \in entries : roundCursor \in entries /\ e > roundCursor}

(* Seeded fault: the cursor steps over one element more.                   *)
CursorAfterSkipping(e) == NextElement(NextElement(e))

CursorAfter(e) == NextElement(e)

(* Next yields the first element from the cursor on that its TicketID      *)
(* still owns, and leaves the cursor behind it.                            *)
Next ==
  /\ HasNext
  /\ LET seed == First({e \in Ahead : active[ticketID[e]] = e})
     IN /\ roundCursor' = CursorAfter(seed)
        /\ IF seed = 0
           THEN UNCHANGED <<roundYielded, roundOrder>>
           ELSE /\ roundYielded' = roundYielded + 1
                /\ roundOrder' = Append(roundOrder, seed)
  /\ UNCHANGED <<listVars, roundLimit, roundActive, captured>>

Step ==
  \/ \E id \in TicketIDs : Add(id) \/ Remove(id)
  \/ \E limit \in Limits : BeginRound(limit)
  \/ Next

Spec == Init /\ [][Step]_vars

-------------------------------------------------------------------------------
TypeOK ==
  /\ ticketID \in Seq(TicketIDs)
  /\ Len(ticketID) <= MaxElements
  /\ entries \subseteq 1..Len(ticketID)
  /\ active \in [TicketIDs -> 0..Len(ticketID)]
  /\ roundCursor \in 0..Len(ticketID)
  /\ roundLimit \in Nat
  /\ roundYielded \in 0..roundLimit
  /\ roundActive \in BOOLEAN
  /\ roundOrder \in Seq(1..Len(ticketID))
  /\ captured \in 0..Len(ticketID)

(* The list and the map describe the same tickets, and the cursor is never *)
(* left on an element that Remove or a replacing Add has unlinked.         *)
CursorLinked ==
  /\ entries = {active[id] : id \in TicketIDs} \ {0}
  /\ \A id \in TicketIDs : active[id] # 0 => ticketID[active[id]] = id
  /\ roundCursor # 0 => roundCursor \in entries

(* A round yields seeds in arrival order and overtakes no waiting ticket;  *)
(* when its cursor runs out, it has yielded every ticket captured at its   *)
(* start that still waits.                                                 *)
RoundFollowsArrival ==
  LET order == {roundOrder[i] : i \in DOMAIN roundOrder}
  IN /\ \A i, j \in DOMAIN roundOrder : i < j => roundOrder[i] < roundOrder[j]
     /\ \A e \in entries : (\E y \in order : e < y) => e \in order
     /\ roundActive /\ roundCursor = 0 => \A e \in entries : e <= captured => e \in order

(* The policy implements the stream contract: it never repeats a seed in a *)
(* round, never drops a waiting ticket, and stays within the limit.        *)
Ready ==
  IF roundActive /\ roundCursor # 0
  THEN {id \in TicketIDs : active[id] >= roundCursor} ELSE {}

Waiting == {id \in TicketIDs : active[id] # 0}

Stream == INSTANCE SeedStream WITH
  ready <- Ready, held <- Waiting \ Ready,
  limit <- roundLimit, yielded <- roundYielded, open <- roundActive

ImplementsStream == Stream!StreamSpec

(* doc/match-system/architecture.md: a ticket added after BeginMatchRound  *)
(* only enters the next round.                                             *)
LateTicketsWait == \A i \in DOMAIN roundOrder : roundOrder[i] <= captured

===============================================================================
