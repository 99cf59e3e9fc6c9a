------------------------------ MODULE TicketStore ------------------------------
(***************************************************************************)
(* internal/matchsystem/ticket_store.go: the Ticket lifetime of one        *)
(* LogicalNode.  A TicketID maps to a DocID and a DocID to a stored        *)
(* object; DocIDs are recycled through a stack while the oldest-waiting    *)
(* heap keeps entries of dead objects until they reach its top.  The       *)
(* owning PhysicalNode serialises the calls, so each one is one step.      *)
(*                                                                         *)
(* A stored object is known by its allocation number, its Go pointer:      *)
(* two objects may share a TicketID, a DocID and a CreatedAt.              *)
(***************************************************************************)
EXTENDS Naturals, Sequences, FiniteSets

CONSTANTS
  TicketIDs,
  CreatedAts,   \* waiting-since times a Ticket may carry
  MaxDocID,     \* largest DocID, 2^32 - 1 in the code
  MaxTickets,   \* bound on the objects ever allocated
  MaxGroup      \* bound on the members of a match handed to Commit

ASSUME StoreAssumption ==
  /\ CreatedAts \subseteq Nat
  /\ MaxDocID \in Nat \ {0}
  /\ MaxTickets \in Nat
  /\ MaxGroup \in Nat

VARIABLES
  nextDocID,        \* next DocID never issued, 0 once the counter wrapped
  freeDocIDs,       \* stack of recycled DocIDs
  objects,          \* every object allocated so far, by number
  ticketsByDocID,   \* DocID -> object, 0 when absent
  ticketIDToDocID,  \* TicketID -> DocID, 0 when absent
  active,           \* DocIDs in the prefilter's active bitmap
  oldestTickets,    \* objects in the oldest-waiting heap, dead ones included
  reply             \* outcome of the last call

vars == <<nextDocID, freeDocIDs, objects, ticketsByDocID, ticketIDToDocID,
          active, oldestTickets, reply>>

DocIDs == 1..MaxDocID
Object == [ticketID : TicketIDs, docID : DocIDs, createdAt : CreatedAts]

Outcomes == {"ok", "duplicate", "exhausted", "invalid", "absent", "rejected",
             "oldest", "empty", "panic"}

Ok == [outcome |-> "ok", value |-> 0]
Failed(why) == [outcome |-> why, value |-> 0]

Init ==
  /\ nextDocID = 1
  /\ freeDocIDs = <<>>
  /\ objects = <<>>
  /\ ticketsByDocID = [d \in DocIDs |-> 0]
  /\ ticketIDToDocID = [id \in TicketIDs |-> 0]
  /\ active = {}
  /\ oldestTickets = {}
  /\ reply = Ok

Stored(id) == ticketsByDocID[ticketIDToDocID[id]]
LiveDocIDs == {d \in DocIDs : ticketsByDocID[d] # 0}
(* Seeded fault: a heap entry counts as live when its DocID is in use.     *)
IsLiveByDocID(ref) == ticketsByDocID[objects[ref].docID] # 0

IsLive(ref) == ticketsByDocID[objects[ref].docID] = ref

-------------------------------------------------------------------------------
(* allocateDocID pops the stack first; the uint32 counter that follows     *)
(* wraps to zero, which is the exhausted state.                            *)
Recyclable == freeDocIDs # <<>>
(* Seeded fault: recycled DocIDs are never handed out again.               *)
CanAllocateFreshOnly == nextDocID # 0

CanAllocate == Recyclable \/ nextDocID # 0

AllocatedDocID ==
  IF Recyclable THEN freeDocIDs[Len(freeDocIDs)] ELSE nextDocID

(* Seeded fault: the DocID counter does not wrap.                          *)
NextAfterAllocateUnwrapped ==
  IF Recyclable THEN nextDocID ELSE nextDocID + 1

NextAfterAllocate ==
  IF Recyclable THEN nextDocID ELSE (nextDocID + 1) % (MaxDocID + 1)

FreeAfterAllocate ==
  IF Recyclable THEN SubSeq(freeDocIDs, 1, Len(freeDocIDs) - 1) ELSE freeDocIDs

(* releaseFailedDocID: the DocID just allocated, perhaps a fresh one, goes *)
(* on the stack.  Seeded fault: it is lost.                                *)
FreeAfterLeak == FreeAfterAllocate

FreeAfterRelease == Append(FreeAfterAllocate, AllocatedDocID)

Add(id, created) ==
  /\ ticketIDToDocID[id] = 0
  /\ CanAllocate
  /\ Len(objects) < MaxTickets
  /\ LET docID == AllocatedDocID
         ref == Len(objects) + 1
     IN /\ docID \notin active
        /\ objects' = Append(objects, [ticketID |-> id, docID |-> docID,
                                       createdAt |-> created])
        /\ ticketsByDocID' = [ticketsByDocID EXCEPT ![docID] = ref]
        /\ ticketIDToDocID' = [ticketIDToDocID EXCEPT ![id] = docID]
        /\ active' = active \cup {docID}
        /\ oldestTickets' = oldestTickets \cup {ref}
  /\ nextDocID' = NextAfterAllocate
  /\ freeDocIDs' = FreeAfterAllocate
  /\ reply' = Ok

(* The prefilter refuses the ticket: its attributes break the contract, or *)
(* an index would hold too many values.                                    *)
AddInvalid(id) ==
  /\ ticketIDToDocID[id] = 0
  /\ CanAllocate
  /\ nextDocID' = NextAfterAllocate
  /\ freeDocIDs' = FreeAfterRelease
  /\ reply' = Failed("invalid")
  /\ UNCHANGED <<objects, ticketsByDocID, ticketIDToDocID, active, oldestTickets>>

AddRefused(id) ==
  /\ \/ /\ ticketIDToDocID[id] # 0
        /\ reply' = Failed("duplicate")
     \/ /\ ticketIDToDocID[id] = 0
        /\ ~CanAllocate
        /\ reply' = Failed("exhausted")
  /\ UNCHANGED <<nextDocID, freeDocIDs, objects, ticketsByDocID,
                 ticketIDToDocID, active, oldestTickets>>

(* removeDocID over a list of DocIDs, in order: every index forgets them,  *)
(* the heap does not, and each is recycled.  It panics when the prefilter  *)
(* does not hold one of them.  Seeded faults: an index keeps the entry.    *)
ActiveKept(docs) == active

ActiveWithout(docs) == active \ docs

TicketIDsKept(docs) == ticketIDToDocID

TicketIDsWithout(docs) ==
  [id \in TicketIDs |-> IF ticketIDToDocID[id] \in docs THEN 0 ELSE ticketIDToDocID[id]]

RemoveDocIDs(docs) ==
  LET gone == {docs[i] : i \in DOMAIN docs}
  IN /\ ticketsByDocID' = [d \in DocIDs |-> IF d \in gone THEN 0 ELSE ticketsByDocID[d]]
     /\ ticketIDToDocID' = TicketIDsWithout(gone)
     /\ active' = ActiveWithout(gone)
     /\ freeDocIDs' = freeDocIDs \o docs
     /\ reply' = IF gone \subseteq active THEN Ok ELSE Failed("panic")
     /\ UNCHANGED <<nextDocID, objects, oldestTickets>>

Remove(id) ==
  \/ /\ ticketIDToDocID[id] # 0
     /\ RemoveDocIDs(<<ticketIDToDocID[id]>>)
  \/ /\ ticketIDToDocID[id] = 0
     /\ reply' = Failed("absent")
     /\ UNCHANGED <<nextDocID, freeDocIDs, objects, ticketsByDocID,
                    ticketIDToDocID, active, oldestTickets>>

-------------------------------------------------------------------------------
(* A match member is a Ticket pointer: one the store handed out, live or   *)
(* long gone, or a caller's clone of a ticket (ref 0).                     *)
Pointers ==
  {[ticketID |-> objects[r].ticketID, ref |-> r] : r \in DOMAIN objects}
    \cup [ticketID : TicketIDs, ref : {0}]

Matches == UNION {[1..n -> Pointers] : n \in 1..MaxGroup}

(* Seeded fault: the preflight compares TicketIDs, not Ticket pointers.    *)
CommittableByTicketID(match) ==
  /\ \A i, j \in DOMAIN match : match[i].ticketID = match[j].ticketID => i = j
  /\ \A i \in DOMAIN match : ticketIDToDocID[match[i].ticketID] # 0

Committable(match) ==
  /\ \A i, j \in DOMAIN match : match[i].ticketID = match[j].ticketID => i = j
  /\ \A i \in DOMAIN match :
       /\ ticketIDToDocID[match[i].ticketID] # 0
       /\ Stored(match[i].ticketID) = match[i].ref

Commit(match) ==
  \/ /\ Committable(match)
     /\ RemoveDocIDs([i \in DOMAIN match |-> ticketIDToDocID[match[i].ticketID]])
  \/ /\ ~Committable(match)
     /\ reply' = Failed("rejected")
     /\ UNCHANGED <<nextDocID, freeDocIDs, objects, ticketsByDocID,
                    ticketIDToDocID, active, oldestTickets>>

-------------------------------------------------------------------------------
(* oldestCreatedAt pops dead entries until a live one is on top.  The heap *)
(* orders by CreatedAt, then DocID; entries equal in both may be on top in *)
(* any order.                                                              *)
Before(r, s) ==
  \/ objects[r].createdAt < objects[s].createdAt
  \/ /\ objects[r].createdAt = objects[s].createdAt
     /\ objects[r].docID < objects[s].docID

OldestCreatedAt ==
  LET dead == {r \in oldestTickets : ~IsLive(r)}
  IN /\ \/ \E top \in oldestTickets \ dead, popped \in SUBSET dead :
             /\ \A r \in oldestTickets \ popped : ~Before(r, top)
             /\ \A r \in popped : ~Before(top, r)
             /\ oldestTickets' = oldestTickets \ popped
             /\ reply' = [outcome |-> "oldest", value |-> objects[top].createdAt]
        \/ /\ oldestTickets \subseteq dead
           /\ oldestTickets' = {}
           /\ reply' = Failed("empty")
     /\ UNCHANGED <<nextDocID, freeDocIDs, objects, ticketsByDocID,
                    ticketIDToDocID, active>>

-------------------------------------------------------------------------------
Next ==
  \/ \E id \in TicketIDs : \/ \E t \in CreatedAts : Add(id, t)
                           \/ AddInvalid(id)
                           \/ AddRefused(id)
                           \/ Remove(id)
  \/ \E match \in Matches : Commit(match)
  \/ OldestCreatedAt

Spec == Init /\ [][Next]_vars

-------------------------------------------------------------------------------
FreeDocIDs == {freeDocIDs[i] : i \in DOMAIN freeDocIDs}
IssuedDocIDs == IF nextDocID = 0 THEN DocIDs ELSE 1..(nextDocID - 1)
LiveRefs == {ticketsByDocID[d] : d \in LiveDocIDs}

TypeOK ==
  /\ nextDocID \in 0..MaxDocID
  /\ freeDocIDs \in Seq(DocIDs)
  /\ objects \in Seq(Object)
  /\ Len(objects) <= MaxTickets
  /\ ticketsByDocID \in [DocIDs -> 0..Len(objects)]
  /\ ticketIDToDocID \in [TicketIDs -> 0..MaxDocID]
  /\ active \subseteq DocIDs
  /\ oldestTickets \subseteq 1..Len(objects)
  /\ reply \in [outcome : Outcomes, value : Nat]

(* Every DocID ever issued is live or on the free stack, once: none leaks  *)
(* when the prefilter refuses an Add, none is handed out twice.            *)
DocIDsPartitioned ==
  /\ \A i, j \in DOMAIN freeDocIDs : freeDocIDs[i] = freeDocIDs[j] => i = j
  /\ FreeDocIDs \cap LiveDocIDs = {}
  /\ FreeDocIDs \cup LiveDocIDs = IssuedDocIDs

(* TicketID -> DocID and DocID -> object are inverse to each other and the *)
(* prefilter holds exactly the live DocIDs, so the consistency panic of    *)
(* removeDocID is never raised.                                            *)
IndexesAgree ==
  /\ active = LiveDocIDs
  /\ \A id \in TicketIDs : ticketIDToDocID[id] # 0 =>
       /\ Stored(id) # 0
       /\ objects[Stored(id)].ticketID = id
  /\ \A d \in LiveDocIDs :
       /\ objects[ticketsByDocID[d]].docID = d
       /\ ticketIDToDocID[objects[ticketsByDocID[d]].ticketID] = d
  /\ reply.outcome # "panic"

(* oldestCreatedAt reports the smallest CreatedAt of the live tickets,     *)
(* however many dead objects share the DocIDs of live ones in the heap.    *)
OldestIsExact ==
  /\ LiveRefs \subseteq oldestTickets
  /\ reply.outcome = "empty" => LiveRefs = {}
  /\ reply.outcome = "oldest" =>
       /\ \E r \in LiveRefs : objects[r].createdAt = reply.value
       /\ \A r \in LiveRefs : reply.value <= objects[r].createdAt

(* Add reports exhaustion only when every DocID is held by a live ticket.  *)
ExhaustedOnlyWhenFull == reply.outcome = "exhausted" => LiveDocIDs = DocIDs

(* Commit consumes every object its match points to or nothing at all; a   *)
(* pointer to a removed object never consumes the ticket that took over    *)
(* its TicketID or its DocID.                                              *)
CommitAllOrNothing ==
  [][\A match \in Matches : Commit(match) =>
       LiveRefs \ LiveRefs' \in {{}, {match[i].ref : i \in DOMAIN match}}]_vars

(* The store implements the partial map from TicketID to object.           *)
Pool == INSTANCE TicketPool WITH
  pool <- [id \in TicketIDs |-> IF ticketIDToDocID[id] = 0 THEN 0 ELSE Stored(id)],
  allocated <- Len(objects)

ImplementsPool == Pool!PoolSpec

===============================================================================
