------------------------------ MODULE TicketBatch ------------------------------
(***************************************************************************)
(* Batches of tickets: CreateTicketsBatch, createGeneratedTickets and      *)
(* rollbackTickets of internal/simulatorapi/adapter.go, and AddBatch of    *)
(* internal/simulator/generator.go.                                        *)
(*                                                                         *)
(* AddBatch holds Simulator.mu throughout.  The adapter calls the          *)
(* Simulator once per ticket, so that matches, deletions, other clients    *)
(* and scenario replacements fall between two of its calls, also between   *)
(* those of a rollback.  One partition is addressed; every successful      *)
(* insertion gets a number of its own, which the program does not have.    *)
(***************************************************************************)
EXTENDS Naturals, FiniteSets, Sequences, FiniteSetsExt

CONSTANTS
  Clients,
  TicketIDs,
  Batches,          \* the sequences of TicketIDs clients send
  Kinds,            \* subset of {"atomic", "list", "generated", "direct"}
  MaxInserts,       \* bound on the successful insertions
  MaxReplacements   \* bound on the ReplaceScenario calls

ASSUME BatchAssumption ==
  /\ \A b \in Batches : b \in Seq(TicketIDs) /\ b # <<>>
  /\ Kinds \subseteq {"atomic", "list", "generated", "direct"}

VARIABLES
  pool,         \* per TicketID: the number of the insertion that waits, or 0
  served,       \* the published scenario has the addressed placement
  closed,
  batch,        \* per client: the batch it is at
  inserts,      \* insertions so far
  replacements, \* bound: ReplaceScenario calls so far
  strays        \* history: insertions a rollback removed that were not its own

vars == <<pool, served, closed, batch, inserts, replacements, strays>>

Idle == [pc |-> "idle"]

Init ==
  /\ pool = [id \in TicketIDs |-> 0]
  /\ served = TRUE
  /\ closed = FALSE
  /\ batch = [c \in Clients |-> Idle]
  /\ inserts = 0
  /\ replacements = 0
  /\ strays = {}

-------------------------------------------------------------------------------
(* The adapter's calls.  added holds the tickets of the batch so far, left *)
(* how many of them a rollback still has to remove, answer what the client *)
(* is told.  A client sends one batch and may leave at any moment (gone),  *)
(* which ends the context of the calls to come.                            *)

Begin(c, kind, ids) ==
  /\ batch[c] = Idle
  /\ kind # "direct"
  /\ batch' = [batch EXCEPT ![c] =
       [pc |-> "resolve", kind |-> kind, ids |-> ids, todo |-> ids,
        added |-> <<>>, left |-> 0, rejected |-> 0, unseen |-> 0, gone |-> FALSE,
        failed |-> FALSE, answer |-> "none"]]
  /\ UNCHANGED <<pool, served, closed, inserts, replacements, strays>>

(* Seeded fault: an atomic batch goes on behind a rejected ticket.         *)
AfterRejectionGoOn(b) ==
  LET r == [b EXCEPT !.rejected = @ + 1, !.todo = Tail(@), !.pc = "resolve"]
  IN IF r.todo = <<>> THEN [r EXCEPT !.pc = "idle", !.answer = "done"] ELSE r

(* Seeded fault: a rejected ticket is tried again.                         *)
AfterRejectionRetry(b) == [b EXCEPT !.rejected = @ + 1, !.pc = "resolve"]

(* A rejection: an atomic batch rolls back, a generated one stops with the *)
(* error, a list goes on with its next ticket.                             *)
AfterRejection(b) ==
  LET r == [b EXCEPT !.rejected = @ + 1, !.todo = Tail(@), !.pc = "resolve"]
  IN CASE b.kind = "atomic" -> [r EXCEPT !.pc = "undo", !.left = Len(b.added)]
       [] b.kind = "generated" -> [r EXCEPT !.pc = "idle", !.answer = "error"]
       [] b.kind = "list" /\ r.todo = <<>> -> [r EXCEPT !.pc = "idle", !.answer = "done"]
       [] OTHER -> r

(* resolvePlacement reads the scenario in a call of its own.               *)
Resolve(c) ==
  /\ batch[c].pc = "resolve"
  /\ batch' = [batch EXCEPT ![c] = IF served /\ ~closed /\ ~batch[c].gone THEN [@ EXCEPT !.pc = "insert"]
                                   ELSE AfterRejection(@)]
  /\ UNCHANGED <<pool, served, closed, inserts, replacements, strays>>

(* AddRoutedTicket: the owner may be gone again, the TicketID taken.       *)
Insert(c) ==
  LET b  == batch[c]
      id == Head(b.todo)
      n  == inserts + 1
  IN
  /\ b.pc = "insert"
  /\ IF closed \/ ~served \/ b.gone \/ pool[id] # 0
     THEN /\ batch' = [batch EXCEPT ![c] = AfterRejection(b)]
          /\ UNCHANGED <<pool, inserts>>
     ELSE /\ inserts < MaxInserts
          /\ inserts' = n
          /\ pool' = [pool EXCEPT ![id] = n]
          /\ batch' = [batch EXCEPT ![c].added = Append(@, [id |-> id, insert |-> n]),
                                    ![c].todo = Tail(@),
                                    ![c].pc = IF Len(b.todo) = 1 THEN "idle" ELSE "resolve",
                                    ![c].answer = IF Len(b.todo) = 1 THEN "done" ELSE "none"]
  /\ UNCHANGED <<served, closed, replacements, strays>>

(* The client leaves while AddRoutedTicket waits for a node that has taken *)
(* the command already: the ticket goes in, the call is an error.          *)
InsertUnseen(c) ==
  LET b  == batch[c]
      id == Head(b.todo)
  IN
  /\ b.pc = "insert"
  /\ ~closed /\ served /\ ~b.gone /\ pool[id] = 0
  /\ inserts < MaxInserts
  /\ inserts' = inserts + 1
  /\ pool' = [pool EXCEPT ![id] = inserts + 1]
  /\ batch' = [batch EXCEPT ![c] = AfterRejection([b EXCEPT !.gone = TRUE, !.unseen = inserts + 1])]
  /\ UNCHANGED <<served, closed, replacements, strays>>

ClientGone(c) ==
  /\ batch[c].pc \in {"resolve", "insert"}
  /\ ~batch[c].gone
  /\ batch' = [batch EXCEPT ![c].gone = TRUE]
  /\ UNCHANGED <<pool, served, closed, inserts, replacements, strays>>

(* Seeded fault: the rollback runs in the context of the request.          *)
RemovalFailsIfGone(c) == closed \/ ~served \/ batch[c].gone

(* RemoveTicket reports an error for a closed simulator or an owner that   *)
(* is not there, not a ticket that has gone; it runs in a context of its   *)
(* own.                                                                    *)
RemovalFails(c) == closed \/ ~served

(* Seeded fault: the rollback stops at the first ticket that is gone.      *)
RestAfterGone(b) == IF pool[b.added[b.left].id] = 0 THEN 0 ELSE b.left - 1

(* Seeded fault: the rollback repeats a removal until it succeeds.         *)
RestAgain(b) == IF closed \/ ~served THEN b.left ELSE b.left - 1

Rest(b) == b.left - 1

(* rollbackTickets, newest ticket first, by TicketID.                      *)
Undo(c) ==
  LET b == batch[c]
      t == b.added[b.left]
  IN
  /\ b.pc = "undo"
  /\ b.left > 0
  /\ batch' = [batch EXCEPT ![c].left = Rest(b),
                            ![c].failed = @ \/ RemovalFails(c)]
  /\ pool' = IF RemovalFails(c) THEN pool ELSE [pool EXCEPT ![t.id] = 0]
  /\ strays' = IF RemovalFails(c) THEN strays ELSE strays \cup ({pool[t.id]} \ {0, t.insert})
  /\ UNCHANGED <<served, closed, inserts, replacements>>

RolledBack(c) ==
  /\ batch[c].pc = "undo"
  /\ batch[c].left = 0
  /\ batch' = [batch EXCEPT ![c].pc = "idle",
                 ![c].answer = IF batch[c].failed THEN "rollback failed" ELSE "error"]
  /\ UNCHANGED <<pool, served, closed, inserts, replacements, strays>>

(* Seeded fault: a batch goes on behind a ticket it could not insert.      *)
ActuallyAdded(ids) == Cardinality({i \in 1..Len(ids) : pool[ids[i]] = 0})

(* The length of the longest prefix of ids that can be inserted.           *)
AddedPrefix(ids) ==
  Max({n \in 0..Len(ids) :
         \A i \in 1..n : pool[ids[i]] = 0 /\ \A j \in 1..(i - 1) : ids[j] # ids[i]})

(* AddBatch: one call, the successful prefix stays and is reported; the    *)
(* context is looked at before each ticket.                                *)
AddBatch(c, ids, n) ==
  /\ batch[c] = Idle
  /\ n <= AddedPrefix(ids)
  /\ "direct" \in Kinds
  /\ ~closed /\ served
  /\ inserts + Len(ids) <= MaxInserts
  /\ inserts' = inserts + n
  /\ pool' = [id \in TicketIDs |->
       IF \E i \in 1..n : ids[i] = id
       THEN inserts + (CHOOSE i \in 1..n : ids[i] = id)
       ELSE pool[id]]
  /\ batch' = [batch EXCEPT ![c] =
       [pc |-> "idle", kind |-> "direct", ids |-> ids, todo |-> <<>>,
        added |-> [i \in 1..n |-> [id |-> ids[i], insert |-> inserts + i]],
        left |-> 0, rejected |-> 0, unseen |-> 0, gone |-> n < AddedPrefix(ids),
        failed |-> FALSE, answer |-> IF n = Len(ids) THEN "done" ELSE "error"]]
  /\ UNCHANGED <<served, closed, replacements, strays>>

-------------------------------------------------------------------------------
(* What falls in between.                                                  *)

Waiting == {id \in TicketIDs : pool[id] # 0}

(* DeleteTicket by another client, or a match of any waiting tickets.      *)
Leave(ids) ==
  /\ ids # {}
  /\ ids \subseteq Waiting
  /\ pool' = [id \in TicketIDs |-> IF id \in ids THEN 0 ELSE pool[id]]
  /\ UNCHANGED <<served, closed, batch, inserts, replacements, strays>>

ReplaceScenario(has) ==
  /\ ~closed
  /\ replacements < MaxReplacements
  /\ replacements' = replacements + 1
  /\ served' = has
  /\ pool' = [id \in TicketIDs |-> 0]
  /\ UNCHANGED <<closed, batch, inserts, strays>>

Close ==
  /\ ~closed
  /\ closed' = TRUE
  /\ pool' = [id \in TicketIDs |-> 0]
  /\ UNCHANGED <<served, batch, inserts, replacements, strays>>

ClientStep(c) ==
  Resolve(c) \/ Insert(c) \/ InsertUnseen(c) \/ Undo(c) \/ RolledBack(c)

Next ==
  \/ \E c \in Clients :
       \/ \E kind \in Kinds, ids \in Batches : Begin(c, kind, ids)
       \/ \E ids \in Batches : \E n \in 0..Len(ids) : AddBatch(c, ids, n)
       \/ ClientStep(c)
       \/ ClientGone(c)
  \/ \E ids \in SUBSET TicketIDs : Leave(ids)
  \/ \E has \in BOOLEAN : ReplaceScenario(has)
  \/ Close

Spec == Init /\ [][Next]_vars /\ \A c \in Clients : WF_vars(ClientStep(c))

-------------------------------------------------------------------------------
TypeOK ==
  /\ pool \in [TicketIDs -> 0..MaxInserts]
  /\ inserts \in 0..MaxInserts
  /\ \A c \in Clients :
       batch[c] # Idle =>
         /\ batch[c].pc \in {"idle", "resolve", "insert", "undo"}
         /\ batch[c].answer \in {"none", "done", "error", "rollback failed"}
         /\ batch[c].rejected + Len(batch[c].added) <= Len(batch[c].ids)
         /\ batch[c].left \in 0..Len(batch[c].added)

(* An atomic batch that is answered with an error has left nothing behind: *)
(* none of the insertions it was told of waits, whatever fell between its  *)
(* calls and even when its rollback reports that removals failed.          *)
AtomicLeavesNone ==
  \A c \in Clients :
    LET b == batch[c]
    IN b # Idle /\ b.kind = "atomic" /\ b.answer \notin {"none", "done"} =>
         \A i \in 1..Len(b.added) : pool[b.added[i].id] # b.added[i].insert

(* What the answer says of the batch is so: a successful atomic batch had  *)
(* all its tickets inserted, a list accounts for each ticket, a generated  *)
(* or direct batch holds a prefix and says whether it is the whole.        *)
AnswerIsTrue ==
  \A c \in Clients :
    LET b == batch[c]
        Prefix == \A i \in 1..Len(b.added) : b.added[i].id = b.ids[i]
    IN b # Idle /\ b.answer # "none" =>
         CASE b.kind = "atomic" ->
                (b.answer = "done") = (Len(b.added) = Len(b.ids)) /\ Prefix
           [] b.kind = "list" ->
                b.answer = "done" /\ Len(b.added) + b.rejected = Len(b.ids)
           [] OTHER ->
                Prefix /\ (b.answer = "done") = (Len(b.added) = Len(b.ids))

(* "generated atomic rollback changed existing data" is an error to the    *)
(* test: a rollback removes insertions of its own batch only.  The code    *)
(* does not keep this, since it removes by TicketID.                       *)
RollbackSparesOthers == strays = {}

(* The web client offers to withdraw what a failed batch has added, by     *)
(* means of the atomic flag.  The code does not keep this for a client     *)
(* that leaves during the insertion that fails for it.                     *)
AtomicTakesAllBack ==
  \A c \in Clients :
    LET b == batch[c]
    IN b # Idle /\ b.kind = "atomic" /\ b.answer = "error" /\ b.unseen # 0 =>
         \A id \in TicketIDs : pool[id] # b.unseen

(* Every batch is answered.                                                *)
BatchesEnd ==
  \A c \in Clients : (batch[c].pc # "idle") ~> (batch[c].pc = "idle" \/ inserts = MaxInserts)
================================================================================
