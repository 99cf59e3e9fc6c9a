-------------------------- MODULE SimulatorHost_proofs --------------------------
(***************************************************************************)
(* The Simulator, for any number of nodes, tickets, rounds and matches:    *)
(* where the registry and the nodes may disagree, what the match history   *)
(* keeps, and that they agree when nothing fails.                          *)
(***************************************************************************)
EXTENDS SimulatorHost, SequenceTheorems, FiniteSetTheorems, FunctionTheorems, TLAPS

Replies == {None} \cup [kind : ReplyKinds, ids : SUBSET TicketIDs]

Sends == {"add", "remove", "begin", "produce"}

Operations ==
  [kind : {"add", "remove", "begin", "run", "one", "match", "all"}, sends : Sends,
   node : Nodes, ids : SUBSET TicketIDs, cap : Nat, pc : {"send", "wait"}, found : Nat,
   progress : BOOLEAN, cancelled : BOOLEAN, reply : Replies]

Commands ==
  [kind : Sends, ids : SUBSET TicketIDs, now : 0..MaxRounds, phase : {"taken", "applying"},
   awaited : BOOLEAN, cancelled : BOOLEAN]

Cores == [tickets : SUBSET TicketIDs, untried : SUBSET TicketIDs, now : 0..MaxRounds]

Records ==
  [id : 1..LastMatchID, node : Nodes, members : SUBSET TicketIDs, round : Nat,
   now : Nat, coreNow : Nat]

Typed ==
  /\ op \in {Free} \cup Operations
  /\ command \in [Nodes -> {None} \cup Commands]
  /\ core \in [Nodes -> Cores]
  /\ broken \in BOOLEAN
  /\ registry \subseteq Keys
  /\ matches \in Seq(Records)
  /\ nextMatchID \in 1..LastMatchID
  /\ round \in Nat /\ roundNow \in 0..MaxRounds /\ roundActive \in BOOLEAN
  /\ calls \in [round : 0..MaxRounds, add : Nat, replace : Nat]
  /\ suspect \subseteq Keys
  /\ issued \subseteq 1..LastMatchID

(* A command that is awaited is the one of the operation that holds the    *)
(* mutex; after its reply the node is idle until the next one.             *)
CommandInv ==
  /\ op # Free =>
       /\ op.pc = "send" => op.reply = None
       /\ op.reply # None => command[op.node] = None
       /\ op.pc = "wait" /\ op.reply = None =>
            command[op.node] # None /\ command[op.node].awaited
  /\ \A n \in Nodes : command[n] # None /\ command[n].awaited =>
       /\ op # Free /\ op.node = n /\ op.pc = "wait" /\ op.reply = None
       /\ command[n].ids = op.ids /\ command[n].kind = op.sends
       /\ command[n].now = calls.round

(* What the reply says of the node is so until the operation goes on.      *)
ReplyInv ==
  op # Free /\ op.reply # None =>
    /\ op.reply.kind = "added" =>
         op.reply.ids = op.ids /\ op.ids \subseteq core[op.node].tickets
    /\ op.reply.kind = "removed" =>
         op.reply.ids \subseteq op.ids /\ op.ids \cap core[op.node].tickets = {}
    /\ op.reply.kind = "matched" =>
         /\ op.reply.ids \cap core[op.node].tickets = {}
         /\ \A id \in op.reply.ids : <<op.node, id>> \in registry \cup suspect
    /\ op.reply.kind = "added" => op.sends = "add"
    /\ op.reply.kind = "removed" => op.sends = "remove"
    /\ op.reply.kind = "begun" => op.sends = "begin"
    /\ op.reply.kind \in {"unavailable", "missed", "matched"} => op.sends = "produce"

(* DriftAccounted, with the tickets that are in flight spelt out.          *)
Changing == {"added", "removed", "matched"}

Flying(n, id) ==
  op # Free /\ op.reply.kind \in Changing /\ op.node = n /\ id \in op.reply.ids

DriftInv ==
  \A n \in Nodes, id \in TicketIDs :
    \/ id \in core[n].tickets <=> <<n, id>> \in registry
    \/ <<n, id>> \in suspect
    \/ Flying(n, id)

(* A round that was completed was asked for.                               *)
RoundsInv ==
  /\ round <= calls.round
  /\ op # Free /\ op.sends = "begin" => round < calls.round

HostInv == Typed /\ CommandInv /\ ReplyInv /\ RoundsInv /\ DriftInv /\ LimitKept

(* The history lists records in the order of their IDs, all used up.       *)
HistoryInv ==
  /\ \A i, j \in DOMAIN matches : i < j => matches[i].id < matches[j].id
  /\ \A i \in DOMAIN matches : matches[i].id < nextMatchID
  /\ \A m \in issued : m < nextMatchID
  /\ HistoryIndexed

(* Without cancelled calls every command is awaited, and the times of the  *)
(* nodes are those of the round, or on their way to the next.              *)
CalmInv ==
  "cancel" \notin Faults =>
    /\ op # Free => /\ ~op.cancelled
                    /\ op.sends = "begin" => op.reply.kind # "error"
    /\ \A n \in Nodes : command[n] # None => command[n].awaited /\ ~command[n].cancelled
    /\ \A n \in Nodes : core[n].now =
         IF /\ op # Free /\ op.sends = "begin"
            /\ n < op.node \/ (n = op.node /\ op.reply.kind = "begun")
         THEN calls.round ELSE roundNow
    /\ RecordTellsRound

(* Without faults nothing is suspect while Match IDs last.                 *)
FaultlessInv ==
  Faults = {} => ~broken /\ (suspect = {} \/ nextMatchID = LastMatchID)

-------------------------------------------------------------------------------
LEMMA Kinds ==
  /\ \A r \in Operations : r # Free
  /\ \A c \in Commands : c # None
  /\ \A r \in Replies : r # None => r.kind \in ReplyKinds /\ r.ids \subseteq TicketIDs
  /\ \A k \in ReplyKinds, ids \in SUBSET TicketIDs :
       /\ [kind |-> k, ids |-> ids] \in Replies /\ [kind |-> k, ids |-> ids] # None
  /\ None \in Replies /\ None.kind \notin ReplyKinds
  /\ 1 \in Nodes
<1>1. \A r \in Operations : r # Free
  BY DEF Operations, Free
<1>2. \A c \in Commands : c # None
  BY DEF Commands, None
<1>3. \A r \in Replies : r # None => r.kind \in ReplyKinds /\ r.ids \subseteq TicketIDs
  BY DEF Replies
<1>4. \A k \in ReplyKinds, ids \in SUBSET TicketIDs :
        /\ [kind |-> k, ids |-> ids] \in Replies /\ [kind |-> k, ids |-> ids] # None
  BY DEF Replies, None, ReplyKinds
<1>5. None \in Replies /\ None.kind \notin ReplyKinds
  BY DEF Replies, None, ReplyKinds
<1>6. 1 \in Nodes
  BY HostAssumption DEF Nodes
<1> QED
  BY <1>1, <1>2, <1>3, <1>4, <1>5, <1>6

LEMMA FlyingIsInFlight ==
  ASSUME NEW n \in Nodes, NEW id \in TicketIDs
  PROVE  <<n, id>> \in InFlight <=> Flying(n, id)
  BY DEF InFlight, Missed, Of, Flying, Changing

LEMMA DriftMeaning == DriftInv <=> DriftAccounted
<1>1. DriftInv => DriftAccounted
  BY FlyingIsInFlight DEF DriftInv, DriftAccounted
<1>2. DriftAccounted => DriftInv
  BY FlyingIsInFlight DEF DriftInv, DriftAccounted
<1> QED
  BY <1>1, <1>2

(* What stays of an operation while its command runs.                      *)
SameCall ==
  /\ op'.sends = op.sends /\ op'.node = op.node /\ op'.ids = op.ids
  /\ op'.cap = op.cap /\ op'.found = op.found

(* A caller starts an operation.                                           *)
LEMMA CallEffect ==
  ASSUME Typed, Call
  PROVE  /\ op = Free /\ op' \in Operations /\ op'.pc = "send" /\ op'.reply = None
         /\ op'.found = 0 /\ ~op'.cancelled
         /\ UNCHANGED <<command, broken, nextMatchID, suspect, issued, core, registry,
                        matches, byID, round, roundNow, roundActive>>
         /\ calls' \in [round : 0..MaxRounds, add : Nat, replace : Nat]
         /\ \/ op'.sends # "begin" /\ calls'.round = calls.round
            \/ op'.sends = "begin" /\ op'.node = 1 /\ calls'.round = calls.round + 1
<1>1. ASSUME NEW kind \in {"add", "remove", "begin", "run", "one", "match", "all"},
             NEW sends \in Sends, NEW n \in Nodes, NEW ids \in SUBSET TicketIDs,
             NEW cap \in Nat, Start(Operation(kind, sends, n, ids, cap))
      PROVE  /\ op = Free /\ op' \in Operations /\ op'.pc = "send" /\ op'.reply = None
             /\ op'.found = 0 /\ ~op'.cancelled /\ op'.sends = sends /\ op'.node = n
             /\ UNCHANGED <<command, broken, nextMatchID, suspect, issued, core, registry,
                            matches, byID, round, roundNow, roundActive>>
  <2>1. Operation(kind, sends, n, ids, cap) \in Operations
    BY Kinds DEF Operation, Operations
  <2> QED
    BY <1>1, <2>1 DEF Start, Operation, runtime
<1>2. calls \in [round : 0..MaxRounds, add : Nat, replace : Nat] /\ calls.round \in 0..MaxRounds
  BY DEF Typed
<1>3. ASSUME NEW n \in Nodes, NEW id \in TicketIDs, AddTicket(n, id)
      PROVE  /\ Start(Operation("add", "add", n, {id}, 0))
             /\ calls' \in [round : 0..MaxRounds, add : Nat, replace : Nat]
             /\ calls'.round = calls.round
  BY <1>2, <1>3 DEF AddTicket
<1>4. ASSUME NEW kind \in {"run", "begin"}, NEW cap \in {0, 1}, BeginRound(kind, cap)
      PROVE  /\ Start(Operation(kind, "begin", 1, {}, cap))
             /\ calls' \in [round : 0..MaxRounds, add : Nat, replace : Nat]
             /\ calls'.round = calls.round + 1
  <2>1. calls.round + 1 \in 0..MaxRounds
    BY <1>2, <1>4, HostAssumption DEF BeginRound
  <2> QED
    BY <1>2, <1>4, <2>1 DEF BeginRound
<1>5. ASSUME NEW n \in Nodes, NEW id \in TicketIDs, RemoveTicket(n, id)
      PROVE  Start(Operation("remove", "remove", n, {id}, 0)) /\ calls' = calls
  BY <1>5 DEF RemoveTicket
<1>6. ASSUME NEW n \in Nodes, ProduceOne(n)
      PROVE  Start(Operation("one", "produce", n, {}, 0)) /\ calls' = calls
  BY <1>6 DEF ProduceOne
<1>7. ASSUME NEW kind \in {"all", "match"}, NEW cap \in {0, 1}, ProduceFrom(kind, cap)
      PROVE  Start(Operation(kind, "produce", 1, {}, cap)) /\ calls' = calls
  BY <1>7 DEF ProduceFrom
<1>8. /\ {"add", "remove", "begin", "produce"} \subseteq Sends
      /\ 0 \in Nat /\ 1 \in Nat /\ {} \in SUBSET TicketIDs /\ 1 \in Nodes
  BY Kinds DEF Sends
<1>9. CASE \E n \in Nodes, id \in TicketIDs : AddTicket(n, id)
  <2>1. PICK n \in Nodes, id \in TicketIDs : AddTicket(n, id)
    BY <1>9
  <2>2. {id} \in SUBSET TicketIDs
    OBVIOUS
  <2> QED
    BY <1>1, <1>3, <1>8, <2>1, <2>2
<1>10. CASE \E n \in Nodes, id \in TicketIDs : RemoveTicket(n, id)
  <2>1. PICK n \in Nodes, id \in TicketIDs : RemoveTicket(n, id)
    BY <1>10
  <2>2. {id} \in SUBSET TicketIDs
    OBVIOUS
  <2> QED
    BY <1>1, <1>2, <1>5, <1>8, <2>1, <2>2
<1>11. CASE \E id \in TicketIDs : DeleteTicket(id)
  <2>1. \E n \in Nodes, id \in TicketIDs : RemoveTicket(n, id)
    BY <1>11 DEF DeleteTicket, Owners
  <2> QED
    BY <1>10, <2>1
<1>12. CASE \E kind \in {"run", "begin"}, cap \in {0, 1} : BeginRound(kind, cap)
  <2>1. PICK kind \in {"run", "begin"}, cap \in {0, 1} : BeginRound(kind, cap)
    BY <1>12
  <2> QED
    BY <1>1, <1>4, <1>8, <2>1
<1>13. CASE \E kind \in {"all", "match"}, cap \in {0, 1} : ProduceFrom(kind, cap)
  <2>1. PICK kind \in {"all", "match"}, cap \in {0, 1} : ProduceFrom(kind, cap)
    BY <1>13
  <2> QED
    BY <1>1, <1>2, <1>7, <1>8, <2>1
<1>14. CASE \E n \in Nodes : ProduceOne(n)
  BY <1>1, <1>2, <1>6, <1>8, <1>14
<1> QED
  BY <1>9, <1>10, <1>11, <1>12, <1>13, <1>14 DEF Call

(* The node replies: to the operation, or to nobody.                       *)
Answered(n, kind, ids) ==
  \/ /\ command[n].awaited /\ op # Free /\ op.node = n /\ op.reply = None
     /\ op' \in Operations /\ SameCall /\ op'.cancelled = op.cancelled /\ op'.pc = "wait"
     /\ op'.reply = [kind |-> kind, ids |-> ids]
     /\ suspect' = suspect
  \/ /\ ~command[n].awaited
     /\ op' = op
     /\ suspect' = suspect \cup IF kind \in Changing THEN Of(n, ids) ELSE {}

LEMMA ReplyEffect ==
  ASSUME Typed, CommandInv, NEW n \in Nodes, NEW kind \in ReplyKinds,
         NEW ids \in SUBSET TicketIDs, command[n] # None, Reply(n, kind, ids)
  PROVE  /\ command' \in [Nodes -> {None} \cup Commands] /\ command'[n] = None
         /\ \A m \in Nodes \ {n} : command'[m] = command[m]
         /\ suspect' \subseteq Keys /\ op' \in {Free} \cup Operations
         /\ Answered(n, kind, ids)
<1>1. /\ command' \in [Nodes -> {None} \cup Commands] /\ command'[n] = None
      /\ \A m \in Nodes \ {n} : command'[m] = command[m]
  BY DEF Reply, Typed
<1>2. Of(n, ids) \subseteq Keys
  BY DEF Of, Keys
<1>3. CASE command[n].awaited
  <2>1. /\ op # Free /\ op.node = n /\ op.reply = None /\ op \in Operations /\ op.pc = "wait"
        /\ op' = [op EXCEPT !.reply = [kind |-> kind, ids |-> ids]] /\ suspect' = suspect
    BY <1>3 DEF Reply, CommandInv, Typed
  <2>2. [kind |-> kind, ids |-> ids] \in Replies
    BY Kinds
  <2>3. op' \in Operations /\ SameCall /\ op'.cancelled = op.cancelled /\ op'.pc = "wait"
        /\ op'.reply = [kind |-> kind, ids |-> ids]
    BY <2>1, <2>2 DEF Operations, SameCall
  <2> QED
    BY <1>1, <1>3, <2>1, <2>3 DEF Answered, Typed
<1>4. CASE ~command[n].awaited
  BY <1>1, <1>2, <1>4 DEF Reply, Answered, Typed, Changing
<1> QED
  BY <1>3, <1>4

(* What the node did before it gave the reply.                             *)
Done(n, kind, ids) ==
  /\ kind = "added" => /\ command[n].kind = "add" /\ ids = command[n].ids
                       /\ core'[n].tickets = core[n].tickets \cup ids
  /\ kind = "removed" => /\ command[n].kind = "remove"
                         /\ ids = command[n].ids \cap core[n].tickets
                         /\ core'[n].tickets = core[n].tickets \ command[n].ids
  /\ kind = "matched" => /\ command[n].kind = "produce" /\ ids \subseteq core[n].tickets
                         /\ core'[n].tickets = core[n].tickets \ ids
  /\ kind \notin Changing => core'[n].tickets = core[n].tickets
  /\ kind = "begun" => command[n].kind = "begin" /\ core'[n].now = command[n].now
  /\ kind # "begun" => core'[n].now = core[n].now
  /\ kind \in {"unavailable", "missed"} => command[n].kind = "produce"
  /\ kind = "error" => ContextDone(n) \/ command[n].kind # "begin"

(* A step of an owner goroutine checks the context and goes on, or works   *)
(* and replies.                                                            *)
GoesOn(n) ==
  /\ op' = op /\ suspect' = suspect /\ core' = core
  /\ command' \in [Nodes -> {None} \cup Commands] /\ command'[n] # None
  /\ command'[n].kind = command[n].kind /\ command'[n].ids = command[n].ids
  /\ command'[n].now = command[n].now /\ command'[n].awaited = command[n].awaited
  /\ command'[n].cancelled = command[n].cancelled

Works(n) ==
  \E kind \in ReplyKinds, ids \in SUBSET TicketIDs :
    /\ Reply(n, kind, ids) /\ Done(n, kind, ids)
    /\ core' \in [Nodes -> Cores]

LEMMA GoroutineEffect ==
  ASSUME Typed, NEW n \in Nodes, Goroutine(n)
  PROVE  /\ UNCHANGED <<nextMatchID, calls, issued, registry, matches, byID, round,
                        roundNow, roundActive>>
         /\ command[n] # None
         /\ broken' \in {broken, broken \/ "provider" \in Faults}
         /\ \A m \in Nodes \ {n} : core'[m] = core[m]
         /\ \/ GoesOn(n) /\ \A m \in Nodes \ {n} : command'[m] = command[m]
            \/ Works(n)
<1>0. /\ command \in [Nodes -> {None} \cup Commands] /\ core \in [Nodes -> Cores]
      /\ {} \in SUBSET TicketIDs
      /\ {"error", "added", "removed", "begun", "unavailable", "missed", "matched"}
            \subseteq ReplyKinds
  BY DEF Typed, ReplyKinds
<1>c. /\ core[n] \in Cores
      /\ core[n].tickets \subseteq TicketIDs /\ core[n].untried \subseteq TicketIDs
      /\ core[n].now \in 0..MaxRounds
  BY <1>0 DEF Cores
<1>1. CASE Check(n)
  <2>0. /\ command[n] # None /\ command[n] \in Commands
        /\ UNCHANGED <<broken, nextMatchID, calls, issued, core, registry, matches, byID,
                       round, roundNow, roundActive>>
    BY <1>0, <1>1 DEF Check, runtime
  <2>1. CASE ContextDone(n)
    <3>1. Reply(n, "error", {})
      BY <1>1, <2>1 DEF Check
    <3>2. Done(n, "error", {})
      BY <2>0, <2>1 DEF Done, Changing
    <3> QED
      BY <1>0, <2>0, <3>1, <3>2 DEF Works
  <2>2. CASE ~ContextDone(n)
    <3>1. command' = [command EXCEPT ![n].phase = "applying"] /\ UNCHANGED <<op, suspect>>
      BY <1>1, <2>2 DEF Check
    <3> DEFINE c == [command[n] EXCEPT !.phase = "applying"]
    <3>2. /\ c \in Commands /\ command' = [command EXCEPT ![n] = c]
          /\ c.kind = command[n].kind /\ c.ids = command[n].ids /\ c.now = command[n].now
          /\ c.awaited = command[n].awaited /\ c.cancelled = command[n].cancelled
      BY <2>0, <3>1 DEF Commands
    <3>3. c # None
      BY <3>2, Kinds
    <3> HIDE DEF c
    <3>4. /\ command' \in [Nodes -> {None} \cup Commands] /\ command'[n] = c
          /\ \A m \in Nodes \ {n} : command'[m] = command[m]
      BY <1>0, <3>2
    <3> QED
      BY <2>0, <3>1, <3>2, <3>3, <3>4 DEF GoesOn
  <2> QED
    BY <2>1, <2>2
<1>2. ASSUME NEW sends \in Sends, Applying(n, sends)
      PROVE  /\ command[n] # None /\ command[n].kind = sends /\ command[n] \in Commands
             /\ command[n].ids \subseteq TicketIDs /\ command[n].now \in 0..MaxRounds
             /\ UNCHANGED <<nextMatchID, calls, issued, registry, matches, byID, round,
                            roundNow, roundActive>>
  <2>1. /\ command[n] # None /\ command[n].kind = sends /\ command[n] \in Commands
        /\ UNCHANGED <<nextMatchID, calls, issued, registry, matches, byID, round,
                       roundNow, roundActive>>
    BY <1>0, <1>2 DEF Applying
  <2> QED
    BY <2>1 DEF Commands
<1>3. ASSUME Refused(n), command[n] \in Commands
      PROVE  /\ Works(n) /\ broken' = broken /\ core' = core
  BY <1>0, <1>3 DEF Refused, Works, Done, Changing
(* The core of the node changes.                                           *)
<1>4. ASSUME NEW r \in Cores, core' = [core EXCEPT ![n] = r]
      PROVE  /\ core' \in [Nodes -> Cores] /\ core'[n] = r
             /\ \A m \in Nodes \ {n} : core'[m] = core[m]
  BY <1>0, <1>4
<1>5. CASE ApplyAdd(n)
  <2>0. /\ command[n] # None /\ command[n].kind = "add" /\ command[n] \in Commands
        /\ command[n].ids \subseteq TicketIDs
        /\ UNCHANGED <<nextMatchID, calls, issued, registry, matches, byID, round,
                       roundNow, roundActive>>
    BY <1>2, <1>5 DEF ApplyAdd, Sends
  <2>1. CASE Refused(n)
    BY <1>3, <2>0, <2>1
  <2>2. CASE Reply(n, "error", {}) /\ UNCHANGED <<core, broken>>
    BY <1>0, <2>0, <2>2 DEF Works, Done, Changing
  <2>3. CASE /\ \E seeds \in {{}, IF core[n].now = 0 THEN {} ELSE command[n].ids} :
                  core' = [core EXCEPT ![n].tickets = @ \cup command[n].ids,
                                       ![n].untried = @ \cup seeds]
             /\ Reply(n, "added", command[n].ids)
             /\ UNCHANGED broken
    <3>1. PICK seeds \in SUBSET TicketIDs :
            core' = [core EXCEPT ![n].tickets = @ \cup command[n].ids,
                                 ![n].untried = @ \cup seeds]
      BY <2>0, <2>3
    <3> DEFINE r == [core[n] EXCEPT !.tickets = core[n].tickets \cup command[n].ids,
                              !.untried = core[n].untried \cup seeds]
    <3>2. /\ r \in Cores /\ core' = [core EXCEPT ![n] = r]
          /\ r.tickets = core[n].tickets \cup command[n].ids /\ r.now = core[n].now
      BY <1>0, <1>c, <2>0, <3>1 DEF Cores
    <3> HIDE DEF r
    <3>3. /\ core' \in [Nodes -> Cores]
          /\ core'[n].tickets = core[n].tickets \cup command[n].ids
          /\ core'[n].now = core[n].now
          /\ \A m \in Nodes \ {n} : core'[m] = core[m]
      BY <1>4, <3>2
    <3>4. Done(n, "added", command[n].ids)
      BY <2>0, <3>3 DEF Done, Changing
    <3> QED
      BY <1>0, <2>0, <2>3, <3>3, <3>4 DEF Works
  <2> QED
    BY <1>5, <2>1, <2>2, <2>3 DEF ApplyAdd
<1>6. CASE ApplyRemove(n)
  <2>0. /\ command[n] # None /\ command[n].kind = "remove" /\ command[n] \in Commands
        /\ command[n].ids \subseteq TicketIDs
        /\ UNCHANGED <<nextMatchID, calls, issued, registry, matches, byID, round,
                       roundNow, roundActive>>
    BY <1>2, <1>6 DEF ApplyRemove, Sends
  <2>1. CASE Refused(n)
    BY <1>3, <2>0, <2>1
  <2>2. CASE /\ core' = [core EXCEPT ![n].tickets = @ \ command[n].ids,
                                     ![n].untried = @ \ command[n].ids]
             /\ Reply(n, "removed", command[n].ids \cap core[n].tickets)
             /\ UNCHANGED broken
    <3> DEFINE r == [core[n] EXCEPT !.tickets = core[n].tickets \ command[n].ids,
                              !.untried = core[n].untried \ command[n].ids]
    <3>2. /\ r \in Cores /\ core' = [core EXCEPT ![n] = r]
          /\ r.tickets = core[n].tickets \ command[n].ids /\ r.now = core[n].now
      BY <1>0, <1>c, <2>0, <2>2 DEF Cores
    <3> HIDE DEF r
    <3>3. /\ core' \in [Nodes -> Cores]
          /\ core'[n].tickets = core[n].tickets \ command[n].ids
          /\ core'[n].now = core[n].now
          /\ \A m \in Nodes \ {n} : core'[m] = core[m]
      BY <1>4, <3>2
    <3>4. /\ Done(n, "removed", command[n].ids \cap core[n].tickets)
          /\ command[n].ids \cap core[n].tickets \in SUBSET TicketIDs
      BY <1>c, <2>0, <3>3 DEF Done, Changing
    <3> QED
      BY <1>0, <2>0, <2>2, <3>3, <3>4 DEF Works
  <2> QED
    BY <1>6, <2>1, <2>2 DEF ApplyRemove
<1>7. CASE ApplyBegin(n)
  <2>0. /\ command[n] # None /\ command[n].kind = "begin" /\ command[n] \in Commands
        /\ command[n].now \in 0..MaxRounds
        /\ UNCHANGED <<nextMatchID, calls, issued, registry, matches, byID, round,
                       roundNow, roundActive>>
    BY <1>2, <1>7 DEF ApplyBegin, Sends
  <2>1. CASE Refused(n)
    BY <1>3, <2>0, <2>1
  <2>2. CASE /\ core' = [core EXCEPT ![n].untried = core[n].tickets,
                                     ![n].now = command[n].now]
             /\ Reply(n, "begun", {})
             /\ UNCHANGED broken
    <3> DEFINE r == [core[n] EXCEPT !.untried = core[n].tickets, !.now = command[n].now]
    <3>2. /\ r \in Cores /\ core' = [core EXCEPT ![n] = r]
          /\ r.tickets = core[n].tickets /\ r.now = command[n].now
      BY <1>0, <1>c, <2>0, <2>2 DEF Cores
    <3> HIDE DEF r
    <3>3. /\ core' \in [Nodes -> Cores]
          /\ core'[n].tickets = core[n].tickets
          /\ core'[n].now = command[n].now
          /\ \A m \in Nodes \ {n} : core'[m] = core[m]
      BY <1>4, <3>2
    <3>4. Done(n, "begun", {})
      BY <2>0, <3>3 DEF Done, Changing
    <3> QED
      BY <1>0, <2>0, <2>2, <3>3, <3>4 DEF Works
  <2> QED
    BY <1>7, <2>1, <2>2 DEF ApplyBegin
<1>8. CASE ApplyProduce(n)
  <2>0. /\ command[n] # None /\ command[n].kind = "produce" /\ command[n] \in Commands
        /\ UNCHANGED <<nextMatchID, calls, issued, registry, matches, byID, round,
                       roundNow, roundActive>>
    BY <1>2, <1>8 DEF ApplyProduce, Sends
  <2>1. CASE Refused(n)
    BY <1>3, <2>0, <2>1
  <2>2. CASE /\ Reply(n, IF core[n].now = 0 THEN "error" ELSE "unavailable", {})
             /\ UNCHANGED <<core, broken>>
    <3>1. PICK kind \in {"error", "unavailable"} : Reply(n, kind, {})
      BY <2>2
    <3>2. Done(n, kind, {}) /\ kind \in ReplyKinds
      BY <1>0, <2>0, <2>2 DEF Done, Changing
    <3> QED
      BY <1>0, <2>0, <2>2, <3>1, <3>2 DEF Works
  <2>3. ASSUME NEW seed \in core[n].untried, NEW kind \in {"missed", "error"},
               broken' \in {broken, broken \/ "provider" \in Faults},
               core' = [core EXCEPT ![n].untried = @ \ {seed}], Reply(n, kind, {})
        PROVE  /\ Works(n) /\ \A m \in Nodes \ {n} : core'[m] = core[m]
    <3> DEFINE r == [core[n] EXCEPT !.untried = core[n].untried \ {seed}]
    <3>2. /\ r \in Cores /\ core' = [core EXCEPT ![n] = r]
          /\ r.tickets = core[n].tickets /\ r.now = core[n].now
      BY <1>0, <1>c, <2>3 DEF Cores
    <3> HIDE DEF r
    <3>3. /\ core' \in [Nodes -> Cores]
          /\ core'[n].tickets = core[n].tickets
          /\ core'[n].now = core[n].now
          /\ \A m \in Nodes \ {n} : core'[m] = core[m]
      BY <1>4, <3>2
    <3>4. Done(n, kind, {}) /\ kind \in ReplyKinds
      BY <1>0, <2>0, <3>3 DEF Done, Changing
    <3> QED
      BY <1>0, <2>3, <3>3, <3>4 DEF Works
  <2>4. ASSUME NEW group \in SUBSET core[n].tickets,
               core' = [core EXCEPT ![n].tickets = @ \ group, ![n].untried = @ \ group],
               Reply(n, "matched", group)
        PROVE  /\ Works(n) /\ \A m \in Nodes \ {n} : core'[m] = core[m]
    <3> DEFINE r == [core[n] EXCEPT !.tickets = core[n].tickets \ group,
                              !.untried = core[n].untried \ group]
    <3>2. /\ r \in Cores /\ core' = [core EXCEPT ![n] = r]
          /\ r.tickets = core[n].tickets \ group /\ r.now = core[n].now
      BY <1>0, <1>c, <2>4 DEF Cores
    <3> HIDE DEF r
    <3>3. /\ core' \in [Nodes -> Cores]
          /\ core'[n].tickets = core[n].tickets \ group
          /\ core'[n].now = core[n].now
          /\ \A m \in Nodes \ {n} : core'[m] = core[m]
      BY <1>4, <3>2
    <3>4. Done(n, "matched", group) /\ group \in SUBSET TicketIDs
      BY <1>c, <2>0, <3>3 DEF Done, Changing
    <3> QED
      BY <1>0, <2>4, <3>3, <3>4 DEF Works
  <2>5. CASE \E seed \in core[n].untried :
               /\ broken' \in {broken, broken \/ "provider" \in Faults}
               /\ \/ /\ core' = [core EXCEPT ![n].untried = @ \ {seed}]
                     /\ Reply(n, "missed", {})
                  \/ /\ core' = [core EXCEPT ![n].untried = @ \ {seed}]
                     /\ Reply(n, "error", {})
                  \/ \E group \in SUBSET core[n].tickets :
                       /\ core' = [core EXCEPT ![n].tickets = @ \ group,
                                               ![n].untried = @ \ group]
                       /\ Reply(n, "matched", group)
    BY <2>0, <2>3, <2>4, <2>5
  <2>6. \/ Refused(n)
        \/ /\ Reply(n, IF core[n].now = 0 THEN "error" ELSE "unavailable", {})
           /\ UNCHANGED <<core, broken>>
        \/ \E seed \in core[n].untried :
               /\ broken' \in {broken, broken \/ "provider" \in Faults}
               /\ \/ /\ core' = [core EXCEPT ![n].untried = @ \ {seed}]
                     /\ Reply(n, "missed", {})
                  \/ /\ core' = [core EXCEPT ![n].untried = @ \ {seed}]
                     /\ Reply(n, "error", {})
                  \/ \E group \in SUBSET core[n].tickets :
                       /\ core' = [core EXCEPT ![n].tickets = @ \ group,
                                               ![n].untried = @ \ group]
                       /\ Reply(n, "matched", group)
    BY <1>8 DEF ApplyProduce
  <2> QED
    BY <2>0, <2>1, <2>2, <2>5, <2>6
<1> QED
  BY <1>1, <1>5, <1>6, <1>7, <1>8 DEF Goroutine

-------------------------------------------------------------------------------
(* The operation that holds the mutex, and what its reply may change.      *)
LEMMA Holding ==
  ASSUME Typed, op # Free
  PROVE  /\ op \in Operations /\ op.node \in Nodes /\ op.reply \in Replies
         /\ op.found \in Nat /\ op.cap \in Nat /\ op.sends \in Sends
         /\ op.ids \subseteq TicketIDs
         /\ op.pc \in {"send", "wait"} /\ op.cancelled \in BOOLEAN /\ op.progress \in BOOLEAN
<1>1. op \in Operations
  BY DEF Typed
<1> QED
  BY <1>1 DEF Operations

LEMMA MissedMeaning ==
  ASSUME Typed, op # Free
  PROVE  /\ Missed \subseteq Keys
         /\ \A n \in Nodes, id \in TicketIDs : <<n, id>> \in Missed <=> Flying(n, id)
<1>1. op.node \in Nodes /\ op.reply \in Replies
  BY Holding
<1>2. op.reply.kind \in Changing => op.reply # None /\ op.reply.ids \subseteq TicketIDs
  BY <1>1, Kinds DEF Changing, ReplyKinds
<1>3. Missed \subseteq Keys
  BY <1>1, <1>2 DEF Missed, Of, Keys, Changing
<1>4. \A n \in Nodes, id \in TicketIDs : <<n, id>> \in Missed <=> Flying(n, id)
  BY <1>1 DEF Missed, Of, Flying, Changing
<1> QED
  BY <1>3, <1>4

(* The operation ends, or is about to send its next command.               *)
Onward(found) ==
  \/ op' = Free
  \/ /\ op' \in Operations /\ op'.pc = "send" /\ op'.reply = None
     /\ op'.sends = op.sends /\ op'.cap = op.cap /\ op'.found = found
     /\ op'.cancelled = op.cancelled

LEMMA PassEffect ==
  ASSUME Typed, op # Free, NEW progress \in BOOLEAN, NEW found \in Nat, Pass(progress, found)
  PROVE  Onward(found)
<1> DEFINE after == [op EXCEPT !.progress = progress, !.found = found, !.pc = "send",
                               !.reply = None]
<1>0. op \in Operations /\ op.node \in Nodes
  BY Holding
<1>1. /\ after \in Operations /\ after.pc = "send" /\ after.reply = None
      /\ after.sends = op.sends /\ after.cap = op.cap /\ after.found = found
      /\ after.cancelled = op.cancelled
  BY <1>0, Kinds DEF Operations
<1>2. \/ op' = [after EXCEPT !.node = op.node + 1] /\ op.node < NodeCount
      \/ op' = [after EXCEPT !.node = 1, !.progress = FALSE]
      \/ op' = Free
  BY DEF Pass, Return
<1> HIDE DEF after
<1>3. op.node < NodeCount => op.node + 1 \in Nodes
  BY <1>0, HostAssumption DEF Nodes
<1> QED
  BY <1>1, <1>2, <1>3, Kinds DEF Onward, Operations

LEMMA AttemptedEffect ==
  ASSUME Typed, op # Free, NEW matched \in {0, 1}, Attempted(matched)
  PROVE  op' = Free \/ (Onward(op.found + matched) /\ ~LimitReached(op.found + matched))
<1>1. op.found + matched \in Nat
  BY Holding
<1> QED
  BY <1>1, PassEffect DEF Attempted, Return

(* Nothing awaits an answer: an operation that begins, ends or goes on     *)
(* from here keeps what is known of commands and replies.                  *)
LEMMA NothingAwaited ==
  ASSUME Typed, \A n \in Nodes : command'[n] # None => ~command'[n].awaited,
         \/ op' = Free
         \/ op' \in Operations /\ op'.pc = "send" /\ op'.reply = None
  PROVE  CommandInv' /\ ReplyInv' /\ \A n \in Nodes, id \in TicketIDs : ~Flying(n, id)'
<1>1. None.kind \notin Changing
  BY Kinds DEF Changing, ReplyKinds
<1>2. CommandInv'
  BY DEF CommandInv
<1>3. ReplyInv'
  BY DEF ReplyInv
<1> QED
  BY <1>1, <1>2, <1>3 DEF Flying

LEMMA AfterReply ==
  ASSUME Typed, CommandInv, op = Free \/ op.reply # None, command' = command,
         \/ op' = Free
         \/ op' \in Operations /\ op'.pc = "send" /\ op'.reply = None
  PROVE  CommandInv' /\ ReplyInv' /\ \A n \in Nodes, id \in TicketIDs : ~Flying(n, id)'
<1>1. \A n \in Nodes : command'[n] # None => ~command'[n].awaited
  BY DEF CommandInv
<1> QED
  BY <1>1, NothingAwaited

(* The mutex is taken up to the node.                                      *)
LEMMA HandOverEffect ==
  ASSUME Typed, CommandInv, HandOver
  PROVE  /\ op # Free /\ op.pc = "send" /\ op.reply = None
         /\ op' \in Operations /\ SameCall /\ op'.pc = "wait" /\ op'.reply = None
         /\ op'.cancelled = op.cancelled
         /\ command' \in [Nodes -> {None} \cup Commands]
         /\ command'[op.node] # None
         /\ command'[op.node].awaited /\ ~command'[op.node].cancelled
         /\ command'[op.node].ids = op.ids /\ command'[op.node].kind = op.sends
         /\ command'[op.node].now = calls.round
         /\ \A m \in Nodes \ {op.node} : command'[m] = command[m]
         /\ UNCHANGED <<broken, nextMatchID, calls, suspect, issued, core, registry,
                        matches, byID, round, roundNow, roundActive>>
<1> DEFINE c == [kind |-> op.sends, ids |-> op.ids, now |-> Now, phase |-> "taken",
                 awaited |-> TRUE, cancelled |-> FALSE]
<1>1. /\ op # Free /\ op.pc = "send" /\ op.reply = None
      /\ op' = [op EXCEPT !.pc = "wait"] /\ command' = [command EXCEPT ![op.node] = c]
      /\ UNCHANGED <<broken, nextMatchID, calls, suspect, issued, core, registry,
                     matches, byID, round, roundNow, roundActive>>
  BY DEF HandOver, CommandInv, runtime
<1>2. /\ op' \in Operations /\ SameCall /\ op'.pc = "wait" /\ op'.reply = None
      /\ op'.cancelled = op.cancelled
  BY <1>1, Holding DEF Operations, SameCall
<1>3. calls.round \in 0..MaxRounds
  BY DEF Typed
<1>4. c \in Commands /\ c # None
  BY <1>1, <1>3, Holding, Kinds DEF Commands, Now
<1>5. c.awaited /\ ~c.cancelled /\ c.ids = op.ids /\ c.kind = op.sends /\ c.now = calls.round
  BY DEF Now
<1>6. op.node \in Nodes /\ command \in [Nodes -> {None} \cup Commands]
  BY <1>1, Holding DEF Typed
<1> HIDE DEF c
<1> QED
  BY <1>1, <1>2, <1>4, <1>5, <1>6

(* The caller of an operation leaves; the node finishes the command.       *)
LEMMA GiveUpEffect ==
  ASSUME Typed, CommandInv, GiveUp
  PROVE  /\ op # Free /\ op.cancelled /\ op' = Free
         /\ command' \in [Nodes -> {None} \cup Commands]
         /\ \A n \in Nodes : command'[n] # None => ~command'[n].awaited
         /\ suspect' = suspect \cup Missed /\ suspect' \subseteq Keys
         /\ UNCHANGED <<broken, nextMatchID, calls, issued, core, registry,
                        matches, byID, round, roundNow, roundActive>>
<1>1. /\ op # Free /\ op.cancelled /\ op' = Free /\ suspect' = suspect \cup Missed
      /\ UNCHANGED <<broken, nextMatchID, calls, issued, core, registry,
                     matches, byID, round, roundNow, roundActive>>
      /\ op.node \in Nodes /\ command \in [Nodes -> {None} \cup Commands]
  BY Holding DEF GiveUp, Return, Free, runtime, Typed
<1>2. suspect' \subseteq Keys
  BY <1>1, MissedMeaning DEF Typed
<1>3. CASE op.pc = "wait" /\ op.reply = None
  <2> DEFINE c == [command[op.node] EXCEPT !.awaited = FALSE, !.cancelled = TRUE]
  <2>1. command[op.node] \in Commands
    BY <1>1, <1>3 DEF CommandInv
  <2>2. c \in Commands /\ ~c.awaited
    BY <2>1 DEF Commands
  <2>3. command' = [command EXCEPT ![op.node] = c]
    BY <1>1, <1>3 DEF GiveUp
  <2>4. \A n \in Nodes \ {op.node} : command[n] # None => ~command[n].awaited
    BY DEF CommandInv
  <2> HIDE DEF c
  <2> QED
    BY <1>1, <1>2, <2>2, <2>3, <2>4
<1>4. CASE ~(op.pc = "wait" /\ op.reply = None)
  <2>1. command' = command
    BY <1>4 DEF GiveUp
  <2>2. \A n \in Nodes : command[n] # None => ~command[n].awaited
    BY <1>1, <1>4 DEF CommandInv
  <2> QED
    BY <1>1, <1>2, <2>1, <2>2
<1> QED
  BY <1>3, <1>4

(* A reply after which nothing of the runtime changes.                     *)
LEMMA QuietEffect ==
  ASSUME Typed, LimitKept, ReplyInv, ReturnError \/ Unavailable \/ Missed1
  PROVE  /\ op # Free /\ op.reply # None /\ op.reply.kind \in {"error", "unavailable", "missed"}
         /\ \/ op' = Free
            \/ Onward(op.found) /\ op.sends = "produce"
         /\ UNCHANGED <<command, broken, nextMatchID, calls, suspect, issued, core,
                        registry, matches, byID, round, roundNow, roundActive>>
<1>1. /\ op # Free /\ op.reply.kind \in {"error", "unavailable", "missed"}
      /\ UNCHANGED <<command, broken, nextMatchID, calls, suspect, issued, core,
                     registry, matches, byID, round, roundNow, roundActive>>
  BY DEF ReturnError, Unavailable, Missed1, Replied, runtime
<1>2. op.reply # None /\ op.found + 0 = op.found /\ op.found \in Nat /\ op.progress \in BOOLEAN
  BY <1>1, Kinds, Holding DEF ReplyKinds
<1>3. CASE ReturnError
  BY <1>1, <1>2, <1>3 DEF ReturnError, Return
<1>4. CASE Unavailable
  <2>1. op' = Free \/ Pass(op.progress, op.found)
    BY <1>4 DEF Unavailable, Return, Skip
  <2>2. op' = Free \/ Onward(op.found)
    BY <1>1, <1>2, <2>1, PassEffect
  <2>3. op.sends = "produce"
    BY <1>1, <1>2, <1>4 DEF Unavailable, Replied, ReplyInv
  <2> QED
    BY <1>1, <1>2, <2>2, <2>3
<1>5. CASE Missed1
  <2>1. op' = Free \/ Attempted(0)
    BY <1>5 DEF Missed1, Return
  <2>2. op' = Free \/ Onward(op.found)
    BY <1>1, <1>2, <2>1, AttemptedEffect
  <2>3. op.sends = "produce"
    BY <1>1, <1>2, <1>5 DEF Missed1, Replied, ReplyInv
  <2> QED
    BY <1>1, <1>2, <2>2, <2>3
<1> QED
  BY <1>3, <1>4, <1>5

(* A node has begun; the round of the host begins after the last.          *)
NextNode ==
  /\ op.node < NodeCount /\ op' \in Operations /\ op'.node = op.node + 1
  /\ op'.pc = "send" /\ op'.reply = None /\ op'.sends = "begin"
  /\ op'.cap = op.cap /\ op'.found = op.found /\ op'.cancelled = op.cancelled
  /\ UNCHANGED <<round, roundNow, roundActive>>

RoundBegins ==
  /\ op.node = NodeCount /\ round' = round + 1 /\ roundNow' = calls.round /\ roundActive' = TRUE
  /\ \/ op' = Free
     \/ /\ op' \in Operations /\ op'.pc = "send" /\ op'.reply = None /\ op'.sends = "produce"
        /\ op'.cap = op.cap /\ op'.found = op.found /\ op'.cancelled = op.cancelled

LEMMA RoundBegunEffect ==
  ASSUME Typed, ReplyInv, RoundBegun
  PROVE  /\ op # Free /\ op.reply # None /\ op.reply.kind = "begun" /\ op.sends = "begin"
         /\ NextNode \/ RoundBegins
         /\ UNCHANGED <<command, broken, nextMatchID, calls, suspect, issued, core,
                        registry, matches, byID>>
<1>1. /\ op # Free /\ op.reply.kind = "begun"
      /\ UNCHANGED <<command, broken, nextMatchID, calls, suspect, issued, core,
                     registry, matches, byID>>
  BY DEF RoundBegun, Replied
<1>2. /\ op.reply # None /\ op.sends = "begin" /\ op \in Operations /\ op.node \in Nodes
      /\ 1 \in Nodes
  BY <1>1, Kinds, Holding DEF ReplyInv, ReplyKinds
<1>3. ASSUME NEW sends \in Sends, NEW n \in Nodes, Next1(sends, n)
      PROVE  /\ op' \in Operations /\ op'.node = n /\ op'.pc = "send" /\ op'.reply = None
             /\ op'.sends = sends /\ op'.cap = op.cap /\ op'.found = op.found
             /\ op'.cancelled = op.cancelled
  BY <1>2, <1>3, Kinds DEF Next1, Operations
<1>4. CASE op.node < NodeCount
  <2>1. op.node + 1 \in Nodes
    BY <1>2, <1>4, HostAssumption DEF Nodes
  <2>2. Next1("begin", op.node + 1) /\ UNCHANGED <<round, roundNow, roundActive>>
    BY <1>4 DEF RoundBegun
  <2>3. "begin" \in Sends
    BY DEF Sends
  <2> QED
    BY <1>1, <1>2, <1>3, <1>4, <2>1, <2>2, <2>3 DEF NextNode
<1>5. CASE ~(op.node < NodeCount)
  <2>1. op.node = NodeCount
    BY <1>2, <1>5, HostAssumption DEF Nodes
  <2>2. /\ round' = round + 1 /\ roundNow' = calls.round /\ roundActive' = TRUE
        /\ Next1("produce", 1) \/ op' = Free
    BY <1>5 DEF RoundBegun, RoundTime, Now, Return
  <2>3. "produce" \in Sends
    BY DEF Sends
  <2> QED
    BY <1>1, <1>2, <1>3, <2>1, <2>2, <2>3 DEF RoundBegins
<1> QED
  BY <1>4, <1>5

LEMMA ObserveEffect ==
  ASSUME Typed, ReplyInv, Observe
  PROVE  /\ op # Free /\ op.reply # None /\ op.reply.kind = "added" /\ op' = Free
         /\ op.sends = "add"
         /\ op.reply.ids = op.ids /\ op.ids \subseteq core[op.node].tickets
         /\ registry' \subseteq Keys
         /\ \A n \in Nodes, id \in TicketIDs :
              <<n, id>> \in registry' <=> <<n, id>> \in registry \/ (n = op.node /\ id \in op.ids)
         /\ UNCHANGED <<command, broken, nextMatchID, calls, suspect, issued, core,
                        matches, byID, round, roundNow, roundActive>>
<1>1. /\ op # Free /\ op.reply.kind = "added" /\ op' = Free
      /\ registry' = registry \cup Of(op.node, op.ids)
      /\ UNCHANGED <<command, broken, nextMatchID, calls, suspect, issued, core,
                     matches, byID, round, roundNow, roundActive>>
  BY DEF Observe, Replied, Return
<1>2. op.reply # None /\ op.node \in Nodes /\ op.ids \subseteq TicketIDs
  BY <1>1, Kinds, Holding DEF ReplyKinds
<1>3. Of(op.node, op.ids) \subseteq Keys
  BY <1>2 DEF Of, Keys
<1>4. \A n \in Nodes, id \in TicketIDs :
        <<n, id>> \in Of(op.node, op.ids) <=> n = op.node /\ id \in op.ids
  BY DEF Of
<1> QED
  BY <1>1, <1>2, <1>3, <1>4 DEF ReplyInv, Typed

LEMMA UnobserveEffect ==
  ASSUME Typed, ReplyInv, Unobserve
  PROVE  /\ op # Free /\ op.reply # None /\ op.reply.kind = "removed" /\ op' = Free
         /\ op.sends = "remove"
         /\ op.reply.ids \subseteq op.ids /\ op.ids \cap core[op.node].tickets = {}
         /\ registry' \subseteq Keys
         /\ \A n \in Nodes, id \in TicketIDs :
              <<n, id>> \in registry' <=> <<n, id>> \in registry /\ ~(n = op.node /\ id \in op.ids)
         /\ UNCHANGED <<command, broken, nextMatchID, calls, suspect, issued, core,
                        matches, byID, round, roundNow, roundActive>>
<1>1. /\ op # Free /\ op.reply.kind = "removed" /\ op' = Free
      /\ registry' = registry \ Of(op.node, op.ids)
      /\ UNCHANGED <<command, broken, nextMatchID, calls, suspect, issued, core,
                     matches, byID, round, roundNow, roundActive>>
  BY DEF Unobserve, Unobserved, Replied, Return
<1>2. op.reply # None /\ op.node \in Nodes /\ op.ids \subseteq TicketIDs
  BY <1>1, Kinds, Holding DEF ReplyKinds
<1>4. \A n \in Nodes, id \in TicketIDs :
        <<n, id>> \in Of(op.node, op.ids) <=> n = op.node /\ id \in op.ids
  BY DEF Of
<1> QED
  BY <1>1, <1>2, <1>4 DEF ReplyInv, Typed

(* A committed match is given up.                                          *)
LEMMA DropEffect ==
  ASSUME Typed, DropMatch
  PROVE  /\ op # Free /\ op.reply # None /\ op.reply.kind = "matched" /\ op' = Free
         /\ broken \/ nextMatchID = LastMatchID \/ ~(Missed \subseteq registry)
         /\ nextMatchID' \in {nextMatchID, nextMatchID + 1} /\ nextMatchID' \in 1..LastMatchID
         /\ nextMatchID = LastMatchID => nextMatchID' = nextMatchID
         /\ suspect' = suspect \cup Missed /\ suspect' \subseteq Keys
         /\ UNCHANGED <<command, broken, calls, issued, core, registry,
                        matches, byID, round, roundNow, roundActive>>
<1>1. /\ op # Free /\ op.reply.kind = "matched" /\ op' = Free
      /\ suspect' = suspect \cup Missed
      /\ UNCHANGED <<command, broken, calls, issued, core, registry,
                     matches, byID, round, roundNow, roundActive>>
  BY DEF DropMatch, Replied, Return, runtime
<1>2. op.reply # None
  BY <1>1, Kinds DEF ReplyKinds
<1>3. nextMatchID \in 1..LastMatchID /\ LastMatchID \in Nat \ {0}
  BY HostAssumption DEF Typed
<1>4. /\ broken \/ nextMatchID = LastMatchID \/ ~(Missed \subseteq registry)
      /\ nextMatchID' = nextMatchID \/ (nextMatchID # LastMatchID /\ nextMatchID' = nextMatchID + 1)
  BY <1>3 DEF DropMatch, Overflow
<1>5. suspect' \subseteq Keys
  BY <1>1, MissedMeaning DEF Typed
<1> QED
  BY <1>1, <1>2, <1>3, <1>4, <1>5

(* A committed match is recorded.                                          *)
LEMMA RecordEffect ==
  ASSUME Typed, RecordMatch
  PROVE  /\ op # Free /\ op.reply # None /\ op.reply.kind = "matched"
         /\ op' = Free \/ (Onward(op.found + 1) /\ ~LimitReached(op.found + 1))
         /\ ~broken /\ nextMatchID # LastMatchID /\ Missed \subseteq registry
         /\ nextMatchID' = nextMatchID + 1 /\ nextMatchID' \in 1..LastMatchID
         /\ registry' = registry \ Missed
         /\ Record(op.reply.ids) \in Records
         /\ matches' = Retained(Append(matches, Record(op.reply.ids))) /\ byID' = Index(matches')
         /\ issued' = issued \cup {nextMatchID}
         /\ UNCHANGED <<command, broken, calls, suspect, core, round, roundNow, roundActive>>
<1>1. /\ op # Free /\ op.reply.kind = "matched" /\ ~broken /\ Missed \subseteq registry
      /\ ~Overflow /\ nextMatchID' = nextMatchID + 1 /\ registry' = registry \ Missed
      /\ matches' = Retained(Append(matches, Record(op.reply.ids))) /\ byID' = Index(matches')
      /\ issued' = issued \cup {nextMatchID} /\ Attempted(1)
      /\ UNCHANGED <<command, broken, calls, suspect, core, round, roundNow, roundActive>>
  BY DEF RecordMatch, Replied, Unobserved
<1>2. op.reply # None /\ op.reply.ids \subseteq TicketIDs /\ op.node \in Nodes
  BY <1>1, Kinds, Holding DEF ReplyKinds
<1>3. nextMatchID \in 1..LastMatchID /\ LastMatchID \in Nat \ {0}
  BY HostAssumption DEF Typed
<1>4. nextMatchID # LastMatchID /\ nextMatchID + 1 \in 1..LastMatchID
  BY <1>1, <1>3 DEF Overflow
<1>5. Record(op.reply.ids) \in Records
  <2>1. /\ core[op.node].now \in Nat /\ roundNow \in Nat /\ round \in Nat
    <3>1. core[op.node] \in Cores /\ roundNow \in 0..MaxRounds /\ round \in Nat
      BY <1>2 DEF Typed
    <3> QED
      BY <3>1, HostAssumption DEF Cores
  <2> QED
    BY <1>2, <1>3, <2>1 DEF Record, Records
<1> QED
  BY <1>1, <1>2, <1>4, <1>5, AttemptedEffect

LEMMA ReplaceEffect ==
  ASSUME Typed, ReplaceScenario
  PROVE  /\ op = Free /\ op' = Free /\ nextMatchID' = nextMatchID
         /\ command' = [n \in Nodes |-> None] /\ core' = [n \in Nodes |-> NewCore]
         /\ ~broken' /\ registry' = {} /\ matches' = <<>> /\ byID' = {} /\ suspect' = {}
         /\ round' = 0 /\ roundNow' = 0 /\ roundActive' = FALSE
         /\ calls' \in [round : 0..MaxRounds, add : Nat, replace : Nat]
         /\ calls'.round = calls.round /\ issued' = issued /\ broken' = FALSE
  BY DEF ReplaceScenario, IDAfterReplace, Typed

-------------------------------------------------------------------------------
(* The types.                                                              *)
LEMMA RetainedTyped ==
  ASSUME NEW records \in Seq(Records)
  PROVE  /\ Retained(records) \in Seq(Records)
         /\ Len(records) > HistoryLimit =>
              /\ Retained(records) = Tail(records) /\ Len(Retained(records)) = Len(records) - 1
         /\ Len(records) <= HistoryLimit => Retained(records) = records
<1>1. Len(records) \in Nat /\ HistoryLimit \in Nat \ {0}
  BY HostAssumption, LenProperties
<1>2. CASE Len(records) > HistoryLimit
  <2>1. records # <<>>
    BY <1>1, <1>2
  <2> QED
    BY <1>1, <1>2, <2>1, HeadTailProperties DEF Retained
<1>3. CASE ~(Len(records) > HistoryLimit)
  BY <1>1, <1>3 DEF Retained
<1> QED
  BY <1>1, <1>2, <1>3

-------------------------------------------------------------------------------
(* The inductive invariant, action by action.                              *)
LEMMA CallStep ==
  ASSUME HostInv, Call
  PROVE  HostInv'
<1>1. Typed /\ CommandInv /\ RoundsInv /\ DriftInv
  BY DEF HostInv
<1>2. /\ op = Free /\ op' \in Operations /\ op'.pc = "send" /\ op'.reply = None
      /\ op'.found = 0 /\ ~op'.cancelled
      /\ UNCHANGED <<command, broken, nextMatchID, suspect, issued, core, registry,
                     matches, byID, round, roundNow, roundActive>>
      /\ calls' \in [round : 0..MaxRounds, add : Nat, replace : Nat]
      /\ \/ op'.sends # "begin" /\ calls'.round = calls.round
         \/ op'.sends = "begin" /\ op'.node = 1 /\ calls'.round = calls.round + 1
  BY <1>1, CallEffect
<1>3. CommandInv' /\ ReplyInv' /\ \A n \in Nodes, id \in TicketIDs : ~Flying(n, id)'
  BY <1>1, <1>2, AfterReply
<1>4. Typed'
  BY <1>1, <1>2 DEF Typed
<1>5. RoundsInv'
  <2>1. round \in Nat /\ calls.round \in Nat
    BY <1>1, HostAssumption DEF Typed
  <2> QED
    BY <1>1, <1>2, <2>1 DEF RoundsInv
<1>6. DriftInv'
  BY <1>1, <1>2 DEF DriftInv, Flying
<1>7. LimitKept'
  BY <1>2 DEF LimitKept, Operations
<1> QED
  BY <1>3, <1>4, <1>5, <1>6, <1>7 DEF HostInv

LEMMA CancelStep ==
  ASSUME HostInv, Cancel
  PROVE  HostInv'
<1>1. /\ Typed /\ CommandInv /\ ReplyInv /\ RoundsInv /\ DriftInv /\ LimitKept
      /\ op # Free /\ op' = [op EXCEPT !.cancelled = TRUE]
      /\ UNCHANGED <<command, broken, nextMatchID, calls, suspect, issued, core, registry,
                     matches, byID, round, roundNow, roundActive>>
  BY DEF HostInv, Cancel, runtime
<1>2. op \in Operations
  BY <1>1, Holding
<1>3. /\ op' \in Operations /\ SameCall /\ op'.pc = op.pc /\ op'.reply = op.reply
  BY <1>1, <1>2 DEF Operations, SameCall
<1>4. op' # Free
  BY <1>3, Kinds
<1>5. Typed'
  BY <1>1, <1>3 DEF Typed
<1>6. CommandInv'
  BY <1>1, <1>3, <1>4 DEF CommandInv, SameCall
<1>7. ReplyInv'
  BY <1>1, <1>3, <1>4 DEF ReplyInv, SameCall
<1>8. RoundsInv' /\ LimitKept'
  BY <1>1, <1>3, <1>4 DEF RoundsInv, LimitKept, SameCall
<1>9. DriftInv'
  BY <1>1, <1>3, <1>4 DEF DriftInv, Flying, SameCall
<1> QED
  BY <1>5, <1>6, <1>7, <1>8, <1>9 DEF HostInv

LEMMA HandOverStep ==
  ASSUME HostInv, HandOver
  PROVE  HostInv'
<1>1. /\ Typed /\ CommandInv /\ ReplyInv /\ RoundsInv /\ DriftInv /\ LimitKept
  BY DEF HostInv
<1>2. /\ op # Free /\ op.pc = "send" /\ op.reply = None
      /\ op' \in Operations /\ SameCall /\ op'.pc = "wait" /\ op'.reply = None
      /\ command' \in [Nodes -> {None} \cup Commands]
      /\ command'[op.node] # None
      /\ command'[op.node].awaited
      /\ command'[op.node].ids = op.ids /\ command'[op.node].kind = op.sends
      /\ command'[op.node].now = calls.round
      /\ \A m \in Nodes \ {op.node} : command'[m] = command[m]
      /\ UNCHANGED <<broken, nextMatchID, calls, suspect, issued, core, registry,
                     matches, byID, round, roundNow, roundActive>>
  BY <1>1, HandOverEffect
<1>3. op' # Free
  BY <1>2, Kinds
<1>4. Typed'
  BY <1>1, <1>2 DEF Typed
<1>5. CommandInv'
  <2>1. \A n \in Nodes \ {op.node} : command'[n] # None => ~command'[n].awaited
    BY <1>1, <1>2 DEF CommandInv
  <2> QED
    BY <1>2, <1>3, <2>1 DEF CommandInv, SameCall
<1>6. ReplyInv'
  BY <1>2 DEF ReplyInv
<1>7. RoundsInv' /\ LimitKept'
  BY <1>1, <1>2, <1>3 DEF RoundsInv, LimitKept, SameCall
<1>8. DriftInv'
  BY <1>1, <1>2, <1>3 DEF DriftInv, Flying, SameCall
<1> QED
  BY <1>4, <1>5, <1>6, <1>7, <1>8 DEF HostInv

LEMMA GiveUpStep ==
  ASSUME HostInv, GiveUp
  PROVE  HostInv'
<1>1. /\ Typed /\ CommandInv /\ ReplyInv /\ RoundsInv /\ DriftInv /\ LimitKept
  BY DEF HostInv
<1>2. /\ op # Free /\ op' = Free
      /\ command' \in [Nodes -> {None} \cup Commands]
      /\ \A n \in Nodes : command'[n] # None => ~command'[n].awaited
      /\ suspect' = suspect \cup Missed /\ suspect' \subseteq Keys
      /\ UNCHANGED <<broken, nextMatchID, calls, issued, core, registry,
                     matches, byID, round, roundNow, roundActive>>
  BY <1>1, GiveUpEffect
<1>3. CommandInv' /\ ReplyInv' /\ \A n \in Nodes, id \in TicketIDs : ~Flying(n, id)'
  BY <1>1, <1>2, NothingAwaited
<1>4. Typed'
  BY <1>1, <1>2 DEF Typed
<1>5. RoundsInv' /\ LimitKept'
  BY <1>1, <1>2 DEF RoundsInv, LimitKept
<1>6. DriftInv'
  <2>1. \A n \in Nodes, id \in TicketIDs : <<n, id>> \in Missed <=> Flying(n, id)
    BY <1>1, <1>2, MissedMeaning
  <2> QED
    BY <1>1, <1>2, <2>1 DEF DriftInv
<1> QED
  BY <1>3, <1>4, <1>5, <1>6 DEF HostInv

LEMMA QuietStep ==
  ASSUME HostInv, ReturnError \/ Unavailable \/ Missed1
  PROVE  HostInv'
<1>1. /\ Typed /\ CommandInv /\ ReplyInv /\ RoundsInv /\ DriftInv /\ LimitKept
  BY DEF HostInv
<1>2. /\ op # Free /\ op.reply # None /\ op.reply.kind \in {"error", "unavailable", "missed"}
      /\ \/ op' = Free
         \/ Onward(op.found) /\ op.sends = "produce"
      /\ UNCHANGED <<command, broken, nextMatchID, calls, suspect, issued, core,
                     registry, matches, byID, round, roundNow, roundActive>>
  BY <1>1, QuietEffect
<1>3. \/ op' = Free
      \/ /\ op' \in Operations /\ op'.pc = "send" /\ op'.reply = None
         /\ op'.sends = op.sends /\ op'.cap = op.cap /\ op'.found = op.found
  BY <1>2 DEF Onward
<1>4. CommandInv' /\ ReplyInv' /\ \A n \in Nodes, id \in TicketIDs : ~Flying(n, id)'
  BY <1>1, <1>2, <1>3, AfterReply
<1>5. Typed'
  BY <1>1, <1>2, <1>3 DEF Typed
<1>6. RoundsInv' /\ LimitKept'
  BY <1>1, <1>2, <1>3 DEF RoundsInv, LimitKept
<1>7. DriftInv'
  <2>1. \A n \in Nodes, id \in TicketIDs : ~Flying(n, id)
    BY <1>2 DEF Flying, Changing
  <2> QED
    BY <1>1, <1>2, <2>1 DEF DriftInv
<1> QED
  BY <1>4, <1>5, <1>6, <1>7 DEF HostInv

LEMMA ObserveStep ==
  ASSUME HostInv, Observe
  PROVE  HostInv'
<1>1. /\ Typed /\ CommandInv /\ ReplyInv /\ RoundsInv /\ DriftInv /\ LimitKept
  BY DEF HostInv
<1>2. /\ op # Free /\ op.reply # None /\ op.reply.kind = "added" /\ op' = Free
      /\ op.reply.ids = op.ids /\ op.ids \subseteq core[op.node].tickets
      /\ registry' \subseteq Keys
      /\ \A n \in Nodes, id \in TicketIDs :
           <<n, id>> \in registry' <=> <<n, id>> \in registry \/ (n = op.node /\ id \in op.ids)
      /\ UNCHANGED <<command, broken, nextMatchID, calls, suspect, issued, core,
                     matches, byID, round, roundNow, roundActive>>
  BY <1>1, ObserveEffect
<1>3. CommandInv' /\ ReplyInv' /\ \A n \in Nodes, id \in TicketIDs : ~Flying(n, id)'
  BY <1>1, <1>2, AfterReply
<1>4. Typed'
  BY <1>1, <1>2 DEF Typed
<1>5. RoundsInv' /\ LimitKept'
  BY <1>1, <1>2 DEF RoundsInv, LimitKept
<1>6. DriftInv'
  BY <1>1, <1>2 DEF DriftInv, Flying
<1> QED
  BY <1>3, <1>4, <1>5, <1>6 DEF HostInv

LEMMA UnobserveStep ==
  ASSUME HostInv, Unobserve
  PROVE  HostInv'
<1>1. /\ Typed /\ CommandInv /\ ReplyInv /\ RoundsInv /\ DriftInv /\ LimitKept
  BY DEF HostInv
<1>2. /\ op # Free /\ op.reply # None /\ op.reply.kind = "removed" /\ op' = Free
      /\ op.reply.ids \subseteq op.ids /\ op.ids \cap core[op.node].tickets = {}
      /\ registry' \subseteq Keys
      /\ \A n \in Nodes, id \in TicketIDs :
           <<n, id>> \in registry' <=> <<n, id>> \in registry /\ ~(n = op.node /\ id \in op.ids)
      /\ UNCHANGED <<command, broken, nextMatchID, calls, suspect, issued, core,
                     matches, byID, round, roundNow, roundActive>>
  BY <1>1, UnobserveEffect
<1>3. CommandInv' /\ ReplyInv' /\ \A n \in Nodes, id \in TicketIDs : ~Flying(n, id)'
  BY <1>1, <1>2, AfterReply
<1>4. Typed'
  BY <1>1, <1>2 DEF Typed
<1>5. RoundsInv' /\ LimitKept'
  BY <1>1, <1>2 DEF RoundsInv, LimitKept
<1>6. DriftInv'
  BY <1>1, <1>2 DEF DriftInv, Flying
<1> QED
  BY <1>3, <1>4, <1>5, <1>6 DEF HostInv

LEMMA RoundBegunStep ==
  ASSUME HostInv, RoundBegun
  PROVE  HostInv'
<1>1. /\ Typed /\ CommandInv /\ ReplyInv /\ RoundsInv /\ DriftInv /\ LimitKept
  BY DEF HostInv
<1>2. /\ op # Free /\ op.reply # None /\ op.reply.kind = "begun" /\ op.sends = "begin"
      /\ NextNode \/ RoundBegins
      /\ UNCHANGED <<command, broken, nextMatchID, calls, suspect, issued, core,
                     registry, matches, byID>>
  BY <1>1, RoundBegunEffect
<1>3. \/ op' = Free
      \/ /\ op' \in Operations /\ op'.pc = "send" /\ op'.reply = None
         /\ op'.cap = op.cap /\ op'.found = op.found
  BY <1>2 DEF NextNode, RoundBegins
<1>4. CommandInv' /\ ReplyInv' /\ \A n \in Nodes, id \in TicketIDs : ~Flying(n, id)'
  BY <1>1, <1>2, <1>3, AfterReply
<1>5. /\ round \in Nat /\ roundNow \in 0..MaxRounds /\ calls.round \in 0..MaxRounds
      /\ roundActive \in BOOLEAN /\ MaxRounds \in Nat /\ op.sends = "begin" /\ op # Free
      /\ round < calls.round
  BY <1>1, <1>2, HostAssumption DEF Typed, RoundsInv
<1>6. \/ UNCHANGED <<round, roundNow, roundActive>> /\ op' # Free /\ op'.sends = "begin"
      \/ /\ round' = round + 1 /\ roundNow' = calls.round /\ roundActive' = TRUE
         /\ op' = Free \/ op'.sends = "produce"
  BY <1>2, Kinds DEF NextNode, RoundBegins
<1>7. round' \in Nat /\ roundNow' \in 0..MaxRounds /\ roundActive' \in BOOLEAN
  <2>1. \/ round' = round /\ roundNow' = roundNow
        \/ round' = round + 1 /\ roundNow' = calls.round
    BY <1>6
  <2>2. roundActive' \in BOOLEAN
    BY <1>5, <1>6, Zenon
  <2> QED
    BY <1>5, <2>1, <2>2
<1>8. Typed'
  BY <1>1, <1>2, <1>3, <1>7 DEF Typed
<1>9. RoundsInv'
  BY <1>2, <1>5, <1>6 DEF RoundsInv
<1>10. LimitKept'
  BY <1>1, <1>2, <1>3 DEF LimitKept
<1>11. DriftInv'
  <2>1. \A n \in Nodes, id \in TicketIDs : ~Flying(n, id)
    BY <1>2 DEF Flying, Changing
  <2> QED
    BY <1>1, <1>2, <2>1 DEF DriftInv
<1> QED
  BY <1>4, <1>8, <1>9, <1>10, <1>11 DEF HostInv

LEMMA DropStep ==
  ASSUME HostInv, DropMatch
  PROVE  HostInv'
<1>1. /\ Typed /\ CommandInv /\ ReplyInv /\ RoundsInv /\ DriftInv /\ LimitKept
  BY DEF HostInv
<1>2. /\ op # Free /\ op.reply # None /\ op' = Free
      /\ nextMatchID' \in 1..LastMatchID
      /\ suspect' = suspect \cup Missed /\ suspect' \subseteq Keys
      /\ UNCHANGED <<command, broken, calls, issued, core, registry,
                     matches, byID, round, roundNow, roundActive>>
  BY <1>1, DropEffect
<1>3. CommandInv' /\ ReplyInv' /\ \A n \in Nodes, id \in TicketIDs : ~Flying(n, id)'
  BY <1>1, <1>2, AfterReply
<1>4. Typed'
  BY <1>1, <1>2 DEF Typed
<1>5. RoundsInv' /\ LimitKept'
  BY <1>1, <1>2 DEF RoundsInv, LimitKept
<1>6. DriftInv'
  <2>1. \A n \in Nodes, id \in TicketIDs : <<n, id>> \in Missed <=> Flying(n, id)
    BY <1>1, <1>2, MissedMeaning
  <2> QED
    BY <1>1, <1>2, <2>1 DEF DriftInv
<1> QED
  BY <1>3, <1>4, <1>5, <1>6 DEF HostInv

LEMMA RecordStep ==
  ASSUME HostInv, RecordMatch
  PROVE  HostInv'
<1>1. /\ Typed /\ CommandInv /\ ReplyInv /\ RoundsInv /\ DriftInv /\ LimitKept
  BY DEF HostInv
<1>2. /\ op # Free /\ op.reply # None /\ op.reply.kind = "matched"
      /\ op' = Free \/ (Onward(op.found + 1) /\ ~LimitReached(op.found + 1))
      /\ Missed \subseteq registry
      /\ nextMatchID' \in 1..LastMatchID
      /\ registry' = registry \ Missed
      /\ Record(op.reply.ids) \in Records
      /\ matches' = Retained(Append(matches, Record(op.reply.ids)))
      /\ issued' = issued \cup {nextMatchID}
      /\ UNCHANGED <<command, broken, calls, suspect, core, round, roundNow, roundActive>>
  BY <1>1, RecordEffect
<1>3. \/ op' = Free
      \/ /\ op' \in Operations /\ op'.pc = "send" /\ op'.reply = None
         /\ op'.sends = op.sends /\ op'.cap = op.cap /\ op'.found = op.found + 1
         /\ ~LimitReached(op.found + 1)
  BY <1>2 DEF Onward
<1>4. CommandInv' /\ ReplyInv' /\ \A n \in Nodes, id \in TicketIDs : ~Flying(n, id)'
  BY <1>1, <1>2, <1>3, AfterReply
<1>5. Typed'
  <2>1. Append(matches, Record(op.reply.ids)) \in Seq(Records)
    BY <1>1, <1>2 DEF Typed
  <2>2. matches' \in Seq(Records)
    BY <1>2, <2>1, RetainedTyped
  <2>3. issued' \subseteq 1..LastMatchID /\ registry' \subseteq Keys
    BY <1>1, <1>2 DEF Typed
  <2> QED
    BY <1>1, <1>2, <1>3, <2>2, <2>3 DEF Typed
<1>6. RoundsInv'
  BY <1>1, <1>2, <1>3 DEF RoundsInv
<1>7. LimitKept'
  <2>1. op.found + 1 \in Nat /\ op.cap \in Nat
    BY <1>1, <1>2, Holding
  <2> QED
    BY <1>3, <2>1 DEF LimitKept, LimitReached
<1>8. DriftInv'
  <2>1. \A n \in Nodes, id \in TicketIDs : <<n, id>> \in Missed <=> Flying(n, id)
    BY <1>1, <1>2, MissedMeaning
  <2>2. \A n \in Nodes, id \in TicketIDs : Flying(n, id) => id \notin core[n].tickets
    BY <1>1, <1>2 DEF ReplyInv, Flying
  <2> QED
    BY <1>1, <1>2, <2>1, <2>2 DEF DriftInv
<1> QED
  BY <1>4, <1>5, <1>6, <1>7, <1>8 DEF HostInv

LEMMA ReplaceStep ==
  ASSUME HostInv, ReplaceScenario
  PROVE  HostInv'
<1>1. Typed /\ RoundsInv
  BY DEF HostInv
<1>2. /\ op' = Free /\ nextMatchID' = nextMatchID
      /\ command' = [n \in Nodes |-> None] /\ core' = [n \in Nodes |-> NewCore]
      /\ registry' = {} /\ matches' = <<>> /\ suspect' = {}
      /\ round' = 0 /\ roundNow' = 0 /\ roundActive' = FALSE
      /\ calls' \in [round : 0..MaxRounds, add : Nat, replace : Nat]
      /\ calls'.round = calls.round /\ issued' = issued /\ broken' = FALSE
  BY <1>1, ReplaceEffect
<1>3. CommandInv' /\ ReplyInv' /\ \A n \in Nodes, id \in TicketIDs : ~Flying(n, id)'
  BY <1>1, <1>2, NothingAwaited
<1>4. Typed'
  <2>1. NewCore \in Cores /\ 0 \in 0..MaxRounds
    BY HostAssumption DEF NewCore, Cores
  <2>2. command' \in [Nodes -> {None} \cup Commands] /\ core' \in [Nodes -> Cores]
    BY <1>2, <2>1
  <2>3. matches' \in Seq(Records) /\ 0 \in Nat
    BY <1>2
  <2> QED
    BY <1>1, <1>2, <2>1, <2>2, <2>3 DEF Typed
<1>5. RoundsInv'
  <2>1. calls'.round \in Nat
    BY <1>1, <1>2, HostAssumption DEF Typed
  <2> QED
    BY <1>2, <2>1 DEF RoundsInv
<1>6. LimitKept' /\ DriftInv'
  BY <1>2 DEF LimitKept, DriftInv, NewCore
<1> QED
  BY <1>3, <1>4, <1>5, <1>6 DEF HostInv

(* A step of an owner goroutine: its reply is what the operation knows of  *)
(* the node, or, when nobody waits for it, what nobody knows of it.        *)
LEMMA GoroutineStep ==
  ASSUME HostInv, NEW n \in Nodes, Goroutine(n)
  PROVE  HostInv'
<1>1. /\ Typed /\ CommandInv /\ ReplyInv /\ RoundsInv /\ DriftInv /\ LimitKept
  BY DEF HostInv
<1>2. /\ UNCHANGED <<nextMatchID, calls, issued, registry, matches, byID, round,
                     roundNow, roundActive>>
      /\ command[n] # None
      /\ broken' \in {broken, broken \/ "provider" \in Faults}
      /\ \A m \in Nodes \ {n} : core'[m] = core[m]
      /\ \/ GoesOn(n) /\ \A m \in Nodes \ {n} : command'[m] = command[m]
         \/ Works(n)
  BY <1>1, GoroutineEffect
<1>3. broken' \in BOOLEAN
  BY <1>1, <1>2, Zenon DEF Typed
<1>4. CASE GoesOn(n) /\ \A m \in Nodes \ {n} : command'[m] = command[m]
  <2>1. /\ op' = op /\ suspect' = suspect /\ core' = core
        /\ command' \in [Nodes -> {None} \cup Commands] /\ command'[n] # None
        /\ command'[n].kind = command[n].kind /\ command'[n].ids = command[n].ids
        /\ command'[n].now = command[n].now /\ command'[n].awaited = command[n].awaited
    BY <1>4 DEF GoesOn
  <2>2. Typed'
    BY <1>1, <1>2, <1>3, <2>1 DEF Typed
  <2>3. CommandInv'
    <3>1. \A m \in Nodes :
            /\ command'[m] = None <=> command[m] = None
            /\ command[m] # None =>
                 /\ command'[m].kind = command[m].kind /\ command'[m].ids = command[m].ids
                 /\ command'[m].now = command[m].now /\ command'[m].awaited = command[m].awaited
      BY <1>2, <1>4, <2>1
    <3>2. op # Free => op.node \in Nodes
      BY <1>1, Holding
    <3> QED
      BY <1>1, <1>2, <2>1, <3>1, <3>2 DEF CommandInv
  <2>4. ReplyInv' /\ RoundsInv' /\ LimitKept'
    BY <1>1, <1>2, <2>1 DEF ReplyInv, RoundsInv, LimitKept
  <2>5. DriftInv'
    BY <1>1, <1>2, <2>1 DEF DriftInv, Flying
  <2> QED
    BY <2>2, <2>3, <2>4, <2>5 DEF HostInv
<1>5. CASE Works(n)
  <2>1. PICK kind \in ReplyKinds, ids \in SUBSET TicketIDs :
          /\ Reply(n, kind, ids) /\ Done(n, kind, ids)
          /\ core' \in [Nodes -> Cores]
    BY <1>5 DEF Works
  <2>2. /\ command' \in [Nodes -> {None} \cup Commands] /\ command'[n] = None
        /\ \A m \in Nodes \ {n} : command'[m] = command[m]
        /\ suspect' \subseteq Keys /\ op' \in {Free} \cup Operations
        /\ Answered(n, kind, ids)
    BY <1>1, <1>2, <2>1, ReplyEffect
  <2>3. Typed'
    BY <1>1, <1>2, <1>3, <2>1, <2>2 DEF Typed
  (* What changes of the tickets of n is what the reply tells.             *)
  <2>4. /\ kind \notin Changing => core'[n].tickets = core[n].tickets
        /\ kind \in Changing =>
             \A id \in TicketIDs \ ids :
               id \in core'[n].tickets <=> id \in core[n].tickets
    BY <2>1 DEF Done, Changing
  <2>5. CASE command[n].awaited
    <3>1. /\ op # Free /\ op.node = n /\ op.reply = None
          /\ op' \in Operations /\ SameCall /\ op'.pc = "wait"
          /\ op'.reply = [kind |-> kind, ids |-> ids] /\ suspect' = suspect
      BY <2>2, <2>5 DEF Answered
    <3>2. /\ command[n].ids = op.ids /\ command[n].kind = op.sends
          /\ op' # Free /\ op'.reply # None /\ op'.reply.kind = kind /\ op'.reply.ids = ids
          /\ op'.node = n /\ op'.ids = op.ids /\ op'.sends = op.sends
      BY <1>1, <1>2, <2>5, <3>1, Kinds DEF CommandInv, SameCall
    <3>3. \A m \in Nodes, id \in TicketIDs : ~Flying(m, id)
      BY <3>1, Kinds DEF Flying, Changing, ReplyKinds
    <3>4. CommandInv'
      <4>1. \A m \in Nodes : command'[m] # None => ~command'[m].awaited
        BY <1>1, <2>2, <3>1 DEF CommandInv
      <4> QED
        BY <2>2, <3>1, <3>2, <4>1 DEF CommandInv
    <3>5. ReplyInv'
      <4>1. ASSUME kind = "matched"
            PROVE  /\ ids \cap core'[n].tickets = {}
                   /\ \A id \in ids : <<n, id>> \in registry' \cup suspect'
        <5>1. ids \subseteq core[n].tickets /\ core'[n].tickets = core[n].tickets \ ids
          BY <2>1, <4>1 DEF Done
        <5>2. \A id \in ids : <<n, id>> \in registry \cup suspect
          BY <1>1, <2>1, <3>3, <5>1 DEF DriftInv
        <5> QED
          BY <1>2, <3>1, <5>1, <5>2
      <4>2. kind = "added" => ids = op.ids /\ op.ids \subseteq core'[n].tickets
        BY <2>1, <3>2 DEF Done
      <4>3. kind = "removed" => ids \subseteq op.ids /\ op.ids \cap core'[n].tickets = {}
        BY <2>1, <3>2 DEF Done
      <4>4. /\ kind = "added" => op.sends = "add"
            /\ kind = "removed" => op.sends = "remove"
            /\ kind = "begun" => op.sends = "begin"
            /\ kind \in {"unavailable", "missed", "matched"} => op.sends = "produce"
        BY <2>1, <3>2 DEF Done
      <4> QED
        BY <3>2, <4>1, <4>2, <4>3, <4>4 DEF ReplyInv
    <3>6. RoundsInv' /\ LimitKept'
      BY <1>1, <1>2, <3>1, <3>2 DEF RoundsInv, LimitKept, SameCall
    <3>7. DriftInv'
      <4>1. SUFFICES ASSUME NEW m \in Nodes, NEW id \in TicketIDs
                     PROVE  \/ id \in core'[m].tickets <=> <<m, id>> \in registry'
                            \/ <<m, id>> \in suspect'
                            \/ Flying(m, id)'
        BY DEF DriftInv
      <4>2. \/ id \in core[m].tickets <=> <<m, id>> \in registry
            \/ <<m, id>> \in suspect
        BY <1>1, <3>3 DEF DriftInv
      <4>3. CASE m # n
        BY <1>2, <3>1, <4>2, <4>3
      <4>4. CASE m = n /\ kind \in Changing /\ id \in ids
        BY <3>2, <4>4 DEF Flying
      <4>5. CASE m = n /\ ~(kind \in Changing /\ id \in ids)
        BY <1>2, <2>4, <3>1, <4>2, <4>5
      <4> QED
        BY <4>3, <4>4, <4>5
    <3> QED
      BY <2>3, <3>4, <3>5, <3>6, <3>7 DEF HostInv
  <2>6. CASE ~command[n].awaited
    <3>1. /\ op' = op
          /\ suspect' = suspect \cup IF kind \in Changing THEN Of(n, ids) ELSE {}
      BY <2>2, <2>6 DEF Answered
    <3>2. op # Free => op.node \in Nodes
      BY <1>1, Holding
    <3>3. op # Free /\ op.reply # None => op.node # n
      BY <1>1, <1>2 DEF CommandInv
    <3>4. CommandInv'
      <4>1. \A m \in Nodes : command'[m] # None /\ command'[m].awaited =>
              m # n /\ command'[m] = command[m]
        BY <2>2
      <4>2. op # Free /\ op.pc = "wait" /\ op.reply = None =>
              command'[op.node] # None /\ command'[op.node].awaited
        BY <1>1, <2>2, <2>6, <3>2 DEF CommandInv
      <4>3. op # Free /\ op.reply # None => command'[op.node] = None
        BY <1>1, <2>2, <3>2 DEF CommandInv
      <4> QED
        BY <1>1, <1>2, <3>1, <4>1, <4>2, <4>3 DEF CommandInv
    <3>5. ReplyInv'
      <4>1. op # Free /\ op.reply # None => core'[op.node] = core[op.node]
        BY <1>2, <3>2, <3>3
      <4>2. suspect \subseteq suspect'
        BY <3>1
      <4> QED
        BY <1>1, <1>2, <3>1, <4>1, <4>2 DEF ReplyInv
    <3>6. RoundsInv' /\ LimitKept'
      BY <1>1, <1>2, <3>1 DEF RoundsInv, LimitKept
    <3>7. DriftInv'
      <4>1. SUFFICES ASSUME NEW m \in Nodes, NEW id \in TicketIDs
                     PROVE  \/ id \in core'[m].tickets <=> <<m, id>> \in registry'
                            \/ <<m, id>> \in suspect'
                            \/ Flying(m, id)'
        BY DEF DriftInv
      <4>2. \/ id \in core[m].tickets <=> <<m, id>> \in registry
            \/ <<m, id>> \in suspect
            \/ Flying(m, id)
        BY <1>1 DEF DriftInv
      <4>3. Flying(m, id) => Flying(m, id)'
        BY <3>1 DEF Flying
      <4>4. CASE m # n
        BY <1>2, <3>1, <4>2, <4>3, <4>4
      <4>5. CASE m = n /\ kind \in Changing /\ id \in ids
        BY <3>1, <4>5 DEF Of
      <4>6. CASE m = n /\ ~(kind \in Changing /\ id \in ids)
        BY <1>2, <2>4, <3>1, <4>2, <4>3, <4>6
      <4> QED
        BY <4>4, <4>5, <4>6
    <3> QED
      BY <2>3, <3>4, <3>5, <3>6, <3>7 DEF HostInv
  <2> QED
    BY <2>5, <2>6
<1> QED
  BY <1>2, <1>4, <1>5

LEMMA HostInit == Init => HostInv
<1> SUFFICES ASSUME Init
             PROVE  HostInv
  OBVIOUS
<1>1. Typed
  <2>1. NewCore \in Cores /\ 0 \in 0..MaxRounds /\ 0 \in Nat /\ 1 \in 1..LastMatchID
    BY HostAssumption DEF NewCore, Cores
  <2>2. calls \in [round : 0..MaxRounds, add : Nat, replace : Nat]
    BY <2>1 DEF Init
  <2>3. command \in [Nodes -> {None} \cup Commands] /\ core \in [Nodes -> Cores]
    BY <2>1 DEF Init
  <2>4. matches \in Seq(Records)
    BY DEF Init
  <2> QED
    BY <2>1, <2>2, <2>3, <2>4 DEF Init, Typed
<1>2. CommandInv /\ ReplyInv
  BY DEF Init, CommandInv, ReplyInv
<1>3. RoundsInv /\ LimitKept /\ DriftInv
  BY DEF Init, RoundsInv, LimitKept, DriftInv, NewCore
<1> QED
  BY <1>1, <1>2, <1>3 DEF HostInv

LEMMA HostStep == HostInv /\ [Next]_vars => HostInv'
<1> SUFFICES ASSUME HostInv, [Next]_vars
             PROVE  HostInv'
  OBVIOUS
<1>1. CASE Call
  BY <1>1, CallStep
<1>2. CASE Cancel
  BY <1>2, CancelStep
<1>3. CASE Continue
  BY <1>3, HandOverStep, GiveUpStep, QuietStep, ObserveStep, UnobserveStep, RoundBegunStep,
     DropStep, RecordStep DEF Continue
<1>4. CASE \E n \in Nodes : Goroutine(n)
  BY <1>4, GoroutineStep
<1>5. CASE ReplaceScenario
  BY <1>5, ReplaceStep
<1>6. CASE Close \/ UNCHANGED vars
  <2>1. UNCHANGED <<op, command, broken, nextMatchID, calls, suspect, issued, core, registry,
                    matches, byID, round, roundNow, roundActive>>
    BY <1>6 DEF Close, vars, runtime
  <2> QED
    BY <2>1 DEF HostInv, Typed, CommandInv, ReplyInv, RoundsInv, DriftInv, Flying, LimitKept
<1> QED
  BY <1>1, <1>2, <1>3, <1>4, <1>5, <1>6 DEF Next

-------------------------------------------------------------------------------
(* The match history.                                                      *)
Increasing(records) ==
  \A i, j \in DOMAIN records : i < j => records[i].id < records[j].id

LEMMA IndexCardinality ==
  ASSUME NEW records \in Seq(Records), Increasing(records)
  PROVE  Cardinality(Index(records)) = Len(records)
<1> DEFINE F == [i \in 1..Len(records) |-> records[i].id]
<1>1. Len(records) \in Nat /\ DOMAIN records = 1..Len(records)
  BY LenProperties
<1>2. \A i \in 1..Len(records) : records[i].id \in Nat
  <2>1. \A i \in 1..Len(records) : records[i] \in Records
    BY <1>1, ElementOfSeq
  <2>2. 1..LastMatchID \subseteq Nat
    BY HostAssumption
  <2> QED
    BY <2>1, <2>2 DEF Records
<1>3. F \in [1..Len(records) -> Index(records)]
  BY <1>1 DEF Index
<1>4. ASSUME NEW a \in 1..Len(records), NEW b \in 1..Len(records), F[a] = F[b]
      PROVE  a = b
  <2>1. records[a].id = records[b].id /\ a \in Nat /\ b \in Nat
    BY <1>1, <1>4
  <2>2. ~(a < b) /\ ~(b < a)
    BY <1>1, <1>2, <2>1 DEF Increasing
  <2> QED
    BY <2>1, <2>2
<1>5. \A t \in Index(records) : \E s \in 1..Len(records) : F[s] = t
  BY <1>1 DEF Index
<1> HIDE DEF F
<1>6. F \in Bijection(1..Len(records), Index(records))
  BY <1>3, <1>4, <1>5, Fun_IsBij
<1>7. ExistsBijection(1..Len(records), Index(records))
  BY <1>6 DEF ExistsBijection
<1> QED
  BY <1>1, <1>7, FS_CountingElements

LEMMA RetainedRecords ==
  ASSUME NEW records \in Seq(Records), Increasing(records), records # <<>>,
         Len(records) <= HistoryLimit + 1
  PROVE  /\ Retained(records) \in Seq(Records) /\ Increasing(Retained(records))
         /\ Retained(records) # <<>> /\ Len(Retained(records)) <= HistoryLimit
         /\ \A i \in DOMAIN Retained(records) :
              \E j \in DOMAIN records : Retained(records)[i] = records[j]
         /\ Retained(records)[Len(Retained(records))] = records[Len(records)]
<1>1. Len(records) \in Nat /\ HistoryLimit \in Nat \ {0} /\ DOMAIN records = 1..Len(records)
  BY HostAssumption, LenProperties
<1>2. CASE Len(records) > HistoryLimit
  <2>1. /\ Retained(records) = Tail(records) /\ Tail(records) \in Seq(Records)
        /\ Len(Tail(records)) = Len(records) - 1
        /\ \A i \in 1..Len(Tail(records)) : Tail(records)[i] = records[i + 1]
    BY <1>2, RetainedTyped, HeadTailProperties
  <2>2. DOMAIN Tail(records) = 1..(Len(records) - 1) /\ Tail(records) # <<>>
    <3>1. DOMAIN Tail(records) = 1..Len(Tail(records))
      BY <2>1, LenProperties
    <3>2. Len(Tail(records)) # 0 /\ Len(<<>>) = 0
      BY <1>1, <1>2, <2>1
    <3> QED
      BY <2>1, <3>1, <3>2
  <2>3. \A i \in DOMAIN Tail(records) : i + 1 \in DOMAIN records /\ i \in Nat
    BY <1>1, <2>2
  <2>4. Increasing(Tail(records))
    <3>1. SUFFICES ASSUME NEW i \in DOMAIN Tail(records), NEW j \in DOMAIN Tail(records), i < j
                   PROVE  Tail(records)[i].id < Tail(records)[j].id
      BY DEF Increasing
    <3>2. i + 1 \in DOMAIN records /\ j + 1 \in DOMAIN records /\ i + 1 < j + 1
      BY <2>3, <3>1
    <3>3. Tail(records)[i] = records[i + 1] /\ Tail(records)[j] = records[j + 1]
      BY <2>1, <2>2
    <3> QED
      BY <3>2, <3>3 DEF Increasing
  <2>5. Tail(records)[Len(Tail(records))] = records[Len(records)]
    BY <1>1, <1>2, <2>1
  <2>6. Len(Tail(records)) <= HistoryLimit
    BY <1>1, <2>1
  <2>7. \A i \in DOMAIN Tail(records) : \E j \in DOMAIN records : Tail(records)[i] = records[j]
    BY <2>1, <2>2, <2>3
  <2> QED
    BY <2>1, <2>2, <2>4, <2>5, <2>6, <2>7
<1>3. CASE Len(records) <= HistoryLimit
  BY <1>1, <1>3, RetainedTyped
<1> QED
  BY <1>1, <1>2, <1>3

(* The record of a match closes the history, under an ID never used.       *)
LEMMA RecordHistory ==
  ASSUME Typed, HistoryInv, RecordMatch
  PROVE  /\ HistoryInv' /\ matches'[Len(matches')].id = nextMatchID
         /\ \A i \in DOMAIN matches' :
              \/ matches'[i] = Record(op.reply.ids)
              \/ \E j \in DOMAIN matches : matches'[i] = matches[j]
<1> DEFINE record == Record(op.reply.ids)
           records == Append(matches, record)
<1>1. /\ nextMatchID' = nextMatchID + 1 /\ nextMatchID \in Nat
      /\ record \in Records /\ record.id = nextMatchID
      /\ matches' = Retained(records) /\ byID' = Index(matches')
      /\ issued' = issued \cup {nextMatchID} /\ issued \subseteq Nat
      /\ matches \in Seq(Records)
  BY RecordEffect, HostAssumption DEF Record, Typed
<1>2. /\ \A i \in DOMAIN matches : matches[i].id < nextMatchID
      /\ \A m \in issued : m < nextMatchID
      /\ Increasing(matches) /\ Len(matches) <= HistoryLimit
  BY DEF HistoryInv, HistoryIndexed, Increasing
<1>3. Len(matches) \in Nat /\ DOMAIN matches = 1..Len(matches) /\ HistoryLimit \in Nat
  BY <1>1, LenProperties, HostAssumption
<1>a. \A i \in DOMAIN matches : matches[i].id \in Nat
  <2>1. \A i \in DOMAIN matches : matches[i] \in Records
    BY <1>1, <1>3, ElementOfSeq
  <2>2. 1..LastMatchID \subseteq Nat
    BY HostAssumption
  <2> QED
    BY <2>1, <2>2 DEF Records
<1> HIDE DEF record
<1>4. /\ records \in Seq(Records) /\ records # <<>> /\ Len(records) = Len(matches) + 1
      /\ \A i \in 1..Len(matches) : records[i] = matches[i]
      /\ records[Len(matches) + 1] = record
  BY <1>1, AppendProperties
<1>5. DOMAIN records = 1..(Len(matches) + 1)
  BY <1>4, LenProperties
<1> HIDE DEF records
<1>6. \A i \in DOMAIN records : i = Len(matches) + 1 \/ i \in DOMAIN matches
  BY <1>3, <1>5
<1>7. Increasing(records)
  <2>1. SUFFICES ASSUME NEW i \in DOMAIN records, NEW j \in DOMAIN records, i < j
                 PROVE  records[i].id < records[j].id
    BY DEF Increasing
  <2>2. i \in DOMAIN matches
    BY <1>3, <1>5, <2>1
  <2>3. CASE j = Len(matches) + 1
    BY <1>1, <1>2, <1>3, <1>4, <2>2, <2>3
  <2>4. CASE j \in DOMAIN matches
    BY <1>2, <1>3, <1>4, <2>1, <2>2, <2>4 DEF Increasing
  <2> QED
    BY <1>6, <2>3, <2>4
<1>8. /\ matches' \in Seq(Records) /\ Increasing(matches')
      /\ Len(matches') <= HistoryLimit
      /\ \A i \in DOMAIN matches' : \E j \in DOMAIN records : matches'[i] = records[j]
      /\ matches'[Len(matches')] = records[Len(records)]
  <2>1. Len(records) <= HistoryLimit + 1
    BY <1>2, <1>3, <1>4
  <2>2. matches' = Retained(records)
    BY <1>1 DEF records
  <2> QED
    BY <1>4, <1>7, <2>1, <2>2, RetainedRecords
<1>9. \A i \in DOMAIN matches' :
        matches'[i] = record \/ \E j \in DOMAIN matches : matches'[i] = matches[j]
  BY <1>3, <1>4, <1>6, <1>8
<1>10. matches'[Len(matches')].id = nextMatchID
  BY <1>1, <1>4, <1>8
<1>11. \A i \in DOMAIN matches' : matches'[i].id < nextMatchID'
  BY <1>1, <1>2, <1>9, <1>a
<1>12. \A m \in issued' : m < nextMatchID'
  BY <1>1, <1>2
<1>13. HistoryIndexed'
  <2>1. Cardinality(Index(matches')) = Len(matches')
    BY <1>8, IndexCardinality
  <2> QED
    BY <1>1, <1>8, <2>1 DEF HistoryIndexed, Index
<1> QED
  BY <1>8, <1>9, <1>10, <1>11, <1>12, <1>13 DEF HistoryInv, Increasing, record

(* The other steps keep the history, or empty it.                          *)
Recording == RecordMatch \/ DropMatch \/ ReplaceScenario

LEMMA OtherSteps ==
  ASSUME HostInv, [Next]_vars, ~Recording
  PROVE  UNCHANGED <<matches, byID, nextMatchID, issued>>
<1>1. Typed /\ CommandInv /\ ReplyInv /\ LimitKept
  BY DEF HostInv
<1>2. CASE Call
  BY <1>1, <1>2, CallEffect
<1>3. CASE Cancel \/ Close \/ UNCHANGED vars
  BY <1>3 DEF Cancel, Close, vars, runtime
<1>4. CASE Continue
  BY <1>1, <1>4, HandOverEffect, GiveUpEffect, QuietEffect, ObserveEffect, UnobserveEffect,
     RoundBegunEffect DEF Continue, Recording
<1>5. CASE \E n \in Nodes : Goroutine(n)
  BY <1>1, <1>5, GoroutineEffect
<1> QED
  BY <1>2, <1>3, <1>4, <1>5 DEF Next, Recording

LEMMA HistoryInit == Init => HistoryInv
<1> SUFFICES ASSUME Init
             PROVE  HistoryInv
  OBVIOUS
<1>1. matches = <<>> /\ byID = {} /\ issued = {}
  BY DEF Init
<1>2. HistoryIndexed
  BY <1>1, HostAssumption, FS_EmptySet DEF HistoryIndexed
<1> QED
  BY <1>1, <1>2 DEF HistoryInv

LEMMA HistoryStep == HostInv /\ HistoryInv /\ [Next]_vars => HistoryInv'
<1> SUFFICES ASSUME HostInv, HistoryInv, [Next]_vars
             PROVE  HistoryInv'
  OBVIOUS
<1>1. Typed
  BY DEF HostInv
<1>2. CASE RecordMatch
  BY <1>1, <1>2, RecordHistory
<1>3. nextMatchID \in Nat /\ issued \subseteq Nat
  BY <1>1, HostAssumption DEF Typed
<1>4. CASE DropMatch
  <2>1. /\ nextMatchID' \in {nextMatchID, nextMatchID + 1}
        /\ UNCHANGED <<issued, matches, byID>>
    BY <1>1, <1>4, DropEffect
  <2>2. \A i \in DOMAIN matches : matches[i].id \in Nat
    <3>1. \A i \in DOMAIN matches : matches[i] \in Records
      BY <1>1, LenProperties, ElementOfSeq DEF Typed
    <3>2. 1..LastMatchID \subseteq Nat
      BY HostAssumption
    <3> QED
      BY <3>1, <3>2 DEF Records
  <2>3. HistoryIndexed'
    BY <2>1 DEF HistoryInv, HistoryIndexed
  <2> QED
    BY <1>3, <2>1, <2>2, <2>3 DEF HistoryInv
<1>5. CASE ReplaceScenario
  <2>1. nextMatchID' = nextMatchID /\ matches' = <<>> /\ byID' = {} /\ issued' = issued
    BY <1>1, <1>5, ReplaceEffect
  <2>2. HistoryIndexed'
    BY <2>1, HostAssumption, FS_EmptySet DEF HistoryIndexed
  <2> QED
    BY <2>1, <2>2 DEF HistoryInv
<1>6. CASE ~Recording
  <2>1. UNCHANGED <<matches, byID, nextMatchID, issued>>
    BY <1>6, OtherSteps
  <2> QED
    BY <2>1 DEF HistoryInv, HistoryIndexed
<1> QED
  BY <1>2, <1>4, <1>5, <1>6 DEF Recording

-------------------------------------------------------------------------------
(* Without cancelled calls.                                                *)
Begun(n) ==
  /\ op # Free /\ op.sends = "begin"
  /\ n < op.node \/ (n = op.node /\ op.reply.kind = "begun")

(* The conjuncts of CalmInv.                                               *)
CallsCalm ==
  /\ op # Free => ~op.cancelled /\ (op.sends = "begin" => op.reply.kind # "error")
  /\ \A n \in Nodes : command[n] # None => command[n].awaited /\ ~command[n].cancelled

TimesCalm ==
  \A n \in Nodes : core[n].now = IF Begun(n) THEN calls.round ELSE roundNow

LEMMA CalmMeaning ==
  CalmInv <=> ("cancel" \notin Faults => CallsCalm /\ TimesCalm /\ RecordTellsRound)
  BY DEF CalmInv, CallsCalm, TimesCalm, Begun

LEMMA CalmInit == Init => CalmInv
<1> SUFFICES ASSUME Init
             PROVE  CallsCalm /\ TimesCalm /\ RecordTellsRound
  BY CalmMeaning
<1>1. CallsCalm /\ TimesCalm
  BY DEF Init, CallsCalm, TimesCalm, Begun, NewCore
<1>2. RecordTellsRound
  BY DEF Init, RecordTellsRound
<1> QED
  BY <1>1, <1>2

(* The reply of an owner goroutine, when nobody ever left.                 *)
LEMMA CalmGoroutine ==
  ASSUME HostInv, CallsCalm, TimesCalm, NEW n \in Nodes, Goroutine(n)
  PROVE  /\ CallsCalm' /\ TimesCalm' /\ matches' = matches
         /\ suspect' = suspect /\ nextMatchID' = nextMatchID
<1>1. /\ Typed /\ CommandInv
  BY DEF HostInv
<1>2. /\ UNCHANGED <<nextMatchID, calls, matches, roundNow>> /\ command[n] # None
      /\ \A m \in Nodes \ {n} : core'[m] = core[m]
      /\ \/ GoesOn(n) /\ \A m \in Nodes \ {n} : command'[m] = command[m]
         \/ Works(n)
  BY <1>1, GoroutineEffect
<1>3. /\ command[n].awaited /\ ~ContextDone(n) /\ op # Free
      /\ command[n].now = calls.round /\ command[n].kind = op.sends
      /\ op.node = n /\ op.reply = None
  BY <1>1, <1>2 DEF CallsCalm, CommandInv, ContextDone
<1>4. n \in Nat
  BY DEF Nodes
<1>5. CASE GoesOn(n) /\ \A m \in Nodes \ {n} : command'[m] = command[m]
  <2>1. \A m \in Nodes :
          /\ command'[m] # None => command[m] # None
          /\ command'[m] # None => /\ command'[m].awaited = command[m].awaited
                                   /\ command'[m].cancelled = command[m].cancelled
    BY <1>2, <1>5 DEF GoesOn
  <2>2. op' = op /\ core' = core /\ suspect' = suspect
    BY <1>5 DEF GoesOn
  <2> QED
    BY <1>2, <2>1, <2>2 DEF CallsCalm, TimesCalm, Begun
<1>6. CASE Works(n)
  <2>1. PICK kind \in ReplyKinds, ids \in SUBSET TicketIDs :
          Reply(n, kind, ids) /\ Done(n, kind, ids)
    BY <1>6 DEF Works
  <2>2. /\ command'[n] = None /\ \A m \in Nodes \ {n} : command'[m] = command[m]
        /\ Answered(n, kind, ids)
    BY <1>1, <1>2, <2>1, ReplyEffect
  <2>3. /\ op' # Free /\ op'.sends = op.sends /\ op'.node = n /\ op'.reply.kind = kind
        /\ op'.cancelled = op.cancelled /\ suspect' = suspect
    BY <1>3, <2>2, Kinds DEF Answered, SameCall
  <2>4. CallsCalm'
    <3>1. kind = "error" => op.sends # "begin"
      BY <1>3, <2>1 DEF Done
    <3>2. \A m \in Nodes : command'[m] # None => command'[m] = command[m]
      BY <2>2
    <3> QED
      BY <1>3, <2>3, <3>1, <3>2 DEF CallsCalm
  <2>5. TimesCalm'
    <3>1. SUFFICES ASSUME NEW m \in Nodes
                   PROVE  core'[m].now = IF Begun(m)' THEN calls.round ELSE roundNow
      BY <1>2 DEF TimesCalm
    <3>2. core[m].now = IF Begun(m) THEN calls.round ELSE roundNow
      BY DEF TimesCalm
    <3>3. CASE m # n
      BY <1>2, <1>3, <2>3, <3>2, <3>3 DEF Begun
    <3>4. CASE m = n /\ kind = "begun"
      <4>1. core'[n].now = calls.round /\ op.sends = "begin"
        BY <1>3, <2>1, <3>4 DEF Done
      <4> QED
        BY <2>3, <3>4, <4>1 DEF Begun
    <3>5. CASE m = n /\ kind # "begun"
      <4>1. core'[n].now = core[n].now
        BY <2>1, <3>5 DEF Done
      <4>2. op.reply.kind # "begun"
        BY <1>3 DEF None
      <4>3. ~Begun(n) /\ ~Begun(n)'
        BY <1>3, <1>4, <2>3, <3>5, <4>2 DEF Begun
      <4> QED
        BY <3>2, <3>5, <4>1, <4>3
    <3> QED
      BY <3>3, <3>4, <3>5
  <2> QED
    BY <1>2, <2>3, <2>4, <2>5
<1> QED
  BY <1>2, <1>5, <1>6

(* The round of the host begins when its last node has begun.              *)
LEMMA CalmRoundBegun ==
  ASSUME HostInv, CallsCalm, TimesCalm, RoundBegun
  PROVE  CallsCalm' /\ TimesCalm' /\ matches' = matches
<1>1. /\ Typed /\ ReplyInv
  BY DEF HostInv
<1>2. /\ op # Free /\ op.reply # None /\ op.reply.kind = "begun" /\ op.sends = "begin"
      /\ NextNode \/ RoundBegins
      /\ UNCHANGED <<command, calls, core, matches>>
  BY <1>1, RoundBegunEffect
<1>3. /\ op.node \in Nat /\ Nodes \subseteq Nat /\ \A n \in Nodes : n <= NodeCount
      /\ None.kind # "begun" /\ None.kind # "error"
  BY <1>1, <1>2, Holding, HostAssumption DEF Nodes, None
<1>4. CASE NextNode
  <2>1. /\ op' # Free /\ op'.node = op.node + 1 /\ op'.sends = "begin" /\ op'.reply = None
        /\ op'.cancelled = op.cancelled /\ roundNow' = roundNow
    BY <1>4, Kinds DEF NextNode
  <2>2. \A n \in Nodes : Begun(n)' <=> Begun(n)
    <3>1. \A n \in Nodes : n < op.node + 1 <=> n < op.node \/ n = op.node
      BY <1>3
    <3> QED
      BY <1>2, <1>3, <2>1, <3>1 DEF Begun
  <2>3. CallsCalm'
    BY <1>2, <1>3, <2>1 DEF CallsCalm
  <2>4. TimesCalm'
    BY <1>2, <2>1, <2>2 DEF TimesCalm
  <2> QED
    BY <1>2, <2>3, <2>4
<1>5. CASE RoundBegins
  <2>1. /\ roundNow' = calls.round /\ op.node = NodeCount
        /\ op' # Free => op'.sends = "produce" /\ op'.cancelled = op.cancelled
    BY <1>5 DEF RoundBegins
  <2>2. \A n \in Nodes : Begun(n) /\ ~Begun(n)'
    <3>1. \A n \in Nodes : n < op.node \/ n = op.node
      BY <1>3, <2>1, HostAssumption DEF Nodes
    <3> QED
      BY <1>2, <2>1, <3>1 DEF Begun
  <2>3. CallsCalm'
    BY <1>2, <2>1 DEF CallsCalm
  <2>4. TimesCalm'
    BY <1>2, <2>1, <2>2 DEF TimesCalm
  <2> QED
    BY <1>2, <2>3, <2>4
<1> QED
  BY <1>2, <1>4, <1>5

(* An operation that ends, or sends another command of its kind.           *)
LEMMA CalmOnward ==
  ASSUME CallsCalm, TimesCalm, op # Free, op.sends # "begin",
         op' = Free \/ (op'.sends = op.sends /\ op'.cancelled = op.cancelled),
         UNCHANGED <<command, core, calls, roundNow>>
  PROVE  CallsCalm' /\ TimesCalm'
<1>1. \A n \in Nodes : ~Begun(n) /\ ~Begun(n)'
  BY DEF Begun
<1>2. CallsCalm'
  BY DEF CallsCalm
<1> QED
  BY <1>1, <1>2 DEF TimesCalm

LEMMA CalmRecord ==
  ASSUME HostInv, HistoryInv, CallsCalm, TimesCalm, RecordTellsRound, RecordMatch
  PROVE  CallsCalm' /\ TimesCalm' /\ RecordTellsRound'
<1>1. /\ Typed /\ ReplyInv
  BY DEF HostInv
<1>2. /\ op # Free /\ op.reply # None /\ op.reply.kind = "matched"
      /\ op' = Free \/ (Onward(op.found + 1) /\ ~LimitReached(op.found + 1))
      /\ UNCHANGED <<command, calls, core, roundNow>>
  BY <1>1, RecordEffect
<1>3. op.sends = "produce" /\ op.node \in Nodes
  BY <1>1, <1>2, Holding DEF ReplyInv
<1>4. CallsCalm' /\ TimesCalm'
  <2>1. op' = Free \/ (op'.sends = op.sends /\ op'.cancelled = op.cancelled)
    BY <1>2 DEF Onward
  <2> QED
    BY <1>2, <1>3, <2>1, CalmOnward
<1>5. core[op.node].now = roundNow
  BY <1>3 DEF TimesCalm, Begun
<1>6. Record(op.reply.ids).now = Record(op.reply.ids).coreNow
  BY <1>5 DEF Record
<1>7. \A i \in DOMAIN matches' :
        matches'[i] = Record(op.reply.ids) \/ \E j \in DOMAIN matches : matches'[i] = matches[j]
  BY <1>1, RecordHistory
<1>8. RecordTellsRound'
  BY <1>6, <1>7 DEF RecordTellsRound
<1> QED
  BY <1>4, <1>8

LEMMA CalmParts ==
  ASSUME HostInv, HistoryInv, CallsCalm, TimesCalm, RecordTellsRound, [Next]_vars,
         "cancel" \notin Faults
  PROVE  CallsCalm' /\ TimesCalm' /\ RecordTellsRound'
<1>1. /\ Typed /\ CommandInv /\ ReplyInv /\ LimitKept
  BY DEF HostInv
<1>2. matches' = matches => RecordTellsRound'
  BY DEF RecordTellsRound
<1>3. CASE Call
  <2>1. /\ op = Free /\ op'.reply = None /\ ~op'.cancelled
        /\ UNCHANGED <<command, core, matches, roundNow>>
        /\ op'.sends # "begin" \/ op'.node = 1
    BY <1>1, <1>3, CallEffect
  <2>2. None.kind # "begun" /\ None.kind # "error" /\ \A n \in Nodes : ~(n < 1)
    BY DEF None, Nodes
  <2>3. \A n \in Nodes : ~Begun(n) /\ ~Begun(n)'
    BY <2>1, <2>2 DEF Begun
  <2>4. CallsCalm'
    BY <2>1, <2>2 DEF CallsCalm
  <2> QED
    BY <1>2, <2>1, <2>3, <2>4 DEF TimesCalm
<1>4. CASE HandOver
  <2>1. /\ op # Free /\ op' # Free /\ op.reply = None /\ op'.reply = None
        /\ op'.sends = op.sends /\ op'.node = op.node /\ op'.cancelled = op.cancelled
        /\ command'[op.node].awaited /\ ~command'[op.node].cancelled
        /\ \A m \in Nodes \ {op.node} : command'[m] = command[m]
        /\ UNCHANGED <<core, calls, roundNow, matches>>
    BY <1>1, <1>4, HandOverEffect, Kinds DEF SameCall
  <2>2. CallsCalm'
    BY <2>1 DEF CallsCalm
  <2>3. TimesCalm'
    BY <2>1 DEF TimesCalm, Begun
  <2> QED
    BY <1>2, <2>1, <2>2, <2>3
<1>5. CASE Cancel \/ GiveUp
  BY <1>5 DEF Cancel, GiveUp, CallsCalm
<1>6. CASE ReturnError \/ Unavailable \/ Missed1
  <2>1. /\ op # Free /\ op.reply # None /\ op.reply.kind \in {"error", "unavailable", "missed"}
        /\ op' = Free \/ Onward(op.found)
        /\ UNCHANGED <<command, calls, core, matches, roundNow>>
    BY <1>1, <1>6, QuietEffect
  <2>2. op.sends # "begin"
    BY <1>1, <2>1 DEF ReplyInv, CallsCalm
  <2>3. op' = Free \/ (op'.sends = op.sends /\ op'.cancelled = op.cancelled)
    BY <2>1 DEF Onward
  <2> QED
    BY <1>2, <2>1, <2>2, <2>3, CalmOnward
<1>7. CASE Observe \/ Unobserve
  <2>1. /\ op # Free /\ op' = Free /\ op.sends # "begin"
        /\ UNCHANGED <<command, calls, core, matches, roundNow>>
    BY <1>1, <1>7, ObserveEffect, UnobserveEffect
  <2> QED
    BY <1>2, <2>1, CalmOnward
<1>8. CASE RoundBegun
  BY <1>2, <1>8, CalmRoundBegun
<1>9. CASE DropMatch
  <2>1. /\ op # Free /\ op.reply # None /\ op.reply.kind = "matched" /\ op' = Free
        /\ UNCHANGED <<command, calls, core, matches, roundNow>>
    BY <1>1, <1>9, DropEffect
  <2>2. op.sends # "begin"
    BY <1>1, <2>1 DEF ReplyInv
  <2> QED
    BY <1>2, <2>1, <2>2, CalmOnward
<1>10. CASE RecordMatch
  BY <1>10, CalmRecord
<1>11. CASE \E n \in Nodes : Goroutine(n)
  BY <1>2, <1>11, CalmGoroutine
<1>12. CASE ReplaceScenario
  <2>1. /\ op' = Free /\ matches' = <<>> /\ roundNow' = 0
        /\ command' = [n \in Nodes |-> None] /\ core' = [n \in Nodes |-> NewCore]
    BY <1>1, <1>12, ReplaceEffect
  <2>2. CallsCalm'
    BY <2>1 DEF CallsCalm
  <2>3. TimesCalm'
    BY <2>1 DEF TimesCalm, Begun, NewCore
  <2>4. RecordTellsRound'
    BY <2>1 DEF RecordTellsRound
  <2> QED
    BY <2>2, <2>3, <2>4
<1>13. CASE Close \/ UNCHANGED vars
  <2>1. UNCHANGED <<op, command, calls, core, matches, roundNow>>
    BY <1>13 DEF Close, vars, runtime
  <2> QED
    BY <1>2, <2>1 DEF CallsCalm, TimesCalm, Begun
<1> QED
  BY <1>3, <1>4, <1>5, <1>6, <1>7, <1>8, <1>9, <1>10, <1>11, <1>12, <1>13 DEF Next, Continue

LEMMA CalmStep == HostInv /\ HistoryInv /\ CalmInv /\ [Next]_vars => CalmInv'
<1> SUFFICES ASSUME HostInv, HistoryInv, CalmInv, [Next]_vars
             PROVE  CalmInv'
  OBVIOUS
<1>1. CalmInv' <=> ("cancel" \notin Faults => CallsCalm' /\ TimesCalm' /\ RecordTellsRound')
  BY DEF CalmInv, CallsCalm, TimesCalm, Begun
<1>2. ASSUME "cancel" \notin Faults
      PROVE  CallsCalm' /\ TimesCalm' /\ RecordTellsRound'
  <2>1. CallsCalm /\ TimesCalm /\ RecordTellsRound
    BY <1>2, CalmMeaning
  <2> QED
    BY <1>2, <2>1, CalmParts
<1> QED
  BY <1>1, <1>2, Zenon

(* Without faults: a match is given up only when its ID is the last.       *)
LEMMA FaultlessStep ==
  HostInv /\ CalmInv /\ FaultlessInv /\ [Next]_vars => FaultlessInv'
<1> SUFFICES ASSUME HostInv, CalmInv, [Next]_vars, Faults = {},
                    ~broken, suspect = {} \/ nextMatchID = LastMatchID
             PROVE  ~broken' /\ (suspect' = {} \/ nextMatchID' = LastMatchID)
  BY DEF FaultlessInv
<1>1. /\ Typed /\ CommandInv /\ ReplyInv /\ LimitKept
      /\ CallsCalm /\ TimesCalm
  BY CalmMeaning DEF HostInv
<1>2. CASE Call
  BY <1>1, <1>2, CallEffect
<1>3. CASE HandOver
  BY <1>1, <1>3, HandOverEffect
<1>4. CASE Cancel \/ GiveUp
  BY <1>1, <1>4 DEF Cancel, GiveUp, CallsCalm
<1>5. CASE ReturnError \/ Unavailable \/ Missed1
  BY <1>1, <1>5, QuietEffect
<1>6. CASE Observe \/ Unobserve
  BY <1>1, <1>6, ObserveEffect, UnobserveEffect
<1>7. CASE RoundBegun
  BY <1>1, <1>7, RoundBegunEffect
<1>8. CASE DropMatch
  <2>1. /\ op # Free /\ op.reply # None /\ op.reply.kind = "matched"
        /\ nextMatchID = LastMatchID \/ ~(Missed \subseteq registry)
        /\ nextMatchID = LastMatchID => nextMatchID' = nextMatchID
        /\ suspect' = suspect \cup Missed /\ broken' = broken
    BY <1>1, <1>8, DropEffect
  <2>2. CASE nextMatchID = LastMatchID
    BY <2>1, <2>2
  <2>3. CASE suspect = {}
    <3>1. Missed \subseteq registry
      BY <1>1, <2>1, <2>3 DEF Missed, Of, ReplyInv
    <3> QED
      BY <2>1, <2>2, <3>1
  <2> QED
    BY <2>2, <2>3
<1>9. CASE RecordMatch
  BY <1>1, <1>9, RecordEffect
<1>10. ASSUME NEW n \in Nodes, Goroutine(n)
       PROVE  ~broken' /\ (suspect' = {} \/ nextMatchID' = LastMatchID)
  <2>1. suspect' = suspect /\ nextMatchID' = nextMatchID
    BY <1>1, <1>10, CalmGoroutine
  <2>2. broken' \in {broken, broken \/ "provider" \in Faults}
    BY <1>1, <1>10, GoroutineEffect
  <2> QED
    BY <2>1, <2>2
<1>11. CASE ReplaceScenario
  BY <1>1, <1>11, ReplaceEffect
<1>12. CASE Close \/ UNCHANGED vars
  BY <1>12 DEF Close, vars, runtime
<1> QED
  BY <1>2, <1>3, <1>4, <1>5, <1>6, <1>7, <1>8, <1>9, <1>10, <1>11, <1>12 DEF Next, Continue

-------------------------------------------------------------------------------
LEMMA HostAlways ==
  Spec => [](HostInv /\ HistoryInv /\ CalmInv /\ FaultlessInv)
<1>1. Init => FaultlessInv
  BY DEF Init, FaultlessInv
<1> QED
  BY <1>1, HostInit, HistoryInit, CalmInit, HostStep, HistoryStep, CalmStep, FaultlessStep, PTL
  DEF Spec

(* The calls, commands, tickets and records keep to their types and bounds,*)
(* whatever the owner goroutines still do for callers that left.           *)
THEOREM TypeCorrect == Spec => []TypeOK
<1>1. HostInv => TypeOK
  <2> SUFFICES ASSUME HostInv
               PROVE  TypeOK
    OBVIOUS
  <2>1. Typed /\ RoundsInv
    BY DEF HostInv
  <2>2. round \in 0..MaxRounds
    BY <2>1, HostAssumption DEF Typed, RoundsInv
  <2>3. \A n \in Nodes : command[n] = None \/ command[n].phase \in {"taken", "applying"}
    BY <2>1 DEF Typed, Commands
  <2>4. op = Free \/
        /\ op.kind \in {"add", "remove", "begin", "run", "one", "match", "all"}
        /\ op.sends \in {"add", "remove", "begin", "produce"}
        /\ op.node \in Nodes
        /\ op.pc \in {"send", "wait"}
        /\ op.reply = None \/ op.reply.kind \in ReplyKinds
    BY <2>1 DEF Typed, Operations, Sends, Replies
  <2>5. core \in [Nodes -> [tickets : SUBSET TicketIDs, untried : SUBSET TicketIDs,
                            now : 0..MaxRounds]]
    BY <2>1 DEF Typed, Cores
  <2> QED
    BY <2>1, <2>2, <2>3, <2>4, <2>5 DEF Typed, TypeOK
<1> QED
  BY <1>1, HostAlways, PTL

(* Registry and nodes disagree about a ticket only while the operation on  *)
(* it is on its way back, or after that operation failed between the two.  *)
THEOREM DriftIsAccounted == Spec => []DriftAccounted
<1>1. HostInv => DriftAccounted
  BY DriftMeaning DEF HostInv
<1> QED
  BY <1>1, HostAlways, PTL

(* Without cancelled calls and failing workers, and while Match IDs last,  *)
(* the registry lists exactly the tickets the nodes hold.                  *)
THEOREM RegistryExact ==
  ASSUME Faults = {}
  PROVE  Spec => []RegistryMirrorsCore
<1>1. HostInv /\ FaultlessInv => RegistryMirrorsCore
  <2> SUFFICES ASSUME HostInv, FaultlessInv, op = Free, nextMatchID < LastMatchID
               PROVE  registry = UNION {Of(n, core[n].tickets) : n \in Nodes}
    BY DEF RegistryMirrorsCore
  <2>1. /\ registry \subseteq Keys /\ DriftInv /\ suspect = {}
        /\ \A n \in Nodes : core[n].tickets \subseteq TicketIDs
    BY HostAssumption DEF HostInv, Typed, FaultlessInv, Cores
  <2>2. \A n \in Nodes, id \in TicketIDs :
          id \in core[n].tickets <=> <<n, id>> \in registry
    BY <2>1 DEF DriftInv, Flying
  <2>3. registry \subseteq UNION {Of(n, core[n].tickets) : n \in Nodes}
    BY <2>1, <2>2 DEF Keys, Of
  <2>4. UNION {Of(n, core[n].tickets) : n \in Nodes} \subseteq registry
    BY <2>1, <2>2 DEF Of
  <2> QED
    BY <2>3, <2>4
<1> QED
  BY <1>1, HostAlways, PTL

(* The mutex stays taken.                                                  *)
LEMMA CancelIsHeld ==
  ASSUME Typed, Cancel
  PROVE  op' # Free
<1>1. op \in Operations /\ op' = [op EXCEPT !.cancelled = TRUE]
  BY Holding DEF Cancel
<1>2. op' \in Operations
  BY <1>1 DEF Operations
<1> QED
  BY <1>2, Kinds

LEMMA GoroutineHolds ==
  ASSUME Typed, CommandInv, op # Free, NEW n \in Nodes, Goroutine(n)
  PROVE  op' # Free
<1>1. command[n] # None /\ (GoesOn(n) \/ Works(n))
  BY GoroutineEffect
<1>2. CASE GoesOn(n)
  BY <1>2 DEF GoesOn
<1>3. CASE Works(n)
  <2>1. PICK kind \in ReplyKinds, ids \in SUBSET TicketIDs : Reply(n, kind, ids)
    BY <1>3 DEF Works
  <2>2. Answered(n, kind, ids)
    BY <1>1, <2>1, ReplyEffect
  <2> QED
    BY <2>2, Kinds DEF Answered
<1> QED
  BY <1>1, <1>2, <1>3

(* A RemoveTicket that succeeds leaves the ticket in neither of the two,   *)
(* also where they disagreed before.                                       *)
THEOREM RemovalHeals == Spec => RemoveHeals
<1>1. HostInv /\ [Next]_vars =>
        [ op # Free /\ op.reply.kind = "removed" /\ op' = Free /\ ~op.cancelled
          => \A id \in op.ids : /\ <<op.node, id>> \notin registry'
                                /\ id \notin core'[op.node].tickets ]_vars
  <2> SUFFICES ASSUME HostInv, [Next]_vars, op # Free, op.reply.kind = "removed", op' = Free,
                      ~op.cancelled
               PROVE  \A id \in op.ids : /\ <<op.node, id>> \notin registry'
                                         /\ id \notin core'[op.node].tickets
    OBVIOUS
  <2>1. /\ Typed /\ CommandInv /\ ReplyInv /\ LimitKept
    BY DEF HostInv
  <2>2. op.node \in Nodes /\ op.ids \subseteq TicketIDs
    BY <2>1, Holding
  <2>3. CASE Unobserve
    BY <2>1, <2>2, <2>3, UnobserveEffect
  <2>4. ~Call /\ ~HandOver /\ ~ReplaceScenario
    BY <2>1, CallEffect, HandOverEffect, ReplaceEffect, Kinds
  <2>5. ~Cancel /\ ~GiveUp /\ ~Close /\ ~(UNCHANGED vars)
    <3>1. ~Cancel
      BY <2>1, CancelIsHeld
    <3> QED
      BY <3>1 DEF GiveUp, Close, vars
  <2>6. ~(ReturnError \/ Unavailable \/ Missed1) /\ ~Observe /\ ~RoundBegun /\ ~DropMatch
        /\ ~RecordMatch
    BY DEF ReturnError, Unavailable, Missed1, Observe, RoundBegun, DropMatch, RecordMatch, Replied
  <2>7. ~\E n \in Nodes : Goroutine(n)
    <3>1. SUFFICES ASSUME NEW n \in Nodes, Goroutine(n)
                   PROVE  op' # Free
      OBVIOUS
    <3> QED
      BY <2>1, <3>1, GoroutineHolds
  <2> QED
    BY <2>3, <2>4, <2>5, <2>6, <2>7 DEF Next, Continue
<1> QED
  BY <1>1, HostAlways, PTL DEF Spec, RemoveHeals

(* A Match ID is never used again, across replacements too.                *)
THEOREM MatchIDsUnique == Spec => IDsNotReused
<1>1. HostInv /\ HistoryInv /\ [Next]_vars =>
        [ matches' # <<>> /\ matches' # matches
          => matches'[Len(matches')].id \notin issued ]_vars
  <2> SUFFICES ASSUME HostInv, HistoryInv, [Next]_vars, matches' # <<>>, matches' # matches
               PROVE  matches'[Len(matches')].id \notin issued
    OBVIOUS
  <2>1. Typed
    BY DEF HostInv
  <2>2. RecordMatch
    <3>1. Recording
      BY OtherSteps
    <3>2. ~DropMatch
      BY <2>1, DropEffect
    <3>3. ~ReplaceScenario
      BY <2>1, ReplaceEffect
    <3> QED
      BY <3>1, <3>2, <3>3 DEF Recording
  <2>3. matches'[Len(matches')].id = nextMatchID
    BY <2>1, <2>2, RecordHistory
  <2>4. nextMatchID \in Nat
    BY <2>1, HostAssumption DEF Typed
  <2>5. nextMatchID \notin issued
    BY <2>4 DEF HistoryInv
  <2> QED
    BY <2>3, <2>5, Zenon
<1> QED
  BY <1>1, HostAlways, PTL DEF Spec, IDsNotReused

(* Without cancelled calls a record names the time of the round in which   *)
(* its node made the match.                                                *)
THEOREM RoundTold ==
  ASSUME "cancel" \notin Faults
  PROVE  Spec => []RecordTellsRound
<1>1. CalmInv => RecordTellsRound
  BY DEF CalmInv
<1> QED
  BY <1>1, HostAlways, PTL

(* The match limit of a call is never exceeded, whichever nodes match, nor *)
(* is the limit of the history, whose list and index agree.                *)
THEOREM LimitsAreKept == Spec => []MatchesInLimits
<1>1. HostInv /\ HistoryInv => MatchesInLimits
  BY DEF HostInv, HistoryInv, MatchesInLimits
<1> QED
  BY <1>1, HostAlways, PTL
================================================================================
