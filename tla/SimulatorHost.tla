----------------------------- MODULE SimulatorHost -----------------------------
(***************************************************************************)
(* internal/simulator/service.go and registry.go: the Simulator, which     *)
(* keeps an observation registry and a match history beside the tickets    *)
(* its PhysicalNodes hold.                                                 *)
(*                                                                         *)
(* Every operation holds Simulator.mu from start to end, so one operation  *)
(* runs at a time; the owner goroutines of the nodes (NodeWorker) run      *)
(* beside it, and finish a command whose caller has already left.  A node  *)
(* hosts one partition.  The event log, which every operation appends to,  *)
(* is EventLog.                                                            *)
(***************************************************************************)
EXTENDS Naturals, FiniteSets, Sequences

CONSTANTS
  NodeCount,        \* PhysicalNodes 1..NodeCount, in the order of their IDs
  TicketIDs,
  HistoryLimit,     \* Scenario.MatchHistoryLimit
  LastMatchID,      \* MaxUint64 of the match counter
  Faults,           \* subset of {"cancel", "provider"}
  MaxRounds,        \* bound on the BeginRound calls
  MaxAdds,          \* bound on the AddTicket calls
  MaxReplacements   \* bound on the ReplaceScenario calls

ASSUME HostAssumption ==
  /\ NodeCount \in Nat \ {0}
  /\ HistoryLimit \in Nat \ {0}
  /\ LastMatchID \in Nat \ {0}
  /\ MaxRounds \in Nat
  /\ Faults \subseteq {"cancel", "provider"}

VARIABLES
  op,           \* the operation that holds Simulator.mu, or Free
  command,      \* per node: the command its owner goroutine has taken, or None
  core,         \* per node: its tickets, untried seeds and the time of its round
  broken,       \* a Python worker has recorded a failure
  registry,     \* the tickets observed as waiting: <<node, TicketID>>
  matches,      \* the retained match records, oldest first
  byID,         \* the keys of matchesByID
  nextMatchID,
  round, roundNow, roundActive,
  closed,
  calls,        \* bounds: BeginRound, AddTicket and ReplaceScenario calls so far
  suspect,      \* history: tickets whose operation failed after it was handed over
  issued        \* history: IDs of all the records ever made

runtime == <<core, registry, matches, byID, round, roundNow, roundActive>>
vars == <<op, command, broken, nextMatchID, closed, calls, suspect, issued,
          runtime>>

Nodes == 1..NodeCount
Keys == Nodes \X TicketIDs
Free == [kind |-> "free"]
None == [kind |-> "none"]
NewCore == [tickets |-> {}, untried |-> {}, now |-> 0]
Of(n, ids) == {<<n, id>> : id \in ids}

Init ==
  /\ op = Free
  /\ command = [n \in Nodes |-> None]
  /\ core = [n \in Nodes |-> NewCore]
  /\ broken = FALSE
  /\ registry = {}
  /\ matches = <<>>
  /\ byID = {}
  /\ nextMatchID = 1
  /\ round = 0 /\ roundNow = 0 /\ roundActive = FALSE
  /\ closed = FALSE
  /\ calls = [round |-> 0, add |-> 0, replace |-> 0]
  /\ suspect = {}
  /\ issued = {}

-------------------------------------------------------------------------------
(* An operation takes the mutex.  sends is the command it is about to hand *)
(* over to node, cap the match limit of produceAll (0: none).              *)
Operation(kind, sends, n, ids, cap) ==
  [kind |-> kind, sends |-> sends, node |-> n, ids |-> ids, cap |-> cap,
   pc |-> "send", found |-> 0, progress |-> FALSE, cancelled |-> FALSE,
   reply |-> None]

Start(operation) ==
  /\ op = Free
  /\ ~closed
  /\ op' = operation
  /\ UNCHANGED <<command, broken, nextMatchID, closed, suspect, issued, runtime>>

(* The router may choose any node that serves the rule.                    *)
AddTicket(n, id) ==
  /\ <<n, id>> \notin registry
  /\ calls.add < MaxAdds
  /\ calls' = [calls EXCEPT !.add = @ + 1]
  /\ Start(Operation("add", "add", n, {id}, 0))

RemoveTicket(n, id) ==
  /\ Start(Operation("remove", "remove", n, {id}, 0))
  /\ UNCHANGED calls

Owners(id) == {n \in Nodes : <<n, id>> \in registry}

DeleteTicket(id) ==
  /\ Cardinality(Owners(id)) = 1
  /\ \E n \in Owners(id) : RemoveTicket(n, id)

BeginRound(kind, cap) ==
  /\ calls.round < MaxRounds
  /\ calls' = [calls EXCEPT !.round = @ + 1]
  /\ Start(Operation(kind, "begin", 1, {}, cap))

ProduceOne(n) ==
  /\ Start(Operation("one", "produce", n, {}, 0))
  /\ UNCHANGED calls

ProduceFrom(kind, cap) ==
  /\ roundActive
  /\ Start(Operation(kind, "produce", 1, {}, cap))
  /\ UNCHANGED calls

(* The time BeginRound was given, distinct for every call.                 *)
Now == calls.round

Return == op' = Free

-------------------------------------------------------------------------------
(* physicalNodeAdapter.call on behalf of the operation, and the goroutine. *)

Cancel ==
  /\ "cancel" \in Faults
  /\ op # Free
  /\ ~op.cancelled
  /\ op' = [op EXCEPT !.cancelled = TRUE]
  /\ UNCHANGED <<command, broken, nextMatchID, closed, calls, suspect, issued,
                 runtime>>

HandOver ==
  /\ op # Free
  /\ op.pc = "send"
  /\ command[op.node] = None
  /\ command' = [command EXCEPT ![op.node] =
       [kind |-> op.sends, ids |-> op.ids, now |-> Now, phase |-> "taken",
        awaited |-> TRUE, cancelled |-> FALSE]]
  /\ op' = [op EXCEPT !.pc = "wait"]
  /\ UNCHANGED <<broken, nextMatchID, closed, calls, suspect, issued, runtime>>

(* What an operation that leaves without looking at the reply does not     *)
(* learn about.                                                            *)
Missed ==
  IF op.reply.kind \in {"added", "removed", "matched"}
  THEN Of(op.node, op.reply.ids) ELSE {}

(* The context is done before the command is taken, or while it runs.      *)
GiveUp ==
  /\ op # Free
  /\ op.cancelled
  /\ suspect' = suspect \cup Missed
  /\ command' = IF op.pc = "wait" /\ op.reply = None
                THEN [command EXCEPT ![op.node].awaited = FALSE,
                                     ![op.node].cancelled = TRUE]
                ELSE command
  /\ Return
  /\ UNCHANGED <<broken, nextMatchID, closed, calls, issued, runtime>>

ContextDone(n) == command[n].cancelled \/ (command[n].awaited /\ op.cancelled)

Reply(n, kind, ids) ==
  /\ command' = [command EXCEPT ![n] = None]
  /\ IF command[n].awaited
       THEN /\ op' = [op EXCEPT !.reply = [kind |-> kind, ids |-> ids]]
            /\ UNCHANGED suspect
       ELSE /\ suspect' = IF kind \in {"added", "removed", "matched"}
                          THEN suspect \cup Of(n, ids) ELSE suspect
            /\ UNCHANGED op

Check(n) ==
  /\ command[n] # None
  /\ command[n].phase = "taken"
  /\ IF ContextDone(n)
       THEN Reply(n, "error", {})
       ELSE /\ command' = [command EXCEPT ![n].phase = "applying"]
            /\ UNCHANGED <<op, suspect>>
  /\ UNCHANGED <<broken, nextMatchID, closed, calls, issued, runtime>>

Applying(n, kind) ==
  /\ command[n] # None
  /\ command[n].phase = "applying"
  /\ command[n].kind = kind
  /\ UNCHANGED <<nextMatchID, closed, calls, issued, registry, matches, byID,
                 round, roundNow, roundActive>>

(* PhysicalNode checks the context again before it changes anything.       *)
Refused(n) ==
  /\ ContextDone(n)
  /\ Reply(n, "error", {})
  /\ UNCHANGED <<core, broken>>

ApplyAdd(n) ==
  /\ Applying(n, "add")
  /\ \/ Refused(n)
     \/ /\ command[n].ids \subseteq core[n].tickets
        /\ Reply(n, "error", {})
        /\ UNCHANGED <<core, broken>>
     \/ /\ ~(command[n].ids \subseteq core[n].tickets)
        /\ \E seeds \in {{}, IF core[n].now = 0 THEN {} ELSE command[n].ids} :
             core' = [core EXCEPT ![n].tickets = @ \cup command[n].ids,
                                  ![n].untried = @ \cup seeds]
        /\ Reply(n, "added", command[n].ids)
        /\ UNCHANGED broken

ApplyRemove(n) ==
  /\ Applying(n, "remove")
  /\ \/ Refused(n)
     \/ /\ core' = [core EXCEPT ![n].tickets = @ \ command[n].ids,
                                ![n].untried = @ \ command[n].ids]
        /\ Reply(n, "removed", command[n].ids \cap core[n].tickets)
        /\ UNCHANGED broken

ApplyBegin(n) ==
  /\ Applying(n, "begin")
  /\ \/ Refused(n)
     \/ /\ core' = [core EXCEPT ![n].untried = core[n].tickets,
                                ![n].now = command[n].now]
        /\ Reply(n, "begun", {})
        /\ UNCHANGED broken

(* One attempt: a seed is spent; a group around it may be committed, and a *)
(* Python worker may fail on the way to it.                                *)
ApplyProduce(n) ==
  /\ Applying(n, "produce")
  /\ \/ Refused(n)
     \/ /\ core[n].untried = {}
        /\ Reply(n, IF core[n].now = 0 THEN "error" ELSE "unavailable", {})
        /\ UNCHANGED <<core, broken>>
     \/ \E seed \in core[n].untried :
          /\ broken' \in {broken, broken \/ "provider" \in Faults}
          /\ \/ /\ core' = [core EXCEPT ![n].untried = @ \ {seed}]
                /\ Reply(n, "missed", {})
             \/ /\ broken' \/ ContextDone(n)
                /\ core' = [core EXCEPT ![n].untried = @ \ {seed}]
                /\ Reply(n, "error", {})
             \/ \E group \in SUBSET core[n].tickets :
                  /\ seed \in group
                  /\ core' = [core EXCEPT ![n].tickets = @ \ group,
                                          ![n].untried = @ \ group]
                  /\ Reply(n, "matched", group)

Goroutine(n) ==
  Check(n) \/ ApplyAdd(n) \/ ApplyRemove(n) \/ ApplyBegin(n) \/ ApplyProduce(n)

-------------------------------------------------------------------------------
(* The operation continues with the reply.                                 *)

Replied(kinds) == op # Free /\ op.reply.kind \in kinds

Next1(sends, n) ==
  op' = [op EXCEPT !.sends = sends, !.node = n, !.pc = "send", !.reply = None]

ReturnError ==
  /\ Replied({"error"})
  /\ Return
  /\ UNCHANGED <<command, broken, nextMatchID, closed, calls, suspect, issued,
                 runtime>>

Observe ==
  /\ Replied({"added"})
  /\ registry' = registry \cup Of(op.node, op.ids)
  /\ Return
  /\ UNCHANGED <<command, broken, nextMatchID, closed, calls, suspect, issued,
                 core, matches, byID, round, roundNow, roundActive>>

(* Seeded fault: one of several members is left behind.                    *)
UnobservedSeedOnly(keys) ==
  IF keys = {} THEN registry ELSE registry \ {CHOOSE key \in keys : TRUE}

(* Seeded fault: the observation is dropped only if the core had the       *)
(* ticket.                                                                 *)
UnobservedIfRemoved(keys) == registry \ (keys \cap Missed)

Unobserved(keys) == registry \ keys

Unobserve ==
  /\ Replied({"removed"})
  /\ registry' = Unobserved(Of(op.node, op.ids))
  /\ Return
  /\ UNCHANGED <<command, broken, nextMatchID, closed, calls, suspect, issued,
                 core, matches, byID, round, roundNow, roundActive>>

(* Seeded fault: the time of the first round is kept.                      *)
RoundTimeKept == IF roundActive THEN roundNow ELSE Now

RoundTime == Now

(* The node began; the round of the host begins after the last node.       *)
RoundBegun ==
  /\ Replied({"begun"})
  /\ IF op.node < NodeCount
       THEN /\ Next1("begin", op.node + 1)
            /\ UNCHANGED <<round, roundNow, roundActive>>
       ELSE /\ round' = round + 1
            /\ roundNow' = RoundTime
            /\ roundActive' = TRUE
            /\ IF op.kind = "run" THEN Next1("produce", 1) ELSE Return
  /\ UNCHANGED <<command, broken, nextMatchID, closed, calls, suspect, issued,
                 core, registry, matches, byID>>

(* Where produceAll and ProduceMatch go after an attempt on a node.        *)
Pass(progress, found) ==
  LET after == [op EXCEPT !.progress = progress, !.found = found, !.pc = "send",
                          !.reply = None]
  IN IF op.node < NodeCount
     THEN op' = [after EXCEPT !.node = op.node + 1]
     ELSE IF progress
     THEN op' = [after EXCEPT !.node = 1, !.progress = FALSE]
     ELSE Return

(* Seeded fault: a pass without progress starts another pass.              *)
SkipForever == Pass(TRUE, op.found)

Skip == Pass(op.progress, op.found)

Unavailable ==
  /\ Replied({"unavailable"})
  /\ IF op.kind = "one" THEN Return ELSE Skip
  /\ UNCHANGED <<command, broken, nextMatchID, closed, calls, suspect, issued,
                 runtime>>

(* Seeded fault: the limit is compared at the end of a pass.               *)
LimitReachedAtLast(found) ==
  op.cap > 0 /\ found >= op.cap /\ op.node = NodeCount

LimitReached(found) == op.cap > 0 /\ found >= op.cap

Attempted(matched) ==
  LET found == op.found + matched
  IN IF op.kind \in {"one", "match"} \/ LimitReached(found)
     THEN Return
     ELSE Pass(TRUE, found)

Missed1 ==
  /\ Replied({"missed"})
  /\ IF broken THEN Return ELSE Attempted(0)
  /\ UNCHANGED <<command, broken, nextMatchID, closed, calls, suspect, issued,
                 runtime>>

-------------------------------------------------------------------------------
(* CommitMatch of the registry, under an ID of the Simulator.              *)

(* Seeded fault: the counter has no upper end.                             *)
OverflowAtZero == nextMatchID = 0

Overflow == nextMatchID = 0 \/ nextMatchID = LastMatchID

Record(group) ==
  [id |-> nextMatchID, node |-> op.node, members |-> group, round |-> round,
   now |-> roundNow, coreNow |-> core[op.node].now]

(* Seeded fault: eviction forgets the index.                               *)
IndexKept(records) == byID \cup {nextMatchID}

Index(records) == {records[i].id : i \in DOMAIN records}

Retained(records) ==
  IF Len(records) > HistoryLimit THEN Tail(records) ELSE records

(* The host gives the committed match up: a worker failed, no ID is left,  *)
(* or the registry does not know a member.                                 *)
DropMatch ==
  /\ Replied({"matched"})
  /\ \/ broken /\ UNCHANGED nextMatchID
     \/ ~broken /\ Overflow /\ UNCHANGED nextMatchID
     \/ /\ ~broken /\ ~Overflow
        /\ ~(Missed \subseteq registry)
        /\ nextMatchID' = nextMatchID + 1
  /\ suspect' = suspect \cup Missed
  /\ Return
  /\ UNCHANGED <<command, broken, closed, calls, issued, runtime>>

RecordMatch ==
  /\ Replied({"matched"})
  /\ ~broken
  /\ ~Overflow
  /\ Missed \subseteq registry
  /\ nextMatchID' = nextMatchID + 1
  /\ registry' = Unobserved(Missed)
  /\ LET records == Retained(Append(matches, Record(op.reply.ids)))
     IN matches' = records /\ byID' = Index(records)
  /\ issued' = issued \cup {nextMatchID}
  /\ Attempted(1)
  /\ UNCHANGED <<command, broken, closed, calls, suspect, core, round, roundNow,
                 roundActive>>

-------------------------------------------------------------------------------
(* Publishing a new runtime, and Close.  Commands the old nodes still run  *)
(* are out of everybody's sight.                                           *)

(* Seeded fault: the match counter belongs to the runtime.                 *)
IDAfterReplaceReset == 1

IDAfterReplace == nextMatchID

ReplaceScenario ==
  /\ op = Free
  /\ ~closed
  /\ calls.replace < MaxReplacements
  /\ calls' = [calls EXCEPT !.replace = @ + 1]
  /\ nextMatchID' = IDAfterReplace
  /\ command' = [n \in Nodes |-> None]
  /\ core' = [n \in Nodes |-> NewCore]
  /\ broken' = FALSE
  /\ registry' = {} /\ matches' = <<>> /\ byID' = {}
  /\ round' = 0 /\ roundNow' = 0 /\ roundActive' = FALSE
  /\ suspect' = {}
  /\ UNCHANGED <<op, closed, issued>>

Close ==
  /\ op = Free
  /\ ~closed
  /\ closed' = TRUE
  /\ UNCHANGED <<op, command, broken, nextMatchID, calls, suspect, issued,
                 runtime>>

Continue ==
  \/ HandOver \/ GiveUp \/ ReturnError \/ Observe \/ Unobserve \/ RoundBegun
  \/ Unavailable \/ Missed1 \/ DropMatch \/ RecordMatch

Call ==
  \/ \E n \in Nodes, id \in TicketIDs : AddTicket(n, id) \/ RemoveTicket(n, id)
  \/ \E id \in TicketIDs : DeleteTicket(id)
  \/ \E cap \in {0, 1} : \/ BeginRound("run", cap)
                         \/ ProduceFrom("all", cap)
  \/ BeginRound("begin", 0) \/ ProduceFrom("match", 0)
  \/ \E n \in Nodes : ProduceOne(n)

Next ==
  \/ Call \/ Cancel \/ Continue
  \/ \E n \in Nodes : Goroutine(n)
  \/ ReplaceScenario \/ Close

Fairness == WF_vars(Continue) /\ \A n \in Nodes : WF_vars(Goroutine(n))

Spec == Init /\ [][Next]_vars /\ Fairness

-------------------------------------------------------------------------------
ReplyKinds ==
  {"error", "added", "removed", "begun", "unavailable", "missed", "matched"}

TypeOK ==
  /\ op = Free \/
     /\ op.kind \in {"add", "remove", "begin", "run", "one", "match", "all"}
     /\ op.sends \in {"add", "remove", "begin", "produce"}
     /\ op.node \in Nodes
     /\ op.pc \in {"send", "wait"}
     /\ op.reply = None \/ op.reply.kind \in ReplyKinds
  /\ \A n \in Nodes :
       command[n] = None \/ command[n].phase \in {"taken", "applying"}
  /\ core \in [Nodes -> [tickets : SUBSET TicketIDs, untried : SUBSET TicketIDs,
                         now : 0..MaxRounds]]
  /\ registry \subseteq Keys
  /\ suspect \subseteq Keys
  /\ nextMatchID \in 1..LastMatchID
  /\ issued \subseteq 1..LastMatchID
  /\ round \in 0..MaxRounds /\ roundNow \in 0..MaxRounds

InFlight == IF op = Free THEN {} ELSE Missed

(* Registry and core disagree about a ticket only while the operation on   *)
(* it is on its way back, or after that operation failed in the window     *)
(* between the core and the registry.                                      *)
DriftAccounted ==
  \A n \in Nodes, id \in TicketIDs :
    (id \in core[n].tickets) # (<<n, id>> \in registry) =>
      <<n, id>> \in suspect \cup InFlight

(* A RemoveTicket that succeeds leaves the ticket neither in the core nor  *)
(* in the registry, also where the two disagreed before.                   *)
RemoveHeals ==
  [][ op # Free /\ op.reply.kind = "removed" /\ op' = Free /\ ~op.cancelled
        => \A id \in op.ids : /\ <<op.node, id>> \notin registry'
                              /\ id \notin core'[op.node].tickets ]_vars

(* Without cancelled calls and failing workers, and while Match IDs last,  *)
(* the registry lists exactly the tickets the nodes hold.                  *)
RegistryMirrorsCore ==
  op = Free /\ nextMatchID < LastMatchID =>
    registry = UNION {Of(n, core[n].tickets) : n \in Nodes}

(* A ticket that a match consumed is no longer listed as waiting.          *)
WaitingIsWaiting ==
  op = Free => registry \subseteq UNION {Of(n, core[n].tickets) : n \in Nodes}

(* List, index and limit of the match history agree.                       *)
HistoryIndexed ==
  /\ byID = {matches[i].id : i \in DOMAIN matches}
  /\ Cardinality(byID) = Len(matches)
  /\ Len(matches) <= HistoryLimit

(* A Match ID is never used again, across replacements too.                *)
IDsNotReused ==
  [][ matches' # <<>> /\ matches' # matches
        => matches'[Len(matches')].id \notin issued ]_vars

(* A record names the time of the round in which its node made the match.  *)
RecordTellsRound ==
  \A i \in DOMAIN matches : matches[i].now = matches[i].coreNow

(* The match limit of a call counts the matches of all nodes.              *)
LimitKept == op # Free /\ op.cap > 0 => op.found < op.cap

(* Neither the history nor a call exceeds its limit of matches.            *)
MatchesInLimits == HistoryIndexed /\ LimitKept

(* Every operation releases the mutex.                                     *)
MutexReleased == op # Free ~> op = Free

===============================================================================
