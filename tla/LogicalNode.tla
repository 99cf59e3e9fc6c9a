------------------------------ MODULE LogicalNode ------------------------------
(***************************************************************************)
(* internal/matchsystem/logical_node.go and logical_node_round.go: one     *)
(* matching partition, composed of the ticket store (TicketPool) and the   *)
(* seed runtime (SeedStream).  Its PhysicalNode serialises the calls, so   *)
(* only ProduceMatch, whose providers may fail and whose context may be    *)
(* done between any two of its steps, takes more than one step here.       *)
(*                                                                         *)
(* What seedEvaluator decides is left open: any group of live tickets that *)
(* contains the seed and has at most MaxPlayers members may be a match.    *)
(* A call refused by its guards (context done, node not Ready, no round,   *)
(* store error) changes nothing and is not a step.                         *)
(***************************************************************************)
EXTENDS Integers, FiniteSets

CONSTANTS
  TicketIDs,
  MaxTickets,     \* bound on the tickets ever accepted
  RoundLimit,     \* AttemptLimitPerMatchRound
  CallLimit,      \* AttemptLimitPerProduceMatch
  MaxPlayers,
  MaxGeneration   \* largest Fact generation, 2^64 - 1 in the code

ASSUME NodeAssumption ==
  /\ IsFiniteSet(TicketIDs)
  /\ MaxTickets \in Nat
  /\ RoundLimit \in Nat \ {0}
  /\ CallLimit \in 1..RoundLimit
  /\ MaxPlayers \in Nat \ {0}
  /\ MaxGeneration \in Nat

VARIABLES
  pool, allocated,                     \* ticketStore
  ready, held, limit, yielded, open,   \* seedOrderRuntime
  state,            \* "Ready", "Draining" or "Stopped"
  factGeneration,
  attemptedSeeds,   \* seedRound: budget used, and whether a round began
  initialized,
  call,             \* the ProduceMatch in progress, NoCall otherwise
  tried,            \* history: objects reserved as seeds in this round
  captured,         \* history: value of allocated when the round began
  delivered,        \* history: objects returned to the caller in a match
  removed           \* history: objects taken out by Remove

storeVars == <<pool, allocated>>
streamVars == <<ready, held, limit, yielded, open>>
roundVars == <<attemptedSeeds, initialized, tried, captured>>
vars == <<storeVars, streamVars, roundVars, call, state, factGeneration,
          delivered, removed>>

Pool == INSTANCE TicketPool
Stream == INSTANCE SeedStream WITH Limits <- {RoundLimit}

LiveIDs == Pool!LiveIDs
Refs(ids) == {pool[id] : id \in ids}

(* The locals of ProduceMatch: its reserved seed, the number of seeds      *)
(* evaluated before it, and the attempt limit.                             *)
Call == [pc : {"idle", "session", "evaluate"}, seed : 0..MaxTickets,
         attempted : 0..RoundLimit, limit : 0..CallLimit]

NoCall == [pc |-> "idle", seed |-> 0, attempted |-> 0, limit |-> 0]

Init ==
  /\ Pool!PoolInit
  /\ Stream!StreamInit
  /\ state = "Ready"
  /\ factGeneration = 0
  /\ attemptedSeeds = 0
  /\ initialized = FALSE
  /\ call = NoCall
  /\ tried = {}
  /\ captured = 0
  /\ delivered = {}
  /\ removed = {}

Idle == call = NoCall

-------------------------------------------------------------------------------
(* Owner operations other than ProduceMatch.                               *)

(* Seeded fault: a Draining node still accepts tickets.                    *)
AcceptsDraining == state # "Stopped"

Accepts == state = "Ready"

Add(id) ==
  /\ Idle
  /\ Accepts
  /\ Pool!PoolAdd(id)
  /\ Stream!StreamAdd(id)
  /\ UNCHANGED <<roundVars, call, state, factGeneration, delivered, removed>>

Remove(id) ==
  /\ Idle
  /\ Pool!PoolTake({id})
  /\ Stream!StreamRemove({id})
  /\ removed' = removed \cup {pool[id]}
  /\ UNCHANGED <<roundVars, call, state, factGeneration, delivered>>

BeginMatchRound ==
  /\ Idle
  /\ Stream!StreamBeginRound(RoundLimit)
  /\ attemptedSeeds' = 0
  /\ initialized' = TRUE
  /\ tried' = {}
  /\ captured' = allocated
  /\ UNCHANGED <<storeVars, call, state, factGeneration, delivered, removed>>

(* PhysicalNode unlinks a node it stopped, so none is drained afterwards.  *)
BeginDrain ==
  /\ Idle
  /\ state # "Stopped"
  /\ state' = "Draining"
  /\ UNCHANGED <<storeVars, streamVars, roundVars, call, factGeneration,
                 delivered, removed>>

Stop ==
  /\ Idle
  /\ LiveIDs = {}
  /\ state' = "Stopped"
  /\ UNCHANGED <<storeVars, streamVars, roundVars, call, factGeneration,
                 delivered, removed>>

-------------------------------------------------------------------------------
(* nextSeed.  IDs that the store no longer knows are skipped: they use up  *)
(* the stream's limit but not the node's budget, and leave the stream.     *)
Stale == ready \ LiveIDs

(* Seeded fault: the yielded ID stays ready.                               *)
YieldRepeating(id, skipped) ==
  /\ ready' = ready \ skipped
  /\ yielded' = yielded + Cardinality(skipped) + 1
  /\ UNCHANGED <<held, limit, open>>

Yield(id, skipped) ==
  /\ ready' = ready \ (skipped \cup {id})
  /\ held' = held \cup {id}
  /\ yielded' = yielded + Cardinality(skipped) + 1
  /\ UNCHANGED <<limit, open>>

NextSeed(id) ==
  /\ attemptedSeeds < RoundLimit
  /\ Stream!HasNext
  /\ id \in ready \cap LiveIDs
  /\ \E skipped \in SUBSET Stale :
       /\ yielded + Cardinality(skipped) < limit
       /\ Yield(id, skipped)
  /\ attemptedSeeds' = attemptedSeeds + 1
  /\ tried' = tried \cup {pool[id]}
  /\ UNCHANGED <<initialized, captured>>

NoSeed ==
  /\ \E skipped \in SUBSET Stale :
       /\ \/ skipped = {} /\ attemptedSeeds >= RoundLimit
          \/ yielded + Cardinality(skipped) = limit
          \/ ready = skipped
       /\ ready' = ready \ skipped
       /\ yielded' = yielded + Cardinality(skipped)
  /\ UNCHANGED <<held, limit, open, roundVars>>

(* Seeded fault: the Fact generation is not reduced to its width.          *)
NextGenerationUnwrapped == factGeneration + 1

NextGeneration == (factGeneration + 1) % (MaxGeneration + 1)

(* The first seed is reserved before the Tick Facts exist, and the Fact    *)
(* generation advances; when it wraps the call fails and the seed is spent.*)
ProduceReserve(id) ==
  /\ Idle
  /\ state \in {"Ready", "Draining"}
  /\ initialized
  /\ NextSeed(id)
  /\ factGeneration' = NextGeneration
  /\ call' = IF factGeneration' = 0 THEN NoCall
             ELSE [NoCall EXCEPT !.pc = "session", !.seed = pool[id]]
  /\ UNCHANGED <<storeVars, state, delivered, removed>>

(* BeginSession succeeds: one Tick Fact frame for all seeds of this call.  *)
ProduceSession ==
  /\ call.pc = "session"
  /\ LET remaining == RoundLimit - attemptedSeeds + 1
     IN call' = [call EXCEPT !.pc = "evaluate",
                   !.limit = IF CallLimit > remaining THEN remaining ELSE CallLimit]
  /\ UNCHANGED <<storeVars, streamVars, roundVars, state, factGeneration,
                 delivered, removed>>

(* The context is done, a provider fails, or the evaluation has an error   *)
(* that ends the call.  Seeds reserved so far stay spent.                  *)
ProduceFail ==
  /\ ~Idle
  /\ call' = NoCall
  /\ UNCHANGED <<storeVars, streamVars, roundVars, state, factGeneration,
                 delivered, removed>>

(* Seeded fault: a seed without a match is tried again on fresh Facts.     *)
ProduceMissRetrying ==
  /\ call.pc = "evaluate"
  /\ call' = [call EXCEPT !.pc = "session"]
  /\ UNCHANGED <<storeVars, streamVars, roundVars, state, factGeneration,
                 delivered, removed>>

(* The seed yields no match: the group stayed incomplete, or an error that *)
(* is only collected.  The call goes on with the next seed or returns.     *)
ProduceMiss ==
  /\ call.pc = "evaluate"
  /\ \/ /\ call.attempted + 1 < call.limit
        /\ \E id \in TicketIDs :
             /\ NextSeed(id)
             /\ call' = [call EXCEPT !.attempted = @ + 1, !.seed = pool[id]]
     \/ /\ call.attempted + 1 < call.limit
        /\ NoSeed
        /\ call' = NoCall
     \/ /\ call.attempted + 1 >= call.limit
        /\ call' = NoCall
        /\ UNCHANGED <<streamVars, roundVars>>
  /\ UNCHANGED <<storeVars, state, factGeneration, delivered, removed>>

(* Seeded fault: the context is checked once more after the commit.        *)
DeliverUnlessDone(group) == delivered' \in {delivered, delivered \cup Refs(group)}

Deliver(group) == delivered' = delivered \cup Refs(group)

(* The seed completes a group: Commit consumes it and every member leaves  *)
(* the seed stream before the match is returned.                           *)
ProduceMatch(group) ==
  /\ call.pc = "evaluate"
  /\ group \subseteq LiveIDs
  /\ call.seed \in Refs(group)
  /\ Cardinality(group) <= MaxPlayers
  /\ Pool!PoolTake(group)
  /\ Stream!StreamRemove(group)
  /\ Deliver(group)
  /\ call' = NoCall
  /\ UNCHANGED <<roundVars, state, factGeneration, removed>>

InCall ==
  \/ ProduceSession
  \/ ProduceFail
  \/ ProduceMiss
  \/ \E group \in SUBSET TicketIDs : ProduceMatch(group)

Next ==
  \/ \E id \in TicketIDs : Add(id) \/ Remove(id) \/ ProduceReserve(id)
  \/ BeginMatchRound
  \/ BeginDrain
  \/ Stop
  \/ InCall

(* A call that started keeps running; callers need not call at all.        *)
Spec == Init /\ [][Next]_vars /\ WF_vars(InCall)

-------------------------------------------------------------------------------
LiveRefs == Refs(LiveIDs)

TypeOK ==
  /\ Pool!PoolTypeOK
  /\ Stream!StreamTypeOK
  /\ state \in {"Ready", "Draining", "Stopped"}
  /\ factGeneration \in 0..MaxGeneration
  /\ attemptedSeeds \in 0..RoundLimit
  /\ initialized \in BOOLEAN
  /\ call \in Call
  /\ tried \subseteq 1..MaxTickets
  /\ captured \in 0..MaxTickets
  /\ delivered \subseteq 1..MaxTickets
  /\ removed \subseteq 1..MaxTickets

(* The seed runtime knows exactly the tickets the store holds, so a seed   *)
(* is never dead and a waiting ticket never drops out of scheduling.       *)
SeedsMirrorPool ==
  /\ ready \cup held = LiveIDs
  /\ ready \cap held = {}

(* Every ticket the node accepted is waiting, was returned in exactly one  *)
(* match, or was removed: a match is never lost after its commit, and no   *)
(* ticket is in two matches.                                               *)
TicketsConserved ==
  /\ 1..allocated = LiveRefs \cup delivered \cup removed
  /\ LiveRefs \cap delivered = {}
  /\ LiveRefs \cap removed = {}
  /\ delivered \cap removed = {}

(* Each attempt of a round reserves a different ticket, and the attempts   *)
(* stay within the round's budget and within the running call's limit.     *)
SeedsNotRepeated ==
  /\ attemptedSeeds = Cardinality(tried)
  /\ attemptedSeeds <= RoundLimit
  /\ call.pc = "evaluate" =>
       /\ call.attempted < call.limit
       /\ call.attempted < attemptedSeeds

(* A ticket that was waiting when the round began and was not tried yet is *)
(* still eligible as a seed, and the one tried is not.                     *)
CapturedStayEligible ==
  initialized => \A id \in LiveIDs : pool[id] <= captured =>
    (id \in ready <=> pool[id] \notin tried)

(* A Draining node accepts nothing, a Stopped one holds nothing, and       *)
(* neither becomes Ready again.                                            *)
DrainIsFinal ==
  [][state # "Ready" => /\ state' # "Ready"
                        /\ allocated' = allocated
                        /\ state' = "Stopped" => \A id \in TicketIDs : pool'[id] = 0]_vars

(* Each step of the node is one its PhysicalNode expects of a partition:   *)
(* the observations it schedules by change as PartitionView says.          *)
Observed == INSTANCE PartitionView WITH MaxWaiting <- Cardinality(TicketIDs)

nodeView ==
  [state |-> state, begun |-> initialized, waiting |-> Cardinality(LiveIDs),
   ready |-> IF open THEN Cardinality(ready) ELSE 0,
   budget |-> IF initialized THEN RoundLimit - attemptedSeeds ELSE 0]

ImplementsView ==
  nodeView = Observed!NewView /\ [][nodeView' \in Observed!Steps(nodeView)]_nodeView

(* ProduceMatch returns: its loop is bounded by the attempt limit.         *)
CallReturns == ~Idle ~> Idle

===============================================================================
