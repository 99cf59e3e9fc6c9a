# Formal model of matchSystem

This directory holds a TLA+ verification project for the match system: modules
that model its matching core, TLC configurations that check them on small
instances, and proofs that TLAPS checks for every value of the constants.
`PROJECT.json` is its machine-readable index: which definition models which
source lines (`map`), which configuration checks what (`runs`), which seeded
fault breaks which property (`mutants`), what can go wrong in the code
(`hazards`) and what is proved (`theorems`).

Paths below are relative to `src/`; `core/` abbreviates `internal/matchsystem/`.

## 1. The system

A *ticket* waits in one *logical node* (a partition with one rule) of one
*physical node* (an owner goroutine with several partitions). The host opens a
*match round*, then calls `ProduceMatch` repeatedly. Each call picks a partition
by a selector, takes *seed* tickets one by one from the partition's seed order,
and tries to complete a group around each seed. A complete group is committed:
its tickets leave the store and the group is returned. The simulator wraps
this core in goroutines, an HTTP API, a traffic generator and Python fact
providers; a web console and a desktop shell with an updater sit on top.

| Component | State | Operations | Talks to | What is hard | What makes it correct |
|---|---|---|---|---|---|
| Ticket store (`core/ticket_store.go`) | DocID counter and free stack, DocID to object, TicketID to DocID, prefilter bitmap, oldest-waiting heap with lazily dropped entries | Add, Remove, Commit, lookups, oldestCreatedAt | LogicalNode, prefilter, object slots | DocID reuse, dead heap entries, group commit, an Add the prefilter refuses | indexes agree, DocIDs neither leak nor repeat, Commit is all or nothing, the oldest time is exact |
| Seed ordering (`core/seed_order.go`, `core/typed_heap.go`) | list and cursor, index heap and held array, or swap-remove arrays | Add, Remove, BeginRound, HasNext, Next | LogicalNode | removal and replacement in mid-round, positions that go stale | one seed at most once per round, none dropped, order by policy, within the limit |
| LogicalNode (`core/logical_node.go`, `core/logical_node_round.go`) | Ready/Draining/Stopped, round budget, Fact generation | Add, Remove, BeginMatchRound, ProduceMatch, BeginDrain, Stop | store, seed runtime, evaluator, providers | failure and cancellation between the steps of a call | no ticket lost or matched twice, budgets kept, drain is final |
| PhysicalNode and selectors (`core/physical_node.go`, `core/logical_node_selector.go`) | partitions in load order, selector cursor or credits, round flag | Load, Add, Remove, BeginMatchRound, ProduceMatch, BeginDrain, Stop | LogicalNode, host | candidates that change under a stateful selector, stopped nodes | no eligible partition starves, shares follow weights, a round starts on all partitions or none |
| Seed evaluation and ranking (`core/seed_evaluator.go`, `core/candidate_ranking.go`) | Object slots of the Tick, ranking heap, group and its Match Facts | BeginSession, Evaluate | prefilter, Facts, scorers | callbacks that fail between two steps, a bounded heap instead of a sort | the group is the greedy choice from the K best, its Facts are those of its members, failures are not taken for "no match" |
| Facts (`core/fact/*`, `core/provider_descriptor.go`, `core/provider_runtime.go`) | generation-tagged slots with reused buffers, frames, validators | Object, Set, handshake, validate | evaluator, store, providers | buffers used again, providers that fail half way, two checks of one contract | what is served was written for this ticket in this generation; an honest provider is never refused, no Fact goes unserved |
| Prefilter (`core/prefilter/*`) | active bitmap, multi-value and int64 range indexes, compiled plans | Add, Remove, BeginTick, Candidates | store, evaluator | directory and blocks kept up to date between rebuilds, evaluation order chosen by the data | the candidates are the tickets the expression fits; an accepted plan never lacks a scope |
| Rule compilation (`core/rule_config.go`, `core/contract`, `core/expression`, `core/evaluation`) | none | parse, validate, compile | | | |
| Client routing (`internal/client`) | route table, replaced as a whole | Replace, RouteNew, ResolveOwner | PhysicalNode | tables that change between two tickets | one home per LogicalNode, an affinity moves only for a cause |
| Simulator host (`internal/simulator/{worker,service,registry}.go`) | goroutine per node with a command channel, service mutex, observation registry, match history, event log | AddTicket, RemoveTicket, BeginRound, Produce*, RunRound, ReplaceScenario, SubscribeEvents, Close | core, registry, subscribers | cancelled calls whose command still runs, two copies of the ticket state, subscriptions of a replaced scenario | registry and core agree, calls get their own answer and return, events come in order |
| Simulator traffic (`internal/simulator/traffic.go`) | current run, its status and clock | Start, Stop, scheduled steps | Simulator | stop, replacement and Close against a running step, late wake-ups | one run at a time, counters tell what happened, nothing acts after a stop returned |
| Python Fact provider (`internal/simulator/python_provider.go`) | process, pipes, mutex, first failure | handshake, calls, Close | evaluator, host | late replies, timeouts, process death | a reply answers its own request, a failure is told, every call returns |
| HTTP API (`internal/simulatorapi`) | none of its own, but operations of several steps | ticket batches, event streams | Simulator | other clients between two steps, lost connections, rollback | an atomic batch that failed left nothing, a stream resumes where it stopped |
| Desktop updater (`apps/desktop/updater`) | installation directories, journal | apply, acknowledge, roll back | file system, app | crash between renames | some complete version is always installed |
| Web console, commands, scripts | user interface, process start-up | | HTTP API | | |

The full list of hazards, each at its source line and with the properties that
cover it, is `hazards` in `PROJECT.json`.

## 2. Modules

| Module | Models | State and actions against the code |
|---|---|---|
| `TicketPool` | what the store promises | partial map TicketID to object number; add, take a set |
| `TicketStore` | `core/ticket_store.go` | every field of `ticketStore`; one action per method, refusals included because they answer something a property is about |
| `SeedStream` | the `SeedOrderRuntime` contract (`core/seed_order.go:50-69`) | the IDs ready in this round, the IDs held for the next, limit and count |
| `ArrivalSeedOrder` | `arrivalSeedOrderPolicy` | linked list as a set of numbered elements, round cursor |
| `RankedSeedOrder`, `TypedHeap` | `oldestSeedOrderPolicy`, `int64PrioritySeedOrderPolicy`, `core/typed_heap.go` | index-carrying heap and held array; the two policies differ in `Ranks` and `Ascending` only |
| `RandomSeedOrder` | `randomSeedOrderPolicy` | two swap-remove arrays with position maps; a draw is any position |
| `HeapOperations` | the callers of `TypedHeap` | pushes, pops and removals in any order, against the definition of a heap |
| `LogicalNode` | `core/logical_node.go`, `core/logical_node_round.go` | composes `TicketPool` and `SeedStream`; `call` holds the locals of a running ProduceMatch |
| `PartitionView` | what the PhysicalNode observes of a partition | state, waiting tickets, seeds and attempts left in the round |
| `PhysicalNode` | `core/physical_node.go`, `core/logical_node_selector.go` | map and load order of partitions, selector cursor and credits |
| `SeedEvaluator` | `core/seed_evaluator.go`, `core/candidate_ranking.go`, `core/produce_metrics.go` | one step per callback of `Evaluate`, which may fail, with the context ending anywhere; ranking in `TypedHeap` |
| `ObjectFacts` | `core/fact/frame.go`, `core/fact/object_slot.go` | the slot of one TicketID with its buffers, one step per write of its provider |
| `ProviderHandshake` | `core/provider_descriptor.go`, `core/fact/validator.go`, validating providers of `service.go` | from the declared Facts over the descriptor to a returned layer; one step per check |
| `PrefilterIndex` | `core/prefilter/{store,int64_range_index,multi_value_index}.go` | postings, directory and blocks; Add, Remove, BeginTick |
| `PrefilterPlan` | `core/prefilter/{compiler,expression,store}.go` | a plan grows node by node, is validated at the root and evaluated once |
| `Router` | `internal/client/{route_table,router}.go` | the current table and the last decision; the hash is a free function |
| `NodeWorker` | `internal/simulator/worker.go` | callers, the unbuffered command channel, the loop of the owner goroutine, close |
| `SimulatorHost` | `internal/simulator/{service,registry}.go` | `op` is the operation that holds `Simulator.mu`, `command` what each owner goroutine executes beside it |
| `EventLog` | `SubscribeEvents` of `service.go` and of `internal/simulatorapi/adapter.go`, `handleEvents` | the log, an in-process subscription, an HTTP stream with its poller |
| `Traffic` | `internal/simulator/traffic.go` | the goroutines of the runs, each step under the mutex one action; wall and virtual clock |
| `TicketBatch` | batches in `internal/simulatorapi/adapter.go`, `internal/simulator/generator.go` | one step per call of the Simulator, other clients between them |
| `PythonWorker` | `internal/simulator/python_provider.go` | callers, mutex, writer and reader goroutine of each request, the process |
| `X_proofs` for `X` in `TicketStore`, `ArrivalSeedOrder`, `LogicalNode`, `PhysicalNode`, `NodeWorker`, `SimulatorHost`, `TicketBatch`, `PythonWorker` | | theorems and proofs about `X`; those of `TicketStore` also about `PrefilterIndex`, of `ArrivalSeedOrder` about `RandomSeedOrder`, of `PhysicalNode` about `Router`, of `TicketBatch` about `EventLog` and `Traffic`, of `PythonWorker` about `ObjectFacts` and `ProviderHandshake` |
| `MC*` | | constants, and for several modules one behaviour that picks one of them |

```
TicketBatch, Traffic, EventLog --beside--> SimulatorHost --commands--> NodeWorker
PythonWorker, ProviderHandshake --Facts--> ObjectFacts --slots--> SeedEvaluator
PrefilterPlan --lookups--> PrefilterIndex          SeedEvaluator --heap--> TypedHeap
PhysicalNode --uses--> PartitionView <--implements-- LogicalNode
LogicalNode  --INSTANCE--> TicketPool <--implements-- TicketStore
             --INSTANCE--> SeedStream <--implements-- ArrivalSeedOrder, RandomSeedOrder,
                                                      RankedSeedOrder --INSTANCE--> TypedHeap
```

Each layer of the core is checked against the abstraction the next one is built
on, so `LogicalNode` needs no DocIDs and `PhysicalNode` no seeds. Around the core a
module takes from its neighbour what that neighbour's properties establish: for
`LogicalNode` an evaluation is any group with its seed, and `SeedEvaluator` says
which; for `SimulatorHost` an owner goroutine executes one command at a time and
may outlive its caller, and `NodeWorker` says how; for `Traffic` and `TicketBatch`
the Simulator is a set of waiting tickets behind a mutex. Conventions that hold
everywhere:

- A Go pointer is the number of its allocation; `0` stands for nil, absent or
  the code's index -1; arrays start at 1.
- All owners serialise their calls (`core/physical_node.go:32`), so a call is one
  step. The exception is `ProduceMatch`: providers and the context may fail
  between its steps, and what is left behind then is the question, so `LogicalNode`
  takes one step per seed and `SeedEvaluator` one per callback. In `PhysicalNode`
  it is one step again.
- In the simulator one action is what happens under the mutex, or what one
  goroutine does up to its next channel operation.
- A call that is refused and changes nothing is not a step, except in `TicketStore`.
- Variables marked *history* record what the properties compare with; the code
  has no such field and no guard reads them.
- An operator marked *Seeded fault* is a plausible bug in the definition that
  follows it. No specification uses it; `mutants` in `PROJECT.json` names one for each
  property, the others break further parts of the same properties.

## 3. Runs

Components that do not act at the same time share a run: in its `MC` module a
behaviour picks one of them (`part` or `scenario`) and leaves the others in their
initial state, so that the run is the sum of their state spaces. The `MC` module
extends one of them, its principal, whose properties the configuration names as
they stand; a property of the others is a conjunction of what their modules
state, given in parentheses under the names it has there. `MCCandidates` has no
principal.

| Run | Parts and bounds | Properties, and what they consist of |
|---|---|---|
| `ticket_store` | three TicketIDs, two DocIDs, three objects, matches of up to two pointers (live, dead or cloned) | `DocIDsPartitioned`, `IndexesAgree`, `OldestIsExact`, `ExhaustedOnlyWhenFull`, `CommitAllOrNothing`, `ImplementsPool` |
| `logical_node` | three TicketIDs, four tickets, budgets 3 per round and 2 per call, groups of up to two, Fact generation that wraps after 2 | `TypeOK`, `SeedsMirrorPool`, `TicketsConserved`, `SeedsNotRepeated`, `CapturedStayEligible`, `DrainIsFinal`, `ImplementsView`, `CallReturns` |
| `selection` | principal `ArrivalSeedOrder`: three TicketIDs, five elements; ranked: three TicketIDs, four entries, ascending or not, missing ranks beside negative ones; random: four TicketIDs; heap: seven values | `CursorLinked`, `RoundFollowsArrival`, `ImplementsStream`; `OtherPoliciesExact` (`PositionsExact`, `HeapOrdered`, `IndexExact`, `OperationsExact`, `YieldsBestRank`, `ImplementsStream`) |
| `physical_node` | principal `PhysicalNode` with three partitions of weights 2, 1 and 1 under the weighted selector; in turn: three partitions under round robin; free: two rules under two placements, any selector; routing: three nodes, two hash values, tables with weights 1 and 2, disabled nodes and routes, and some to be refused | `CreditsBounded`; `NobodyStarves` (`OrderListsNodes`, `RoundEnds`, `EligibleGetsTurn`), `MovesForCause` (`OneHome`, `MoveHasCause`) |
| `simulator_host` | principal `SimulatorHost` without faults: two nodes, two rounds, two insertions, a replacement, history of one record; faulty: one node, cancelled calls and failing workers, a match counter that ends at 2; worker: two callers, two calls, close | `RegistryMirrorsCore`, `DriftAccounted`, `RecordTellsRound`, `MatchesInLimits` (`HistoryIndexed`, `LimitKept`), `IDsNotReused`; `LeaversAreHarmless` (`DriftAccounted` with faults, `RemoveHeals`, `AnswerIsOwn`, `NoSendOnClosed`, `NothingRunsAfterClose`), `EverybodyReturns` (`MutexReleased`, `CallsReturn`, `CloseReturns`) |
| `simulator_streams` | principal `TicketBatch`: two clients, four kinds of batch, one that names a ticket twice; subscriber: four events, two replacements, buffer of two; client: three events, two connections, pages of two; fixed, realtime and two runs of traffic | `AtomicLeavesNone`, `AnswerIsTrue`; `EventsInOrder` (`SubscriberOrder`, `ChannelSound`, `StreamExactlyOnce`), `TrafficAccounted` (`StatusCountsPrefix`, `CompletedIsWhole`, `CreatedInOrder`, `OneRun`, `StopIsFinal`), `NothingLagsForEver` (`RetiredIsClosed`, `StreamCatchesUp`, `RealtimeCatchesUp`, `FixedRunEnds`, `BatchesEnd`) |
| `providers` | principal `PythonWorker`: two callers, three calls, a script that may fail, break the protocol, hang or die; slot: three generations, two insertions of the TicketID, three writes; binding: 12 rules, every descriptor of up to one Fact and many of two, layers of up to two entries | `AnswerIsOwn`, `PipesFree`, `FailureKept` (`FailureTold`, `FirstFailureKept`), `CallsReturn`; `FactsServed` (`ServedIsWritten`, `ProviderRunsOnce`, `LimitsHold`, `AnswerIsStable`, `HonestIsServed`, `ServedFitsRule`, `NoFactUnserved`, `ExtrasWellFormed`) |
| `candidates` | single: one seed of five tickets, scoring limit 3, candidate limits 2 and 3; session: two seeds of three tickets; index: five tickets over five values in blocks of two; plan: expressions of up to five nodes over two tickets | `MatchIsGreedy` (with `BestFirst`, `MissIsMiss`, `CountersAddUp`), `CandidatesExact` (`RangeExact`, `KeysExact`, `NothingLeftBehind`, `NeverUnscoped`, `RefusedForAReason`) |
| `late_tickets`, `event_replaced`, `host_provider`, `batch_rollback` | | violated, see *Findings* |

**Bounds.** Constants named `Max...` bound how often something happens in a
behaviour; everything else is finite by itself. The hazards need little:

- Two DocIDs and three objects let a DocID be reused while a dead object of its
  previous ticket is still in the heap, with a live ticket beside it; three seeds with
  two attempts per call need two calls to use up a round of three; five list elements
  on three TicketIDs allow two replacements in mid-round. A heap needs six values
  before a removal from the middle has to move its replacement up; it has seven.
- A range over five values in blocks of two can begin in one block, end in the third
  and have a whole block between, and a value can go and come back before the next
  `BeginTick`. A plan of five nodes can be an AND of a query with the exclusion of an
  OR, or an IF inside an OR. Five tickets and a scoring limit of three leave one
  candidate unscored, and a limit of two makes the ranking heap replace its worst.
- Two nodes are enough for a call that ends between two nodes; two clients for every
  interference between batches; an event buffer of two for an event that is
  dropped; two connections for a stream that resumes with events in flight.
- `MaxDocID`, `MaxGeneration`, `LastMatchID`, `LastTicketID` and `LastTime` scale the
  ends of the code's integers down so that they are reached.

Where a theorem exists (below), the bounds do not matter.

**Symmetry** is used only in runs without liveness: over the TicketIDs of the seed
orders and over the documents of the index, which no definition orders.

**Fairness.**

- `logical_node`: `WF_vars(InCall)`, a ProduceMatch that started keeps
  executing. It runs on its caller's goroutine and waits for nothing but provider
  calls, which are given a context and return.
- `simulator_host`: weak fairness of the operation that holds the mutex, of the owner
  goroutines and of a caller that can take a step; strong fairness of handing a
  command over, because a Go `select` whose receiver is ready again and again picks
  each ready case with positive probability and the runtime queues senders in order.
- `simulator_streams`: weak fairness of the event poller, its timer and the HTTP
  writer, of the goroutines that close a retired subscription, of the wall clock and
  of the goroutine of a run, and of a client in the middle of a batch.
- `providers`: weak fairness of timers and of the goroutines at the pipes; strong
  fairness of acquiring the mutex (`sync.Mutex` hands over to a waiter that starves)
  and of the second lock of `ObjectWithFacts`. None of the script: it may hang.
- No fairness is assumed of callers: nobody need add tickets, begin rounds or call
  again. `EligibleGetsTurn` and `RoundEnds` therefore state "infinitely many
  calls" as a hypothesis.

**Deadlock** is checked in `selection` and `physical_node`, whose systems go on for
ever. In the others a bound on calls, a closed Simulator, a stopped node or a
decided seed ends a behaviour.

### What the properties mean for the code

- `TicketsConserved`: the union of waiting, delivered and removed tickets is all that
  was accepted, without overlap. It depends on there being no early return after
  `store.Commit` in `produceMatch`.
- `CapturedStayEligible`: a failing provider spends its seed for this round and for no
  other, and no other waiting ticket loses its chance.
- `SeedsMirrorPool`: the defensive branch of `nextSeed` for dead IDs is
  never taken with the built-in policies; it is modelled nevertheless.
- `EligibleGetsTurn` holds although the round robin cursor is lost when its partition is
  stopped. It needs the hypothesis that partitions are not loaded for ever: two rules
  that are stopped and reloaded in turn always return behind the
  cursor and starve a third in front of it.
- `CreditsBounded` is what makes the weighted selector fair although its
  credits are updated for the eligible partitions only and survive a stop: no credit
  exceeds the highest weight for every other partition. The sum of all weights is not
  a strict bound: with weights 6, 1, 1 and 1, and candidates that change, a credit reaches 9.
- `MovesForCause`: a rendezvous score depends on one route only, so that a table that
  changes a third node never parts the tickets of an affinity.
- `DriftAccounted`: where registry and core disagree, an operation on that very ticket
  was handed over and failed on its way back; `RemoveHeals` says that a later
  `RemoveTicket` that succeeds puts it right.
- `AnswerIsOwn`, twice: neither the reply channel of an owner goroutine nor the pipe of a
  Python process can hand an abandoned reply to the next caller. The former rests on
  a channel per call, the latter on killing the process after a timeout.
- `NothingRunsAfterClose` and `NoSendOnClosed` rest on the order in which `service.go`
  retires a runtime under the mutex before it closes its nodes. The adapter by itself
  does not have them: a call that reaches the send after `close()` has closed the
  channel panics, although `worker.go:87` promises an error.
- `RecordTellsRound` is stated without cancellation. A `BeginRound` that is cancelled between
  two nodes leaves those before in a new round whose number and time the records of
  their matches do not carry (`service.go:1072`).
- `StreamExactlyOnce` holds for one runtime. A subscriber in the same process may miss events
  on a full buffer, and reading on does not bring them back; `SubscriberOrder` says that
  these are the only ones it misses.
- `AtomicLeavesNone`: an atomic batch takes back every insertion it was told of. One whose
  client leaves while a node executes an insertion is not told of that one, and it
  stays (`adapter.go:585`).
- `CandidatesExact`: anchor choice, probing and early stops change nothing but the work.
  `RefusedForAReason` is the other direction: an expression that the root check refuses
  would lack a scope with some data.
- `MissIsMiss`: "no match" is returned only if all candidates in the scoring pool had their Facts;
  otherwise the errors are.

### Findings

- `late_tickets`: `doc/match-system/architecture.md:87` says that a ticket added after
  `BeginMatchRound` only enters the next round. `arrivalSeedOrderPolicy.Add`
  (`core/seed_order.go:157`) appends it behind the running cursor, so it is yielded in the
  running round; the ranked and random policies do the same with their heap or
  array. The contract of `SeedStream` allows either.
- `event_replaced`: `api/openapi/simulator.yaml:461` offers to resume the event stream with the
  last event ID. A replaced scenario numbers its events from 1 while the poller and the
  client keep the old number, so they skip as many events of the new runtime as they
  have seen of the old one (`internal/simulatorapi/adapter.go:481`).
- `host_provider`: `doc/simulator/architecture.md:83` says that after a match its members leave
  the waiting list and an event is appended. `produceOne` asks for a provider failure
  after the core has committed and returns it without recording the match
  (`internal/simulator/service.go:1166`): the tickets stay listed as waiting although no node holds them.
- `batch_rollback`: `internal/simulatorapi/handler_test.go:690` takes it as an error if a rollback
  changes existing data. The rollback removes by owner and TicketID
  (`adapter.go:603`); if a ticket of the batch was deleted and added again by another client,
  it removes that client's ticket.

## 4. Proofs

TLAPS checks the eight modules named `*_proofs`. The inductive invariants
are in brackets below; `PROJECT.json` lists the theorems with the run properties they
state. The bounds `Max...` are arbitrary there, and so is every set of
IDs, clients or callers unless an assumption is named.

**TicketStore** [`IInv`]. From `StoreAssumption` (at least one DocID, times are naturals): `TypeCorrect`,
`NoDocIDLost`, `NoPanic`, `OldestExact`, `ExhaustionExact`, `CommitAtomic` and the
refinement `RefinesPool`. `IInv` is the conjunction of the invariants with
`LiveInOldest`: a live object is always in the heap. `IndexesAgree` and
`DocIDsPartitioned` need each other: a DocID taken from the stack is not live
only because the partition holds, and the DocIDs a match frees are distinct only because
the indexes are inverse. The sequence lemmas `PopDistinct` and `ConcatDistinct`, and
`Allocation` on top of them, carry the free stack; `CommitFacts` turns the pointer preflight into
distinct live DocIDs.

**PrefilterIndex** [`IndexInv`], in `TicketStore_proofs`, which takes it as an instance `Index`. From its
`IndexAssumption` (blocks are not empty, values are integers), a premise of the theorems: `CandidatesFound`,
which is `RangeFound` and `KeysFound`, the lookups of `RangeExact` and `KeysExact`; `NothingStaysBehind`, which is
`NothingLeftBehind`; and `IndexTypeCorrect`. The postings are the inverse of what each document was filed under
(`Inverts`, `InvertsSets`), and a block holds the documents whose value the last rebuild filed under
it (`FiledIn`). The latter holds while the directory is stale too: a value that vanished and came back
before the rebuild goes into its old block. A clean directory is the one `Prepare` would build (`Prepared`),
because a value that comes or goes makes it dirty. `LookupFinds` then reads a lookup as places
in the ascending order: the bounds are places (`InitialSegment`, `AscendingProperties`), a slice of
postings holds the documents from one place to another (`SliceHolds`), the blocks between as well (`MiddleHolds`, on
`PlaceInBlock`), and the three parts meet without gap or overlap. The estimates are sums over
sets, folds that the prover cannot follow by induction; TLC checks them.

**ArrivalSeedOrder** [`RoundInv`]. From `ArrivalAssumption` (limits are integers): `LinksExact`,
`ArrivalOrder`, and the refinement of the seed stream, `StreamImplemented`. `TypeOK`
and `CursorLinked` are inductive together (`ListInv`). `RoundFollowsArrival` is not
without `ProgressInv`: the cursor separates the elements already yielded from the
others, and without a round there is no cursor. In the refinement the tickets ready in a
round are those whose element is not before the cursor, so that `Next` takes one
ticket from the set because the cursor moves to the *least* later element
(`FirstIsLeast`), and an `Add` in mid-round joins the set because it gets the largest.

**RandomSeedOrder** (`Random` in `ArrivalSeedOrder_proofs`) [`RandomInv`]. From the same assumption:
`RandomTypeCorrect`, `RandomPositions`, which is `PositionsExact`, and the refinement of the seed
stream, `RandomStreamImplemented`. `Indexed` says that a map is the inverse of an array *and*
is 0 for every ID that is not in it; without the second half, an ID that was removed could be
removed again with the position of another. Its three lemmas (`SwapRemoved`, `AppendedID`, `RestoredIDs`)
say for any array what a swap-removal, an append and a restoration make of array and map, also when the
last ID itself is removed, and which IDs are listed then. What a stream may
still yield is what the map lists (`IndexedMembers`), so that the refinement needs the sets of these lemmas only.

**LogicalNode** [`TypeInv`, `SafetyInv`]. From `NodeAssumption` (a finite set of TicketIDs, positive budgets, a call's
budget no larger than the round's): `TypeCorrect`, `SeedsMirror`,
`Conservation`, `NoRepeat`, `Eligibility`, `Draining` and the refinement of `PartitionView`,
`ViewImplemented`. `TypeOK` is not inductive: in the
"session" step the call computes what the round has left, which stays in range only because one
attempt was already charged (`CallInv`). The safety invariant adds that every object number is used once
and at most `allocated` (`StoreInv`), that `tried` holds only allocated objects
(`TriedInv`), and that a stopped node is empty (`StoppedEmpty`), without which a new ticket could be
one that was already delivered or tried. One step per action
shows that each conjunct is preserved; `StepKinds` groups the actions
that leave store and stream alone. The refinement rests on what each action does to four numbers
and a state (`ViewOf`): adding, taking and seeding change the cardinality of the waiting tickets and of
those among them the stream may still return (`AddedCounts`, `TakenCounts`, `SeededCounts`), and
every seed returned was charged to the round, because no seed is returned before one has begun (`RoundInv`).

**PhysicalNode** [`NodeInv`]. From `PhysicalAssumption` (finitely many rules and placements, positive weights and
limits): `TypeCorrect`, `EveryNodeListed`, which is `OrderListsNodes`, and `CreditsStayBounded`. `CreditsBounded` is
not inductive: a partition that is not selected earns, and what keeps it from earning for ever is that
the others hold as little as they do. `Fair` says so for *every set* of `s` of the `n` keys:
together they hold at most `s (n - s)` times the highest weight. A selection keeps that
(`FairKept`): a set with the selected key loses what the eligible keys outside
it earned; in a set without it every eligible key has at most the credit of the selected one, and adding that
key to the set, taking the eligible ones out of it, and averaging gives the bound
(`FairArithmetic`). A single key is a set, which bounds it from above; the credits cancel out, so that what
it owes is what the others hold, which bounds it from below (`FairBounds`). The sums are handled by
`Total`, with `SubsetInduction`: that the fold of the community modules is the sum in any order
(`TotalRemove`), of two disjoint parts (`TotalSplit`) and of two functions (`TotalPlus`).

**Router** (`Routing` in `PhysicalNode_proofs`) [`RouterInv`]. From `RouterAssumption` (finitely many routes in a
table, weights and hashes natural numbers): `HomeIsOne` and `MovesHaveCause`, which are `OneHome` and
`MoveHasCause`. That the router finds exactly one home rests on `WinsIsOrder`: scores are compared before
nodes, and in a valid table two open routes of a rule are never on one node. The winner is the
route before which the fewest others come (`BestIsOne`). In `MoveNeedsCause` a move between two
tables without loss and gain would leave both nodes with one score, and then each would have to precede the other.

**NodeWorker** [`TypeInv`, `AnswerInv`, `HostInv`]. From `WorkerAssumption` (a finite set of callers, at least one call each):
`TypeCorrect`, `OwnAnswer` and, with `Hosted`, `NoPanic`. `TypeOK` needs `Numbered` (a call in
progress has a number), `OwnAnswer` needs `RepliesTrue` (a buffered value is the
result of a command that ran), and `NoPanic` needs `RetiredFirst`: the channel is closed
only after a retirement that found no caller and that lets none start. `Hosted` is that
discipline of `service.go`; without it a caller may be waiting to send when the channel
is closed. `QuietAfterClose` needs no assumption, only `Gone`: close returns when the
goroutine has exited.

**SimulatorHost** [`HostInv`, `HistoryInv`, `CalmInv`, `FaultlessInv`]. From `HostAssumption` (at least one node, a
history of at least one record, a last Match ID): `DriftIsAccounted` and `RemovalHeals` with any
faults, `MatchIDsUnique`, `LimitsAreKept`; `RoundTold` if no call is cancelled;
`RegistryExact` if there are no faults at all. The two hypotheses are those of the runs: with
cancellation, or a failing provider, the properties are false in the code, which is what
`DriftAccounted` is for and what the run `host_provider` shows. `DriftAccounted` is far from inductive.
`DriftInv` says that a ticket on which registry and node disagree is `suspect` or
`Flying`, that is the subject of a reply the operation has not recorded yet. It is
preserved because of `CommandInv`, at most one command is awaited and it is the one
of the running operation, and of `ReplyInv`, what a reply says is still so in its node when
the operation resumes: the command of a caller that left holds up the next one to
its node. `CalmInv` follows the time of a round node by node:
while `BeginRound` is under way, the nodes before `op.node` have the new time, the others that of the
last round. `FaultlessInv`: without faults only the last Match ID makes a ticket suspect.

**TicketBatch** [`Inv`]. From `BatchAssumption` (batches are not empty): `AtomicBatchesTakeBack` and
`AnswersTrue`. `BatchInv` says of one batch which tickets are still ahead and
which were told (`Working`), how far a rollback has come (`RollingBack`,
`Undone`) and what an answered one looks like (`Answered`). Two facts about the pool make it stable under
everything the others do (`Ages`): an insertion gets a number no batch has yet, and whatever else
happens only takes tickets away. A removal that fails finds the pool empty (`PoolInv`), which
is why `AtomicLeavesNone` holds for "rollback failed" as well.

**EventLog** [`SubInv`, `StreamTyped` with `InFlow`], in `TicketBatch_proofs`, which takes it as an
instance `Log`. From its `EventAssumption` (sizes and bounds are natural numbers, the sizes not
zero), which the theorems have as a premise: `SubscriberInOrder` and `ChannelStaysSound`, with any
number of replacements, and `StreamInOrder`, without one. A run (`IsRun`) of events is consecutive
numbers of one runtime; appending the next event and taking off the first keep runs, and moving an
event from the channel to its reader leaves their concatenation as it is (`FirstMoves`). `Kept` says
of that concatenation that it is ordered, a run unless an event was dropped, and reaches
the end of the log while the subscription is registered with the published runtime.
`ChannelSound` needs what `Unsubscribe` relies on: a subscription of an earlier runtime is never
sent to again, since runtimes are not published twice. `InFlow` says that what the client
has seen, what waits in the channel of the poller and the rest of its page are one run, so
that cutting the connection anywhere and resuming after the last event seen neither
skips nor repeats. `LogTypeCorrect` is its `TypeOK`.

**Traffic** (`Background` in `TicketBatch_proofs`) [`RunsInv`]. Without any assumption: `RunIsAlone` and `StopHolds`, which
are `OneRun` and `StopIsFinal`. A run that was ended is not the current one, and the current one is always the
last: that is what a goroutine relies on when it compares itself with `Simulator.traffic` under the mutex.
`RunMoves` says for every step of a goroutine that it replaces its own run only, that it clears `traffic` only if
it is the current run, and that without being it, it leaves status, pool and injected tickets alone. What
the status counts (`StatusCountsPrefix`, `CompletedIsWhole`, `CreatedInOrder`) is a selection from a
sequence, defined by recursion, and stays with TLC.

**PythonWorker** [`WorkerInv`]. From `WorkerAssumption` (`"none"` is no caller's name): `RepliesMatch`,
`PipesExclusive` and, of `FailuresTold` and the action property `FailureStays`, `FailureIsKept`. `AnswerIsOwn` rests on
`PipeInv`: while a worker is open, the pipes hold at most the request and the reply
of the call that has the mutex, and nothing when the mutex is free. That is where the code
needs to close the worker *before* a call that gave up releases the mutex (a caller that
drains has closed it); otherwise its late reply would meet the next call. `MutexInv` ties the state of
each request to the holder of the mutex.

**ObjectFacts** (`Slot` in `PythonWorker_proofs`) [`SlotInv`]. With its `FactAssumption` (list and int64 Facts are
different, every limit is positive) as a premise: `ServedAsWritten`, `OneProviderRun`, `AnswersAgree`,
`LimitsKept` and `SlotTypeCorrect`. `ServedIsWritten` is not inductive: an append goes on from the
buffer, so `WithinLimits` adds that a buffer whose Fact is not shown is empty, which is what `resetValues`
is for, and that the limits hold for buffers nobody sees; `ProviderInv` follows what a
provider has written while it still runs. It ties the calls to the generation of the slot, so that
a slot of an earlier generation is one whose provider has not run in this one, and says that a
settled slot and the last answer agree, from which `AnswerIsStable` follows.

**ProviderHandshake** (`Binding` in `PythonWorker_proofs`) [`BindingInv`]. With its `HandshakeAssumption` (the scope is
one of three, declarations are records with an integer limit) as a premise: `HonestProviderServed`,
`ServedLayerFits`, `FactsHaveProviders`, `ExtrasDeclaredWell` and `BindingTypeCorrect`. The invariant is short: what
was refused never goes on. The work is in what the checks come to, each of which ends at its first
error: `FirstOk` says that such a list passes exactly if every check does, `CoveredOk` that a
descriptor that passes has the rule's declarations unchanged, and `EntryOk` what validation asks of
an entry. Limits and types are compared once, when the provider is bound, and validation
looks at the rule's declarations only; that they are the descriptor's is what makes the two agree.

**Only model-checked.**

- Liveness (`CallReturns`, `EligibleGetsTurn`, `RoundEnds`, `EverybodyReturns`,
  `NothingLagsForEver`, `CallsReturn`), which the prover does not reach.
- `TypedHeap`, `RankedSeedOrder`, `SeedEvaluator` and `PrefilterPlan`, whose sift and evaluation
  operators are recursive, so that no theorem may reach them.
- Of `PrefilterIndex` the estimates, of `Traffic` what the status of a run counts.
- The violated properties of the findings, which are false.

## 5. What is not modelled

- Ticket contents other than identity, waiting time, rank field, and what an index or a
  Fact needs of them. Scores and the `fits` relation of `SeedEvaluator` are free choices, so
  the built-in scorers and predicates (`core/candidate_scorer_builtin.go`, `core/evaluation`) are not
  translated; they are pure functions of two tickets' Facts.
- Rule compilation (`core/rule_config.go`, `core/expression`): pure parsing, validation and
  compilation. The part later steps rely on, the lattice of bitmap
  expressions, is in `PrefilterPlan`; that the operands of a query can be bound is a choice there.
- The selectors that look at queue length or waiting time keep no state; they are
  covered by the free choice in `physical_node`.
- The paged views of the simulator, what `buildRuntime` validates of a scenario, what
  the traffic generators draw for an attribute, single HTTP requests: translations
  of one state that change nothing.
- The numeric limits of the Prefilter compiler, and its statistics.
- The desktop updater: a Rust program of its own that shares no state with the match
  system. Its hazard, a crash between two renames, is on the list and first in the plan.
- Metrics, descriptors, deep copies, error wording; the web console, commands and scripts.

## 6. Plan

Modules, in this order:

1. `Updater`: directory swap with crashes, acknowledgement and rollback.
2. `ScenarioBuild`: `buildRuntime` with the resources a failed build has to close again.
3. A composition of `SimulatorHost` with `TicketBatch`, so that an insertion whose caller
   left is an event of the batch model too.

Proofs: the estimates of `PrefilterIndex`, as sums over blocks; and what the status of a
`Traffic` run counts, for which the selected tickets would be a history variable that grows with the log.
