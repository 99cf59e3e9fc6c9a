-------------------------- MODULE LogicalNode_proofs --------------------------
(***************************************************************************)
(* The safety of one partition, for any number of tickets, any budgets and *)
(* any width of the Fact generation.                                       *)
(***************************************************************************)
EXTENDS LogicalNode, FiniteSetTheorems, TLAPS

(* TypeOK, strengthened by where the call stands.                          *)
CallInv ==
  /\ call.pc = "session" => /\ call.attempted = 0
                            /\ attemptedSeeds >= 1

TypeInv == TypeOK /\ CallInv

LEMMA NextSeedType ==
  ASSUME TypeOK, NEW id \in TicketIDs, NextSeed(id)
  PROVE  /\ Stream!StreamTypeOK'
         /\ attemptedSeeds' = attemptedSeeds + 1
         /\ attemptedSeeds' \in 1..RoundLimit
         /\ initialized' = initialized
         /\ initialized' \in BOOLEAN
         /\ captured' = captured
         /\ pool[id] \in 1..MaxTickets
         /\ tried' = tried \cup {pool[id]}
         /\ tried' \subseteq 1..MaxTickets
<1>1. PICK skipped \in SUBSET Stale : Yield(id, skipped)
  BY DEF NextSeed
<1>2. Cardinality(skipped) \in Nat
  BY <1>1, NodeAssumption, FS_Subset, FS_CardinalityType
     DEF Stale, TypeOK, Stream!StreamTypeOK
<1>3. pool[id] \in 1..MaxTickets
  BY DEF NextSeed, LiveIDs, Pool!LiveIDs, TypeOK, Pool!PoolTypeOK
<1>4. Stream!StreamTypeOK'
  BY <1>1, <1>2 DEF Yield, TypeOK, Stream!StreamTypeOK
<1>5. tried' = tried \cup {pool[id]}
  BY DEF NextSeed
<1>6. tried' \subseteq 1..MaxTickets
  BY <1>3, <1>5 DEF TypeOK
<1>7. attemptedSeeds' = attemptedSeeds + 1 /\ attemptedSeeds' \in 1..RoundLimit
  BY NodeAssumption DEF NextSeed, TypeOK
<1>8. UNCHANGED <<initialized, captured>>
  BY DEF NextSeed
<1>9. initialized' \in BOOLEAN
  BY <1>8 DEF TypeOK
<1> QED
  BY <1>3, <1>4, <1>5, <1>6, <1>7, <1>8, <1>9

LEMMA NoSeedType ==
  ASSUME TypeOK, NoSeed
  PROVE  Stream!StreamTypeOK'
<1>1. PICK skipped \in SUBSET Stale : /\ ready' = ready \ skipped
                                      /\ yielded' = yielded + Cardinality(skipped)
  BY DEF NoSeed
<1>2. Cardinality(skipped) \in Nat
  BY <1>1, NodeAssumption, FS_Subset, FS_CardinalityType
     DEF Stale, TypeOK, Stream!StreamTypeOK
<1> QED
  BY <1>1, <1>2 DEF NoSeed, TypeOK, Stream!StreamTypeOK

LEMMA NoCallType == NoCall \in Call /\ NoCall.pc = "idle"
  BY NodeAssumption DEF NoCall, Call

LEMMA TypeInit == Init => TypeInv
<1> SUFFICES ASSUME Init PROVE TypeInv
  OBVIOUS
<1>1. open \in BOOLEAN /\ initialized \in BOOLEAN
  BY Zenon DEF Init, Stream!StreamInit
<1>2. call \in Call /\ CallInv
  BY NoCallType DEF Init, CallInv
<1> QED
  BY <1>1, <1>2, NodeAssumption
     DEF Init, TypeInv, TypeOK, Pool!PoolInit, Stream!StreamInit, Pool!PoolTypeOK,
         Stream!StreamTypeOK

LEMMA TypeStep == TypeInv /\ [Next]_vars => TypeInv'
<1> SUFFICES ASSUME TypeInv, [Next]_vars PROVE TypeInv'
  OBVIOUS
<1> USE NodeAssumption DEF TypeInv, TypeOK, CallInv, Pool!PoolTypeOK, Stream!StreamTypeOK
<1>1. ASSUME NEW id \in TicketIDs, Add(id) PROVE TypeInv'
  BY <1>1 DEF Add, Accepts, Idle, Pool!PoolAdd, Stream!StreamAdd, roundVars
<1>2. ASSUME NEW id \in TicketIDs, Remove(id) PROVE TypeInv'
  <2>1. pool[id] \in 1..MaxTickets
    BY <1>2 DEF Remove, Pool!PoolTake, Pool!LiveIDs
  <2>2. Pool!PoolTypeOK' /\ Stream!StreamTypeOK'
    BY <1>2 DEF Remove, Pool!PoolTake, Stream!StreamRemove
  <2> QED
    BY <1>2, <2>1, <2>2 DEF Remove, roundVars
<1>3. CASE BeginMatchRound
  <2>1. call.pc = "idle"
    BY <1>3, NoCallType DEF BeginMatchRound, Idle
  <2>2. open' \in BOOLEAN /\ initialized' \in BOOLEAN
    BY <1>3, Zenon DEF BeginMatchRound, Stream!StreamBeginRound
  <2>3. Stream!StreamTypeOK'
    BY <1>3, <2>2 DEF BeginMatchRound, Stream!StreamBeginRound
  <2> QED
    BY <1>3, <2>1, <2>2, <2>3 DEF BeginMatchRound, storeVars
<1>4. CASE BeginDrain
  BY <1>4 DEF BeginDrain, storeVars, streamVars, roundVars
<1>5. CASE Stop
  BY <1>5 DEF Stop, storeVars, streamVars, roundVars
<1>6. ASSUME NEW id \in TicketIDs, ProduceReserve(id) PROVE TypeInv'
  <2>1. NextSeed(id)
    BY <1>6 DEF ProduceReserve
  <2>2. /\ Stream!StreamTypeOK'
        /\ attemptedSeeds' \in 1..RoundLimit
        /\ initialized' \in BOOLEAN
        /\ captured' = captured
        /\ pool[id] \in 1..MaxTickets
        /\ tried' \subseteq 1..MaxTickets
    BY <2>1, NextSeedType
  <2>3. factGeneration' \in 0..MaxGeneration
    BY <1>6 DEF ProduceReserve, NextGeneration
  <2>4. call' \in Call /\ call'.attempted = 0
    <3>1. CASE call' = NoCall
      BY <3>1, NoCallType DEF NoCall
    <3>2. CASE call' = [NoCall EXCEPT !.pc = "session", !.seed = pool[id]]
      <4>1. call' = [pc |-> "session", seed |-> pool[id], attempted |-> 0, limit |-> 0]
        BY <3>2 DEF NoCall
      <4> QED
        BY <2>2, <4>1 DEF Call
    <3> QED
      BY <1>6, <3>1, <3>2 DEF ProduceReserve
  <2> QED
    BY <1>6, <2>2, <2>3, <2>4 DEF ProduceReserve, storeVars
<1>7. CASE ProduceSession
  <2> DEFINE remaining == RoundLimit - attemptedSeeds + 1
             x == IF CallLimit > remaining THEN remaining ELSE CallLimit
  <2>1. call' = [call EXCEPT !.pc = "evaluate", !.limit = x]
    BY <1>7 DEF ProduceSession
  <2>2. x \in 0..CallLimit
    OBVIOUS
  <2> HIDE DEF x
  <2>3. call' \in Call /\ call'.pc = "evaluate"
    BY <2>1, <2>2 DEF Call
  <2> QED
    BY <1>7, <2>3 DEF ProduceSession, storeVars, streamVars, roundVars
<1>8. CASE ProduceFail
  BY <1>8, NoCallType DEF ProduceFail, storeVars, streamVars, roundVars
<1>9. CASE ProduceMiss
  <2>u. /\ call.pc = "evaluate"
        /\ UNCHANGED <<pool, allocated, state, factGeneration, delivered, removed>>
    BY <1>9 DEF ProduceMiss, storeVars
  <2>1. ASSUME NEW id \in TicketIDs, NextSeed(id), call.attempted + 1 < call.limit,
               call' = [call EXCEPT !.attempted = @ + 1, !.seed = pool[id]]
        PROVE  TypeInv'
    <3>1. /\ Stream!StreamTypeOK'
          /\ attemptedSeeds' \in 1..RoundLimit
          /\ initialized' \in BOOLEAN
          /\ captured' = captured
          /\ pool[id] \in 1..MaxTickets
          /\ tried' \subseteq 1..MaxTickets
      BY <2>1, NextSeedType
    <3>2. call.attempted + 1 \in 0..RoundLimit
      BY <2>1 DEF Call
    <3>3. call' \in Call /\ call'.pc = "evaluate"
      BY <2>u, <2>1, <3>1, <3>2 DEF Call
    <3> QED
      BY <2>u, <3>1, <3>3
  <2>2. CASE NoSeed /\ call' = NoCall
    <3>1. Stream!StreamTypeOK'
      BY <2>2, NoSeedType
    <3> QED
      BY <2>u, <2>2, <3>1, NoCallType DEF NoSeed, roundVars
  <2>3. CASE call' = NoCall /\ UNCHANGED <<streamVars, roundVars>>
    BY <2>u, <2>3, NoCallType DEF streamVars, roundVars
  <2> QED
    BY <1>9, <2>1, <2>2, <2>3 DEF ProduceMiss
<1>10. ASSUME NEW group \in SUBSET TicketIDs, ProduceMatch(group) PROVE TypeInv'
  <2>1. Refs(group) \subseteq 1..MaxTickets
    BY <1>10 DEF ProduceMatch, LiveIDs, Pool!LiveIDs, Refs
  <2>2. Pool!PoolTypeOK' /\ Stream!StreamTypeOK'
    BY <1>10 DEF ProduceMatch, Pool!PoolTake, Stream!StreamRemove
  <2> QED
    BY <1>10, <2>1, <2>2, NoCallType DEF ProduceMatch, Deliver, roundVars
<1>11. CASE UNCHANGED vars
  BY <1>11 DEF vars, storeVars, streamVars, roundVars
<1> QED
  BY <1>1, <1>2, <1>3, <1>4, <1>5, <1>6, <1>7, <1>8, <1>9, <1>10, <1>11 DEF Next, InCall

(* Every reachable state is well typed: the budgets, the attempt counters  *)
(* and the wrapping Fact generation stay in their ranges.                  *)
THEOREM TypeCorrect == Spec => []TypeOK
<1>1. TypeInv => TypeOK
  BY DEF TypeInv
<1> QED
  BY <1>1, TypeInit, TypeStep, PTL DEF Spec

-------------------------------------------------------------------------------
(* The invariant behind the safety properties.  To the four of them it     *)
(* adds that a live object is named once, that the histories only mention  *)
(* objects allocated already, that no seed waiting in the stream was tried *)
(* in this round, and that a Stopped node is empty.                        *)
ObjectsNamedOnce ==
  /\ \A id \in TicketIDs : pool[id] <= allocated
  /\ \A x, y \in LiveIDs : pool[x] = pool[y] => x = y

TriedInv ==
  /\ tried \subseteq 1..allocated
  /\ captured <= allocated
  /\ \A id \in ready : pool[id] \notin tried
  /\ CapturedStayEligible

StoppedEmpty == state = "Stopped" => LiveIDs = {}

StoreInv == ObjectsNamedOnce /\ TicketsConserved

SafetyInv == StoreInv /\ SeedsMirrorPool /\ TriedInv /\ SeedsNotRepeated /\ StoppedEmpty

(* What a step does to the tickets: it adds one, takes a group out, begins *)
(* a round, reserves a seed, finds none, or leaves them alone.             *)
AddKind(id) ==
  /\ Pool!PoolAdd(id)
  /\ Stream!StreamAdd(id)
  /\ UNCHANGED <<roundVars, delivered, removed>>

TakeKind(ids) ==
  /\ Pool!PoolTake(ids)
  /\ Stream!StreamRemove(ids)
  /\ UNCHANGED roundVars
  /\ \/ delivered' = delivered \cup Refs(ids) /\ UNCHANGED removed
     \/ removed' = removed \cup Refs(ids) /\ UNCHANGED delivered

SeedKind(id) == NextSeed(id) /\ UNCHANGED <<storeVars, delivered, removed>>

NoSeedKind == NoSeed /\ UNCHANGED <<storeVars, delivered, removed>>

QuietKind == UNCHANGED <<storeVars, streamVars, roundVars, delivered, removed>>

LEMMA StepKinds ==
  ASSUME [Next]_vars
  PROVE  \/ \E id \in TicketIDs : AddKind(id) \/ SeedKind(id)
         \/ \E ids \in SUBSET TicketIDs : TakeKind(ids)
         \/ BeginMatchRound
         \/ NoSeedKind
         \/ QuietKind
<1>1. ASSUME NEW id \in TicketIDs, Add(id) PROVE AddKind(id)
  BY <1>1 DEF Add, AddKind
<1>2. ASSUME NEW id \in TicketIDs, Remove(id) PROVE TakeKind({id})
  <2>1. Refs({id}) = {pool[id]}
    BY DEF Refs
  <2> QED
    BY <1>2, <2>1 DEF Remove, TakeKind
<1>3. ASSUME NEW id \in TicketIDs, ProduceReserve(id) PROVE SeedKind(id)
  BY <1>3 DEF ProduceReserve, SeedKind
<1>4. CASE ProduceMiss
  <2>1. UNCHANGED <<storeVars, delivered, removed>>
    BY <1>4 DEF ProduceMiss
  <2>2. \/ \E id \in TicketIDs : NextSeed(id)
        \/ NoSeed
        \/ UNCHANGED <<streamVars, roundVars>>
    BY <1>4 DEF ProduceMiss
  <2> QED
    BY <2>1, <2>2 DEF SeedKind, NoSeedKind, QuietKind
<1>5. ASSUME NEW group \in SUBSET TicketIDs, ProduceMatch(group) PROVE TakeKind(group)
  BY <1>5 DEF ProduceMatch, TakeKind, Deliver
<1>6. CASE BeginDrain \/ Stop \/ ProduceSession \/ ProduceFail \/ UNCHANGED vars
  BY <1>6 DEF BeginDrain, Stop, ProduceSession, ProduceFail, vars, QuietKind
<1> QED
  BY <1>1, <1>2, <1>3, <1>4, <1>5, <1>6 DEF Next, InCall

(* Every ID in the stream is live, so nextSeed never skips a dead one.     *)
LEMMA SeedIsLive ==
  ASSUME TypeOK, SeedsMirrorPool, NEW id \in TicketIDs, NextSeed(id)
  PROVE  /\ id \in ready /\ id \in LiveIDs
         /\ ready' = ready \ {id}
         /\ held' = held \cup {id}
<1>1. PICK skipped \in SUBSET Stale : Yield(id, skipped)
  BY DEF NextSeed
<1>2. skipped = {}
  BY <1>1 DEF Stale, SeedsMirrorPool
<1> QED
  BY <1>1, <1>2 DEF NextSeed, Yield

LEMMA NoSeedKeeps ==
  ASSUME TypeOK, SeedsMirrorPool, NoSeed
  PROVE  UNCHANGED <<ready, held, roundVars>>
<1>1. PICK skipped \in SUBSET Stale : ready' = ready \ skipped
  BY DEF NoSeed
<1>2. skipped = {}
  BY <1>1 DEF Stale, SeedsMirrorPool
<1> QED
  BY <1>1, <1>2 DEF NoSeed

LEMMA StoreStep ==
  ASSUME TypeOK, StoreInv, [Next]_vars
  PROVE  StoreInv'
<1> USE DEF LiveIDs, Pool!LiveIDs, TypeOK, Pool!PoolTypeOK
<1>1. ASSUME NEW id \in TicketIDs, AddKind(id) PROVE StoreInv'
  <2>1. /\ pool[id] = 0
        /\ allocated \in Nat
        /\ allocated' = allocated + 1
        /\ pool' = [pool EXCEPT ![id] = allocated + 1]
        /\ UNCHANGED <<delivered, removed>>
    BY <1>1 DEF AddKind, Pool!PoolAdd
  <2>2. LiveIDs' = LiveIDs \cup {id}
    BY <2>1
  <2>3. ObjectsNamedOnce'
    BY <2>1, <2>2 DEF StoreInv, ObjectsNamedOnce
  <2>4. LiveRefs' = LiveRefs \cup {allocated + 1}
    BY <2>1, <2>2 DEF LiveRefs, Refs
  <2>5. 1..allocated' = (1..allocated) \cup {allocated + 1}
    BY <2>1
  <2>6. TicketsConserved'
    BY <2>1, <2>4, <2>5 DEF StoreInv, TicketsConserved
  <2> QED
    BY <2>3, <2>6 DEF StoreInv
<1>2. ASSUME NEW ids \in SUBSET TicketIDs, TakeKind(ids) PROVE StoreInv'
  <2>1. /\ ids \subseteq LiveIDs
        /\ pool' = [id \in TicketIDs |-> IF id \in ids THEN 0 ELSE pool[id]]
        /\ allocated' = allocated /\ allocated \in Nat
    BY <1>2 DEF TakeKind, Pool!PoolTake
  <2>2. LiveIDs' = LiveIDs \ ids
    BY <2>1
  <2>3. ObjectsNamedOnce'
    BY <2>1, <2>2 DEF StoreInv, ObjectsNamedOnce
  <2>4. LiveRefs' = LiveRefs \ Refs(ids)
    BY <2>1, <2>2 DEF LiveRefs, Refs, StoreInv, ObjectsNamedOnce
  <2>5. Refs(ids) \subseteq LiveRefs
    BY <2>1 DEF LiveRefs, Refs
  <2>6. TicketsConserved'
    BY <1>2, <2>1, <2>4, <2>5 DEF TakeKind, StoreInv, TicketsConserved
  <2> QED
    BY <2>3, <2>6 DEF StoreInv
<1>3. ASSUME UNCHANGED <<storeVars, delivered, removed>> PROVE StoreInv'
  BY <1>3 DEF storeVars, StoreInv, ObjectsNamedOnce, TicketsConserved, LiveRefs, Refs
<1> QED
  BY <1>1, <1>2, <1>3, StepKinds DEF SeedKind, NoSeedKind, QuietKind, BeginMatchRound

LEMMA MirrorStep ==
  ASSUME TypeOK, SeedsMirrorPool, [Next]_vars
  PROVE  SeedsMirrorPool'
<1> USE DEF LiveIDs, Pool!LiveIDs, TypeOK, Pool!PoolTypeOK, Stream!StreamTypeOK
<1>1. ASSUME NEW id \in TicketIDs, AddKind(id) PROVE SeedsMirrorPool'
  <2>1. LiveIDs' = LiveIDs \cup {id} /\ id \notin LiveIDs
    BY <1>1 DEF AddKind, Pool!PoolAdd
  <2> QED
    BY <1>1, <2>1 DEF AddKind, Stream!StreamAdd, SeedsMirrorPool
<1>2. ASSUME NEW ids \in SUBSET TicketIDs, TakeKind(ids) PROVE SeedsMirrorPool'
  <2>1. LiveIDs' = LiveIDs \ ids
    BY <1>2 DEF TakeKind, Pool!PoolTake
  <2> QED
    BY <1>2, <2>1 DEF TakeKind, Stream!StreamRemove, SeedsMirrorPool
<1>3. ASSUME NEW id \in TicketIDs, SeedKind(id) PROVE SeedsMirrorPool'
  <2>1. LiveIDs' = LiveIDs
    BY <1>3 DEF SeedKind, storeVars
  <2> QED
    BY <1>3, <2>1, SeedIsLive DEF SeedKind, SeedsMirrorPool
<1>4. CASE BeginMatchRound
  <2>1. LiveIDs' = LiveIDs
    BY <1>4 DEF BeginMatchRound, storeVars
  <2> QED
    BY <1>4, <2>1 DEF BeginMatchRound, Stream!StreamBeginRound, SeedsMirrorPool
<1>5. CASE NoSeedKind
  <2>1. LiveIDs' = LiveIDs
    BY <1>5 DEF NoSeedKind, storeVars
  <2> QED
    BY <1>5, <2>1, NoSeedKeeps DEF NoSeedKind, SeedsMirrorPool
<1>6. CASE QuietKind
  BY <1>6 DEF QuietKind, storeVars, streamVars, SeedsMirrorPool
<1> QED
  BY <1>1, <1>2, <1>3, <1>4, <1>5, <1>6, StepKinds

LEMMA TriedStep ==
  ASSUME TypeOK, ObjectsNamedOnce, SeedsMirrorPool, TriedInv, [Next]_vars
  PROVE  TriedInv'
<1> USE DEF LiveIDs, Pool!LiveIDs, TypeOK, Pool!PoolTypeOK, Stream!StreamTypeOK
<1>1. ASSUME NEW id \in TicketIDs, AddKind(id) PROVE TriedInv'
  <2>1. /\ allocated' = allocated + 1 /\ allocated \in Nat
        /\ pool' = [pool EXCEPT ![id] = allocated + 1]
        /\ LiveIDs' = LiveIDs \cup {id} /\ id \notin LiveIDs
        /\ UNCHANGED <<tried, captured, initialized>>
        /\ \A x \in TicketIDs : x # id => (x \in ready' <=> x \in ready)
    BY <1>1 DEF AddKind, Pool!PoolAdd, Stream!StreamAdd, roundVars
  <2>2. allocated + 1 \notin tried /\ ~(allocated + 1 <= captured)
    BY <2>1 DEF TriedInv
  <2>3. tried' \subseteq 1..allocated' /\ captured' <= allocated'
    BY <2>1 DEF TriedInv
  <2>4. ready' \subseteq TicketIDs
    BY <1>1 DEF AddKind, Stream!StreamAdd
  <2>5. \A x \in ready' : pool'[x] \notin tried'
    BY <2>1, <2>2, <2>4 DEF TriedInv
  <2>6. CapturedStayEligible'
    BY <2>1, <2>2 DEF TriedInv, CapturedStayEligible
  <2> QED
    BY <2>3, <2>5, <2>6 DEF TriedInv
<1>2. ASSUME NEW ids \in SUBSET TicketIDs, TakeKind(ids) PROVE TriedInv'
  <2>1. /\ pool' = [id \in TicketIDs |-> IF id \in ids THEN 0 ELSE pool[id]]
        /\ allocated' = allocated
        /\ LiveIDs' = LiveIDs \ ids
        /\ ready' = ready \ ids
        /\ UNCHANGED <<tried, captured, initialized>>
    BY <1>2 DEF TakeKind, Pool!PoolTake, Stream!StreamRemove, roundVars
  <2> QED
    BY <2>1 DEF TriedInv, CapturedStayEligible
<1>3. ASSUME NEW id \in TicketIDs, SeedKind(id) PROVE TriedInv'
  <2>1. /\ UNCHANGED <<pool, allocated, captured, initialized>>
        /\ id \in LiveIDs
        /\ ready' = ready \ {id}
        /\ tried' = tried \cup {pool[id]}
    BY <1>3, SeedIsLive DEF SeedKind, storeVars, NextSeed
  <2>2. pool[id] \in 1..allocated
    BY <2>1 DEF ObjectsNamedOnce
  <2>3. \A x \in LiveIDs : x # id => pool[x] # pool[id]
    BY <2>1 DEF ObjectsNamedOnce
  <2>4. \A x \in ready' : pool'[x] \notin tried'
    BY <2>1, <2>3 DEF TriedInv, SeedsMirrorPool
  <2>5. CapturedStayEligible'
    BY <2>1, <2>3 DEF TriedInv, CapturedStayEligible
  <2> QED
    BY <2>1, <2>2, <2>4, <2>5 DEF TriedInv
<1>4. CASE BeginMatchRound
  <2>1. /\ UNCHANGED <<pool, allocated>>
        /\ ready' = LiveIDs
        /\ tried' = {}
        /\ captured' = allocated
    BY <1>4 DEF BeginMatchRound, Stream!StreamBeginRound, storeVars, SeedsMirrorPool
  <2> QED
    BY <2>1 DEF TriedInv, CapturedStayEligible
<1>5. CASE NoSeedKind
  <2>1. UNCHANGED <<pool, allocated, ready, tried, captured, initialized>>
    BY <1>5, NoSeedKeeps DEF NoSeedKind, storeVars, roundVars
  <2> QED
    BY <2>1 DEF TriedInv, CapturedStayEligible
<1>6. CASE QuietKind
  BY <1>6 DEF QuietKind, storeVars, streamVars, roundVars, TriedInv, CapturedStayEligible
<1> QED
  BY <1>1, <1>2, <1>3, <1>4, <1>5, <1>6, StepKinds

(* A reserved seed is a new member of tried, so the counter follows.       *)
LEMMA SeedCounted ==
  ASSUME TypeOK, SeedsMirrorPool, TriedInv, NEW id \in TicketIDs, NextSeed(id),
         attemptedSeeds = Cardinality(tried)
  PROVE  attemptedSeeds' = Cardinality(tried')
<1>1. pool[id] \notin tried
  BY SeedIsLive DEF TriedInv
<1>2. IsFiniteSet(tried)
  <2>1. IsFiniteSet(1..MaxTickets)
    BY NodeAssumption, FS_Interval
  <2> QED
    BY <2>1, FS_Subset DEF TypeOK
<1>3. Cardinality(tried \cup {pool[id]}) = Cardinality(tried) + 1
  BY <1>1, <1>2, FS_AddElement
<1> QED
  BY <1>3 DEF NextSeed

LEMMA BudgetStep ==
  ASSUME TypeInv, SeedsMirrorPool, TriedInv, SeedsNotRepeated, [Next]_vars
  PROVE  SeedsNotRepeated'
<1> USE NodeAssumption DEF TypeInv, TypeOK
<1>u. TypeOK'
  BY TypeStep
<1>0. NoCall.pc = "idle"
  BY NoCallType
<1>1. ASSUME UNCHANGED roundVars, call' = call \/ call' = NoCall PROVE SeedsNotRepeated'
  BY <1>0, <1>1 DEF roundVars, SeedsNotRepeated
<1>2. CASE BeginMatchRound
  <2>1. attemptedSeeds' = 0 /\ tried' = {} /\ call'.pc = "idle"
    BY <1>0, <1>2 DEF BeginMatchRound, Idle
  <2> QED
    BY <2>1, FS_EmptySet DEF SeedsNotRepeated
<1>3. ASSUME NEW id \in TicketIDs, ProduceReserve(id) PROVE SeedsNotRepeated'
  <2>1. NextSeed(id) /\ call'.pc # "evaluate"
    BY <1>0, <1>3 DEF ProduceReserve, NoCall
  <2>2. attemptedSeeds' = Cardinality(tried')
    BY <2>1, SeedCounted DEF SeedsNotRepeated
  <2>3. attemptedSeeds' <= RoundLimit
    BY <1>u
  <2> QED
    BY <2>1, <2>2, <2>3 DEF SeedsNotRepeated
<1>4. CASE ProduceSession
  <2>1. call.attempted = 0 /\ attemptedSeeds >= 1
    BY <1>4 DEF ProduceSession, CallInv
  <2> DEFINE remaining == RoundLimit - attemptedSeeds + 1
             x == IF CallLimit > remaining THEN remaining ELSE CallLimit
  <2>2. call' = [call EXCEPT !.pc = "evaluate", !.limit = x]
    BY <1>4 DEF ProduceSession
  <2>3. x >= 1
    OBVIOUS
  <2> HIDE DEF x
  <2>4. call'.attempted = 0 /\ call'.limit = x
    BY <2>1, <2>2 DEF Call
  <2> QED
    BY <1>4, <2>1, <2>3, <2>4 DEF ProduceSession, roundVars, SeedsNotRepeated
<1>5. CASE ProduceMiss
  <2>1. call.pc = "evaluate"
    BY <1>5 DEF ProduceMiss
  <2>2. ASSUME NEW id \in TicketIDs, NextSeed(id), call.attempted + 1 < call.limit,
               call' = [call EXCEPT !.attempted = @ + 1, !.seed = pool[id]]
        PROVE  SeedsNotRepeated'
    <3>1. attemptedSeeds' = Cardinality(tried')
      BY <2>2, SeedCounted DEF SeedsNotRepeated
    <3>2. attemptedSeeds' = attemptedSeeds + 1
      BY <2>2 DEF NextSeed
    <3>3. call'.attempted = call.attempted + 1 /\ call'.limit = call.limit
      BY <2>2 DEF Call
    <3>4. attemptedSeeds' <= RoundLimit
      BY <1>u
    <3>5. call.attempted \in Nat /\ call.attempted < attemptedSeeds
      BY <2>1 DEF SeedsNotRepeated, Call
    <3> QED
      BY <2>2, <3>1, <3>2, <3>3, <3>4, <3>5 DEF SeedsNotRepeated
  <2>3. CASE NoSeed /\ call' = NoCall
    BY <1>1, <2>3, NoSeedKeeps
  <2>4. CASE call' = NoCall /\ UNCHANGED <<streamVars, roundVars>>
    BY <1>1, <2>4
  <2> QED
    BY <1>5, <2>2, <2>3, <2>4 DEF ProduceMiss
<1>6. ASSUME NEW id \in TicketIDs, Add(id) \/ Remove(id) PROVE SeedsNotRepeated'
  BY <1>1, <1>6 DEF Add, Remove
<1>7. CASE BeginDrain \/ Stop \/ ProduceFail
  BY <1>1, <1>7 DEF BeginDrain, Stop, ProduceFail
<1>8. ASSUME NEW group \in SUBSET TicketIDs, ProduceMatch(group) PROVE SeedsNotRepeated'
  BY <1>1, <1>8 DEF ProduceMatch
<1>9. CASE UNCHANGED vars
  BY <1>1, <1>9 DEF vars
<1> QED
  BY <1>2, <1>3, <1>4, <1>5, <1>6, <1>7, <1>8, <1>9 DEF Next, InCall

LEMMA StoppedStep ==
  ASSUME TypeOK, StoppedEmpty, [Next]_vars
  PROVE  StoppedEmpty'
<1> USE DEF LiveIDs, Pool!LiveIDs
<1>1. ASSUME NEW id \in TicketIDs, Add(id) PROVE StoppedEmpty'
  BY <1>1 DEF Add, Accepts, StoppedEmpty
<1>2. CASE BeginDrain
  BY <1>2 DEF BeginDrain, StoppedEmpty
<1>3. CASE Stop
  BY <1>3 DEF Stop, storeVars, StoppedEmpty
<1>4. ASSUME UNCHANGED <<pool, state>> PROVE StoppedEmpty'
  BY <1>4 DEF StoppedEmpty
<1>5. ASSUME NEW id \in TicketIDs, Remove(id) PROVE StoppedEmpty'
  BY <1>5 DEF Remove, Pool!PoolTake, StoppedEmpty
<1>6. ASSUME NEW group \in SUBSET TicketIDs, ProduceMatch(group) PROVE StoppedEmpty'
  BY <1>6 DEF ProduceMatch, Pool!PoolTake, StoppedEmpty
<1>7. CASE BeginMatchRound
  BY <1>4, <1>7 DEF BeginMatchRound, storeVars
<1>8. ASSUME NEW id \in TicketIDs, ProduceReserve(id) PROVE StoppedEmpty'
  BY <1>4, <1>8 DEF ProduceReserve, storeVars
<1>9. CASE ProduceSession \/ ProduceFail \/ UNCHANGED vars
  BY <1>4, <1>9 DEF ProduceSession, ProduceFail, vars, storeVars
<1>10. CASE ProduceMiss
  BY <1>4, <1>10 DEF ProduceMiss, storeVars
<1> QED
  BY <1>1, <1>2, <1>3, <1>5, <1>6, <1>7, <1>8, <1>9, <1>10 DEF Next, InCall

LEMMA SafetyInit == Init => SafetyInv
<1> SUFFICES ASSUME Init PROVE SafetyInv
  OBVIOUS
<1>1. /\ pool = [id \in TicketIDs |-> 0] /\ allocated = 0
      /\ ready = {} /\ held = {}
      /\ tried = {} /\ captured = 0 /\ attemptedSeeds = 0
      /\ delivered = {} /\ removed = {}
      /\ call.pc = "idle"
  BY NoCallType DEF Init, Pool!PoolInit, Stream!StreamInit
<1>2. LiveIDs = {} /\ LiveRefs = {} /\ 1..allocated = {}
  BY <1>1 DEF LiveIDs, Pool!LiveIDs, LiveRefs, Refs
<1>3. StoreInv /\ SeedsMirrorPool /\ TriedInv /\ StoppedEmpty
  BY <1>1, <1>2 DEF StoreInv, ObjectsNamedOnce, TicketsConserved, SeedsMirrorPool, TriedInv,
                    CapturedStayEligible, StoppedEmpty
<1>4. SeedsNotRepeated
  BY <1>1, FS_EmptySet, NodeAssumption DEF SeedsNotRepeated
<1> QED
  BY <1>3, <1>4 DEF SafetyInv

(* The invariant holds in every reachable state.                           *)
THEOREM Safety == Spec => [](TypeInv /\ SafetyInv)
<1>1. Init => TypeInv /\ SafetyInv
  BY TypeInit, SafetyInit
<1>2. TypeInv /\ SafetyInv /\ [Next]_vars => (TypeInv /\ SafetyInv)'
  BY TypeStep, StoreStep, MirrorStep, TriedStep, BudgetStep, StoppedStep
     DEF TypeInv, SafetyInv, StoreInv
<1> QED
  BY <1>1, <1>2, PTL DEF Spec

(* The seed runtime and the store never disagree on which tickets wait.    *)
THEOREM SeedsMirror == Spec => []SeedsMirrorPool
<1>1. SafetyInv => SeedsMirrorPool
  BY DEF SafetyInv
<1> QED
  BY <1>1, Safety, PTL

(* No accepted ticket is ever lost or in two matches, whatever fails.      *)
THEOREM Conservation == Spec => []TicketsConserved
<1>1. SafetyInv => TicketsConserved
  BY DEF SafetyInv, StoreInv
<1> QED
  BY <1>1, Safety, PTL

(* No round reserves a ticket twice or exceeds its budget.                 *)
THEOREM NoRepeat == Spec => []SeedsNotRepeated
<1>1. SafetyInv => SeedsNotRepeated
  BY DEF SafetyInv
<1> QED
  BY <1>1, Safety, PTL

(* A captured ticket stays eligible until it is tried or gone.             *)
THEOREM Eligibility == Spec => []CapturedStayEligible
<1>1. SafetyInv => CapturedStayEligible
  BY DEF SafetyInv, TriedInv
<1> QED
  BY <1>1, Safety, PTL

(* A node that left Ready accepts nothing more and stops only when empty.  *)
THEOREM Draining == Spec => DrainIsFinal
<1> DEFINE Drained == state # "Ready" => /\ state' # "Ready"
                                         /\ allocated' = allocated
                                         /\ state' = "Stopped" => \A id \in TicketIDs : pool'[id] = 0
<1>1. TypeOK /\ StoppedEmpty /\ StoppedEmpty' /\ [Next]_vars => [Drained]_vars
  <2> SUFFICES ASSUME TypeOK, StoppedEmpty', [Next]_vars, state # "Ready" PROVE Drained
    OBVIOUS
  <2>1. state' = "Stopped" => \A id \in TicketIDs : pool'[id] = 0
    BY DEF StoppedEmpty, LiveIDs, Pool!LiveIDs
  <2>2. state' # "Ready" /\ allocated' = allocated
    BY DEF Next, InCall, vars, storeVars, Add, Accepts, Remove, BeginMatchRound, BeginDrain, Stop,
           ProduceReserve, ProduceSession, ProduceFail, ProduceMiss, ProduceMatch, Pool!PoolTake
  <2> QED
    BY <2>1, <2>2
<1>2. TypeInv /\ SafetyInv => TypeOK /\ StoppedEmpty
  BY DEF TypeInv, SafetyInv
<1> QED
  BY <1>1, <1>2, Safety, PTL DEF Spec, DrainIsFinal

-------------------------------------------------------------------------------
(* The refinement of PartitionView.                                        *)

(* The stream is open exactly when a round has begun, and only a node with *)
(* a round runs a ProduceMatch: what PartitionView takes for granted.      *)
RoundInv ==
  /\ open = initialized
  /\ call.pc # "idle" => initialized

LEMMA RoundStep ==
  ASSUME TypeInv, RoundInv, [Next]_vars
  PROVE  RoundInv'
<1>0. NoCall.pc = "idle"
  BY NoCallType
<1>1. ASSUME NEW id \in TicketIDs, Add(id) PROVE RoundInv'
  BY <1>1 DEF Add, Stream!StreamAdd, roundVars, RoundInv
<1>2. ASSUME NEW id \in TicketIDs, Remove(id) PROVE RoundInv'
  BY <1>2 DEF Remove, Stream!StreamRemove, roundVars, RoundInv
<1>3. CASE BeginMatchRound
  BY <1>3 DEF BeginMatchRound, Stream!StreamBeginRound, RoundInv
<1>4. CASE BeginDrain \/ Stop \/ UNCHANGED vars
  BY <1>4 DEF BeginDrain, Stop, vars, streamVars, roundVars, RoundInv
<1>5. ASSUME NEW id \in TicketIDs, ProduceReserve(id) PROVE RoundInv'
  <2>1. open' = open /\ initialized' = initialized /\ initialized
    BY <1>5 DEF ProduceReserve, NextSeed, Yield
  <2> QED
    BY <2>1 DEF RoundInv
<1>6. CASE ProduceSession
  <2>1. call.pc = "session" /\ UNCHANGED <<open, initialized>>
    BY <1>6 DEF ProduceSession, streamVars, roundVars
  <2> QED
    BY <2>1 DEF RoundInv
<1>7. CASE ProduceFail
  BY <1>0, <1>7 DEF ProduceFail, streamVars, roundVars, RoundInv
<1>8. CASE ProduceMiss
  <2>1. call.pc = "evaluate" /\ initialized' = initialized
    BY <1>8 DEF ProduceMiss, NextSeed, NoSeed, roundVars
  <2>2. open' = open
    BY <1>8 DEF ProduceMiss, NextSeed, Yield, NoSeed, streamVars
  <2> QED
    BY <2>1, <2>2 DEF RoundInv
<1>9. ASSUME NEW group \in SUBSET TicketIDs, ProduceMatch(group) PROVE RoundInv'
  BY <1>0, <1>9 DEF ProduceMatch, Stream!StreamRemove, roundVars, RoundInv
<1> QED
  BY <1>1, <1>2, <1>3, <1>4, <1>5, <1>6, <1>7, <1>8, <1>9 DEF Next, InCall

LEMMA RoundBegun == Spec => []RoundInv
<1>1. Init => RoundInv
  BY NoCallType DEF Init, Stream!StreamInit, RoundInv
<1>2. TypeInv /\ RoundInv /\ [Next]_vars => RoundInv'
  BY RoundStep
<1> QED
  BY <1>1, <1>2, Safety, PTL DEF Spec

-------------------------------------------------------------------------------
ViewOf(s, begun, w, r, b) ==
  [state |-> s, begun |-> begun, waiting |-> w, ready |-> r, budget |-> b]

(* Updates of a view, under names the provers can match.                   *)
Counts(v, w, r) == [v EXCEPT !.waiting = w, !.ready = r]
Charged(v, r, b) == [v EXCEPT !.ready = r, !.budget = b]

LEMMA ViewParts ==
  ASSUME NEW s, NEW begun, NEW w, NEW r, NEW b, NEW v, v = ViewOf(s, begun, w, r, b)
  PROVE  v.state = s /\ v.begun = begun /\ v.waiting = w /\ v.ready = r /\ v.budget = b
  BY DEF ViewOf

LEMMA ViewCounts ==
  ASSUME NEW s, NEW begun, NEW w, NEW r, NEW b, NEW v, v = ViewOf(s, begun, w, r, b),
         NEW w2, NEW r2
  PROVE  Counts(v, w2, r2) = ViewOf(s, begun, w2, r2, b)
<1> DEFINE u == [v EXCEPT !.waiting = w2]
<1>1. u = ViewOf(s, begun, w2, r, b)
  BY DEF ViewOf
<1>2. [v EXCEPT !.waiting = w2, !.ready = r2] = [u EXCEPT !.ready = r2]
  OBVIOUS
<1> HIDE DEF u
<1>3. [u EXCEPT !.ready = r2] = ViewOf(s, begun, w2, r2, b)
  BY <1>1 DEF ViewOf
<1> QED
  BY <1>2, <1>3 DEF Counts

LEMMA ViewCharged ==
  ASSUME NEW s, NEW begun, NEW w, NEW r, NEW b, NEW v, v = ViewOf(s, begun, w, r, b),
         NEW r2, NEW b2
  PROVE  Charged(v, r2, b2) = ViewOf(s, begun, w, r2, b2)
<1> DEFINE u == [v EXCEPT !.ready = r2]
<1>1. u = ViewOf(s, begun, w, r2, b)
  BY DEF ViewOf
<1>2. [v EXCEPT !.ready = r2, !.budget = b2] = [u EXCEPT !.budget = b2]
  OBVIOUS
<1> HIDE DEF u
<1>3. [u EXCEPT !.budget = b2] = ViewOf(s, begun, w, r2, b2)
  BY <1>1 DEF ViewOf
<1> QED
  BY <1>2, <1>3 DEF Charged

(* The steps of PartitionView on a view given by its parts.                *)
LEMMA AddedView ==
  ASSUME NEW begun \in BOOLEAN, NEW w \in Nat, NEW r \in Nat, NEW b,
         w < Cardinality(TicketIDs), NEW extra \in {0, 1}, begun \/ extra = 0
  PROVE  ViewOf("Ready", begun, w + 1, r + extra, b)
           \in Observed!Steps(ViewOf("Ready", begun, w, r, b))
<1>1. PICK v : v = ViewOf("Ready", begun, w, r, b)
  OBVIOUS
<1>2. v.state = "Ready" /\ v.begun = begun /\ v.waiting = w /\ v.ready = r
  BY <1>1, ViewParts
<1>3. extra \in IF v.begun THEN {0, 1} ELSE {0}
  BY <1>2
<1>4. Counts(v, w + 1, r + extra) = ViewOf("Ready", begun, w + 1, r + extra, b)
  BY <1>1, ViewCounts
<1>5. PICK y : y = Counts(v, w + 1, r + extra)
  OBVIOUS
<1>6. y = [v EXCEPT !.waiting = v.waiting + 1, !.ready = v.ready + extra]
  BY <1>2, <1>5 DEF Counts
<1>7. y \in Observed!Added(v)
  BY <1>2, <1>3, <1>6 DEF Observed!Added
<1> QED
  BY <1>1, <1>4, <1>5, <1>7, Zenon DEF Observed!Steps

LEMMA WithoutView ==
  ASSUME NEW s, NEW begun, NEW w \in Nat, NEW r \in Nat, NEW b,
         NEW n \in Nat, NEW k \in Nat, n <= w, k <= n, k <= r, r - k <= w - n
  PROVE  ViewOf(s, begun, w - n, r - k, b) \in Observed!Without(ViewOf(s, begun, w, r, b), n)
<1>1. PICK v : v = ViewOf(s, begun, w, r, b)
  OBVIOUS
<1>2. PICK x : x = ViewOf(s, begun, w - n, r - k, b)
  OBVIOUS
<1>3. v.waiting = w /\ v.ready = r /\ x.waiting = w - n /\ x.ready = r - k
  BY <1>1, <1>2, ViewParts
<1>4. k \in 0..(IF n < v.ready THEN n ELSE v.ready)
  BY <1>3
<1>5. x = Counts(v, w - n, r - k)
  BY <1>1, <1>2, ViewCounts
<1>6. x = [v EXCEPT !.waiting = v.waiting - n, !.ready = v.ready - k]
  BY <1>3, <1>5 DEF Counts
<1>7. ~(n > v.waiting) /\ x.ready <= x.waiting
  BY <1>3
<1>8. x \in Observed!Without(v, n)
  BY <1>4, <1>6, <1>7, Zenon DEF Observed!Without
<1> QED
  BY <1>1, <1>2, <1>8, Zenon

LEMMA ReservedView ==
  ASSUME NEW s \in {"Ready", "Draining"}, NEW w \in Nat \ {0}, NEW r \in Nat \ {0},
         NEW b \in Nat \ {0}
  PROVE  ViewOf(s, TRUE, w, r - 1, b - 1) \in Observed!Steps(ViewOf(s, TRUE, w, r, b))
<1>1. PICK begun : begun = TRUE
  OBVIOUS
<1>2. PICK v : v = ViewOf(s, begun, w, r, b)
  OBVIOUS
<1>3. v.state = s /\ v.begun = begun /\ v.waiting = w /\ v.ready = r /\ v.budget = b
  BY <1>2, ViewParts
<1>4. Observed!Eligible(v)
  BY <1>1, <1>3 DEF Observed!Eligible, Observed!Runnable, Observed!HasUntriedSeed
<1>5. Charged(v, r - 1, b - 1) = ViewOf(s, begun, w, r - 1, b - 1)
  BY <1>2, ViewCharged
<1>6. Charged(v, r - 1, b - 1) = Observed!Reserved(v, 1)
  BY <1>3 DEF Charged, Observed!Reserved
<1> QED
  BY <1>1, <1>2, <1>4, <1>5, <1>6, Zenon DEF Observed!Steps

LEMMA BegunView ==
  ASSUME NEW s, NEW begun, NEW w, NEW r, NEW b
  PROVE  ViewOf(s, TRUE, w, w, RoundLimit) \in Observed!Steps(ViewOf(s, begun, w, r, b))
<1>1. PICK v : v = ViewOf(s, begun, w, r, b)
  OBVIOUS
<1>2. PICK yes : yes = TRUE
  OBVIOUS
<1>3. PICK u : u = [v EXCEPT !.begun = yes]
  OBVIOUS
<1>4. u = ViewOf(s, yes, w, r, b)
  BY <1>1, <1>3 DEF ViewOf
<1>5. v.waiting = w
  BY <1>1, ViewParts
<1>6. Observed!Begun(v) = Charged(u, w, RoundLimit)
  BY <1>2, <1>3, <1>5 DEF Observed!Begun, Charged
<1>7. Charged(u, w, RoundLimit) = ViewOf(s, yes, w, w, RoundLimit)
  BY <1>4, ViewCharged
<1> QED
  BY <1>1, <1>2, <1>6, <1>7, Zenon DEF Observed!Steps

LEMMA StateView ==
  ASSUME NEW s, NEW begun, NEW w, NEW r, NEW b
  PROVE  /\ s # "Stopped" =>
              ViewOf("Draining", begun, w, r, b) \in Observed!Steps(ViewOf(s, begun, w, r, b))
         /\ w = 0 =>
              ViewOf("Stopped", begun, w, r, b) \in Observed!Steps(ViewOf(s, begun, w, r, b))
<1>1. PICK v : v = ViewOf(s, begun, w, r, b)
  OBVIOUS
<1>2. PICK d, e : d = [v EXCEPT !.state = "Draining"] /\ e = [v EXCEPT !.state = "Stopped"]
  OBVIOUS
<1>3. d = ViewOf("Draining", begun, w, r, b) /\ e = ViewOf("Stopped", begun, w, r, b)
  BY <1>1, <1>2 DEF ViewOf
<1>4. v.state = s /\ v.waiting = w
  BY <1>1, ViewParts
<1>5. s # "Stopped" => d \in Observed!Steps(v)
  BY <1>2, <1>4, Zenon DEF Observed!Steps, Observed!Drained
<1>6. w = 0 => e \in Observed!Steps(v)
  BY <1>2, <1>4, Zenon DEF Observed!Steps
<1> QED
  BY <1>1, <1>3, <1>5, <1>6, Zenon

(* nodeView by its parts, whose counts are those of finite sets.           *)
Waiting == Cardinality(LiveIDs)
Seeds == IF open THEN Cardinality(ready) ELSE 0
Budget == IF initialized THEN RoundLimit - attemptedSeeds ELSE 0

LEMMA CountsFinite ==
  ASSUME TypeOK, SeedsMirrorPool
  PROVE  /\ IsFiniteSet(LiveIDs) /\ IsFiniteSet(ready) /\ ready \subseteq LiveIDs
         /\ Waiting \in Nat /\ Seeds \in Nat /\ Seeds <= Waiting
         /\ Cardinality(ready) \in Nat
<1>1. LiveIDs \in SUBSET TicketIDs /\ ready \in SUBSET LiveIDs
  BY DEF LiveIDs, Pool!LiveIDs, SeedsMirrorPool
<1>2. IsFiniteSet(LiveIDs)
  BY <1>1, NodeAssumption, FS_Subset
<1>3. IsFiniteSet(ready) /\ Cardinality(ready) <= Cardinality(LiveIDs)
  BY <1>1, <1>2, FS_Subset
<1> QED
  BY <1>1, <1>2, <1>3, FS_CardinalityType DEF Waiting, Seeds

(* One ticket more: in an open round it may be a seed at once.             *)
LEMMA AddedCounts ==
  ASSUME TypeOK, SeedsMirrorPool, NEW id \in TicketIDs, Add(id)
  PROVE  /\ Waiting' = Waiting + 1 /\ Waiting < Cardinality(TicketIDs)
         /\ \E extra \in {0, 1} : Seeds' = Seeds + extra /\ (open \/ extra = 0)
<1>1. LiveIDs' = LiveIDs \cup {id} /\ id \notin LiveIDs /\ open' = open
  BY DEF Add, Pool!PoolAdd, Stream!StreamAdd, LiveIDs, Pool!LiveIDs, TypeOK, Pool!PoolTypeOK
<1>2. /\ IsFiniteSet(LiveIDs) /\ IsFiniteSet(ready) /\ id \notin ready
      /\ Waiting \in Nat /\ Cardinality(ready) \in Nat
  BY <1>1, CountsFinite
<1>3. Cardinality(LiveIDs \cup {id}) = Cardinality(LiveIDs) + 1
  BY <1>1, <1>2, FS_AddElement
<1>4. Waiting < Cardinality(TicketIDs)
  <2>1. LiveIDs \in SUBSET TicketIDs /\ LiveIDs # TicketIDs
    BY <1>1 DEF LiveIDs, Pool!LiveIDs
  <2>2. Cardinality(LiveIDs) <= Cardinality(TicketIDs)
        /\ Cardinality(TicketIDs) # Cardinality(LiveIDs)
    BY <2>1, NodeAssumption, FS_Subset
  <2> QED
    BY <1>2, <2>2, NodeAssumption, FS_CardinalityType DEF Waiting
<1>5. ready' = ready \/ ready' = ready \cup {id}
  BY <1>2 DEF Add, Stream!StreamAdd
<1>6. Cardinality(ready \cup {id}) = Cardinality(ready) + 1
  BY <1>2, FS_AddElement
<1>7. \E extra \in {0, 1} : Seeds' = Seeds + extra /\ (open \/ extra = 0)
  <2>1. CASE ready' = ready
    <3>1. Seeds' = Seeds + 0
      BY <1>1, <1>2, <2>1 DEF Seeds
    <3> QED
      BY <3>1
  <2>2. CASE ready' = ready \cup {id} /\ open
    <3>1. Seeds' = Seeds + 1
      BY <1>1, <1>6, <2>2 DEF Seeds
    <3> QED
      BY <2>2, <3>1
  <2>3. CASE ~open
    <3>1. Seeds' = Seeds + 0
      BY <1>1, <2>3 DEF Seeds
    <3> QED
      BY <3>1
  <2> QED
    BY <1>5, <2>1, <2>2, <2>3
<1> QED
  BY <1>1, <1>3, <1>4, <1>7 DEF Waiting

(* A group leaves, and with it the seeds among its members.                *)
LEMMA TakenCounts ==
  ASSUME TypeOK, SeedsMirrorPool, NEW ids \in SUBSET TicketIDs,
         Pool!PoolTake(ids), Stream!StreamRemove(ids)
  PROVE  \E n, k \in Nat :
           /\ n = Cardinality(ids) /\ n >= 1 /\ n <= Waiting
           /\ k <= n /\ k <= Seeds /\ Seeds - k <= Waiting - n
           /\ Waiting' = Waiting - n /\ Seeds' = Seeds - k
<1>1. /\ ids \in SUBSET LiveIDs /\ ids # {} /\ LiveIDs' = LiveIDs \ ids
      /\ ready' = ready \ ids /\ open' = open
  BY DEF Pool!PoolTake, Stream!StreamRemove, LiveIDs, Pool!LiveIDs, TypeOK, Pool!PoolTypeOK
<1>2. /\ IsFiniteSet(LiveIDs) /\ IsFiniteSet(ready) /\ ready \subseteq LiveIDs
      /\ Waiting \in Nat /\ Seeds \in Nat /\ Cardinality(ready) \in Nat
  BY CountsFinite
<1>3. /\ IsFiniteSet(ids) /\ Cardinality(ids) \in Nat /\ Cardinality(ids) # 0
      /\ Cardinality(ids) <= Waiting
  BY <1>1, <1>2, FS_Subset, FS_CardinalityType, FS_EmptySet DEF Waiting
<1>4. Cardinality(LiveIDs \ ids) = Cardinality(LiveIDs) - Cardinality(ids)
  <2>1. LiveIDs \cap ids = ids
    BY <1>1
  <2>2. Cardinality(LiveIDs \ ids) = Cardinality(LiveIDs) - Cardinality(LiveIDs \cap ids)
    BY <1>2, FS_Difference
  <2> QED
    BY <2>1, <2>2
<1>5. /\ Cardinality(ready \ ids) = Cardinality(ready) - Cardinality(ready \cap ids)
      /\ IsFiniteSet(ready \cap ids) /\ Cardinality(ready \cap ids) <= Cardinality(ready)
      /\ Cardinality(ready \cap ids) <= Cardinality(ids)
  BY <1>2, <1>3, FS_Difference, FS_Intersection
<1>6. Cardinality(ready \cap ids) \in Nat
  BY <1>5, FS_CardinalityType
<1>7. Cardinality(ready \ ids) <= Cardinality(LiveIDs \ ids)
  <2>1. ready \ ids \in SUBSET (LiveIDs \ ids) /\ IsFiniteSet(LiveIDs \ ids)
    BY <1>2, FS_Difference
  <2> QED
    BY <2>1, FS_Subset
<1>8. PICK k \in Nat : k = IF open THEN Cardinality(ready \cap ids) ELSE 0
  BY <1>6
<1>9. Waiting' = Waiting - Cardinality(ids)
  BY <1>1, <1>4 DEF Waiting
<1>10. /\ k <= Cardinality(ids) /\ k <= Seeds
       /\ Seeds - k <= Waiting - Cardinality(ids) /\ Seeds' = Seeds - k
  <2>1. CASE open
    <3>1. Seeds = Cardinality(ready) /\ Seeds' = Cardinality(ready \ ids)
      BY <1>1, <2>1 DEF Seeds
    <3> QED
      BY <1>1, <1>3, <1>4, <1>5, <1>6, <1>7, <1>8, <1>9, <2>1, <3>1 DEF Waiting
  <2>2. CASE ~open
    <3>1. Seeds = 0 /\ Seeds' = 0
      BY <1>1, <2>2 DEF Seeds
    <3> QED
      BY <1>2, <1>3, <1>8, <2>2, <3>1
  <2> QED
    BY <2>1, <2>2
<1> QED
  BY <1>3, <1>8, <1>9, <1>10

(* A reserved seed stays waiting and is no seed of this round any more.    *)
LEMMA SeededCounts ==
  ASSUME TypeInv, SafetyInv, RoundInv, NEW id \in TicketIDs, NextSeed(id),
         UNCHANGED storeVars
  PROVE  /\ state \in {"Ready", "Draining"} /\ open /\ initialized
         /\ Waiting' = Waiting /\ Waiting \in Nat \ {0}
         /\ Seeds \in Nat \ {0} /\ Seeds' = Seeds - 1
         /\ Budget \in Nat \ {0} /\ Budget' = Budget - 1
<1>1. TypeOK /\ SeedsMirrorPool /\ StoppedEmpty
  BY DEF TypeInv, SafetyInv
<1>2. /\ id \in ready /\ id \in LiveIDs /\ ready' = ready \ {id}
  BY <1>1, SeedIsLive
<1>3. open /\ open' = open /\ initialized /\ initialized' = initialized
  BY DEF NextSeed, Stream!HasNext, Yield, RoundInv
<1>4. /\ IsFiniteSet(LiveIDs) /\ IsFiniteSet(ready)
      /\ Waiting \in Nat /\ Cardinality(ready) \in Nat
  BY <1>1, CountsFinite
<1>5. Cardinality(LiveIDs) # 0 /\ Cardinality(ready) # 0
  BY <1>2, <1>4, FS_EmptySet
<1>6. Cardinality(ready \ {id}) = Cardinality(ready) - 1
  BY <1>2, <1>4, FS_RemoveElement
<1>7. Seeds \in Nat \ {0} /\ Seeds' = Seeds - 1
  BY <1>2, <1>3, <1>4, <1>5, <1>6 DEF Seeds
<1>8. Waiting' = Waiting /\ Waiting \in Nat \ {0}
  BY <1>4, <1>5 DEF Waiting, LiveIDs, Pool!LiveIDs, storeVars
<1>9. state \in {"Ready", "Draining"}
  BY <1>1, <1>2 DEF StoppedEmpty, TypeOK
<1>10. Budget \in Nat \ {0} /\ Budget' = Budget - 1
  <2>1. attemptedSeeds \in Nat /\ attemptedSeeds < RoundLimit
        /\ attemptedSeeds' = attemptedSeeds + 1
    BY <1>1 DEF NextSeed, TypeOK
  <2> QED
    BY <1>3, <2>1, NodeAssumption DEF Budget
<1> QED
  BY <1>3, <1>7, <1>8, <1>9, <1>10

LEMMA ViewStep ==
  ASSUME TypeInv, SafetyInv, RoundInv, [Next]_vars
  PROVE  [nodeView' \in Observed!Steps(nodeView)]_nodeView
<1>1. TypeOK /\ SeedsMirrorPool
  BY DEF TypeInv, SafetyInv
<1>2. /\ Waiting \in Nat /\ Seeds \in Nat /\ Seeds <= Waiting
      /\ ready \subseteq LiveIDs
  BY <1>1, CountsFinite
<1>3. /\ nodeView = ViewOf(state, initialized, Waiting, Seeds, Budget)
      /\ nodeView' = ViewOf(state', initialized', Waiting', Seeds', Budget')
  BY DEF nodeView, ViewOf, Waiting, Seeds, Budget
<1>4. initialized \in BOOLEAN /\ open = initialized
  BY <1>1 DEF TypeOK, RoundInv
<1> SUFFICES nodeView' = nodeView \/ nodeView' \in Observed!Steps(nodeView)
  OBVIOUS
<1> DEFINE Goal == nodeView' = nodeView \/ nodeView' \in Observed!Steps(nodeView)
<1>5. ASSUME NEW id \in TicketIDs, Add(id) PROVE Goal
  <2>1. PICK extra \in {0, 1} : Seeds' = Seeds + extra /\ (open \/ extra = 0)
    BY <1>1, <1>5, AddedCounts
  <2>2. Waiting' = Waiting + 1 /\ Waiting < Cardinality(TicketIDs)
    BY <1>1, <1>5, AddedCounts
  <2>3. state = "Ready" /\ UNCHANGED <<state, initialized, Budget>>
    BY <1>5 DEF Add, Accepts, roundVars, Budget
  <2>4. ViewOf("Ready", initialized, Waiting + 1, Seeds + extra, Budget)
          \in Observed!Steps(ViewOf("Ready", initialized, Waiting, Seeds, Budget))
    BY <1>2, <1>4, <2>1, <2>2, AddedView
  <2> QED
    BY <1>3, <2>1, <2>2, <2>3, <2>4, Zenon
<1>6. ASSUME NEW ids \in SUBSET TicketIDs, Pool!PoolTake(ids), Stream!StreamRemove(ids),
             UNCHANGED <<state, roundVars>>, Cardinality(ids) = 1 \/ Cardinality(ids) <= MaxPlayers
      PROVE  Goal
  <2>1. PICK n, k \in Nat :
           /\ n = Cardinality(ids) /\ n >= 1 /\ n <= Waiting
           /\ k <= n /\ k <= Seeds /\ Seeds - k <= Waiting - n
           /\ Waiting' = Waiting - n /\ Seeds' = Seeds - k
    BY <1>1, <1>6, TakenCounts
  <2>2. UNCHANGED <<state, initialized, Budget>>
    BY <1>6 DEF roundVars, Budget
  <2>3. nodeView' \in Observed!Without(nodeView, n)
    <3>1. ViewOf(state, initialized, Waiting - n, Seeds - k, Budget)
            \in Observed!Without(ViewOf(state, initialized, Waiting, Seeds, Budget), n)
      BY <1>2, <2>1, WithoutView
    <3> QED
      BY <1>3, <2>1, <2>2, <3>1, Zenon
  <2>4. n = 1 \/ n \in 1..MaxPlayers
    BY <1>6, <2>1, NodeAssumption
  <2> QED
    BY <2>3, <2>4, Zenon DEF Observed!Steps, Observed!Removed, Observed!Matched
<1>7. CASE BeginMatchRound
  <2>1. ready' = LiveIDs /\ LiveIDs' = LiveIDs /\ open' /\ initialized' /\ attemptedSeeds' = 0
        /\ state' = state
    BY <1>1, <1>7 DEF BeginMatchRound, Stream!StreamBeginRound, SeedsMirrorPool, storeVars,
                      LiveIDs, Pool!LiveIDs
  <2>2. Waiting' = Waiting /\ Seeds' = Waiting /\ Budget' = RoundLimit /\ initialized' = TRUE
    BY <1>7, <2>1, NodeAssumption DEF Waiting, Seeds, Budget, BeginMatchRound
  <2> QED
    BY <1>3, <2>1, <2>2, BegunView, Zenon
<1>8. CASE BeginDrain
  <2>1. state # "Stopped" /\ state' = "Draining"
        /\ UNCHANGED <<initialized, Waiting, Seeds, Budget>>
    BY <1>8 DEF BeginDrain, storeVars, streamVars, roundVars, Waiting, LiveIDs, Pool!LiveIDs,
                Seeds, Budget
  <2> QED
    BY <1>3, <2>1, StateView, Zenon
<1>9. CASE Stop
  <2>1. state' = "Stopped" /\ UNCHANGED <<initialized, Waiting, Seeds, Budget>>
    BY <1>9 DEF Stop, storeVars, streamVars, roundVars, Waiting, LiveIDs, Pool!LiveIDs,
                Seeds, Budget
  <2>2. Waiting = 0
    BY <1>9, FS_EmptySet DEF Stop, Waiting
  <2> QED
    BY <1>3, <2>1, <2>2, StateView, Zenon
<1>10. ASSUME NEW id \in TicketIDs, NextSeed(id), UNCHANGED <<storeVars, state>> PROVE Goal
  <2>1. /\ state \in {"Ready", "Draining"} /\ initialized /\ initialized' = initialized
        /\ Waiting' = Waiting /\ Waiting \in Nat \ {0}
        /\ Seeds \in Nat \ {0} /\ Seeds' = Seeds - 1
        /\ Budget \in Nat \ {0} /\ Budget' = Budget - 1
    BY <1>10, SeededCounts DEF NextSeed
  <2>2. ViewOf(state, TRUE, Waiting, Seeds - 1, Budget - 1)
          \in Observed!Steps(ViewOf(state, TRUE, Waiting, Seeds, Budget))
    BY <2>1, ReservedView
  <2>3. initialized = TRUE /\ initialized' = TRUE /\ state' = state
    BY <1>4, <1>10, <2>1
  <2> QED
    BY <1>3, <2>1, <2>2, <2>3, Zenon
<1>11. ASSUME UNCHANGED <<pool, ready, open, roundVars, state>> PROVE Goal
  <2>1. UNCHANGED <<state, initialized, Waiting, Seeds, Budget>>
    BY <1>11 DEF roundVars, Waiting, LiveIDs, Pool!LiveIDs, Seeds, Budget
  <2> QED
    BY <1>3, <2>1, Zenon
<1>12. ASSUME NEW id \in TicketIDs, Remove(id) PROVE Goal
  BY <1>6, <1>12, FS_Singleton DEF Remove
<1>13. ASSUME NEW group \in SUBSET TicketIDs, ProduceMatch(group) PROVE Goal
  BY <1>6, <1>13 DEF ProduceMatch
<1>14. ASSUME NEW id \in TicketIDs, ProduceReserve(id) PROVE Goal
  BY <1>10, <1>14 DEF ProduceReserve
<1>15. CASE ProduceMiss
  <2>1. UNCHANGED <<storeVars, state>>
    BY <1>15 DEF ProduceMiss
  <2>2. CASE \E id \in TicketIDs : NextSeed(id)
    BY <1>10, <2>1, <2>2
  <2>3. CASE NoSeed
    <3>1. UNCHANGED <<ready, roundVars>> /\ open' = open
      BY <1>1, <2>3, NoSeedKeeps DEF NoSeed
    <3> QED
      BY <1>11, <2>1, <3>1 DEF storeVars
  <2>4. CASE UNCHANGED <<streamVars, roundVars>>
    BY <1>11, <2>1, <2>4 DEF storeVars, streamVars
  <2> QED
    BY <1>15, <2>2, <2>3, <2>4 DEF ProduceMiss
<1>16. CASE ProduceSession \/ ProduceFail \/ UNCHANGED vars
  BY <1>11, <1>16 DEF ProduceSession, ProduceFail, vars, storeVars, streamVars
<1> QED
  BY <1>5, <1>7, <1>8, <1>9, <1>12, <1>13, <1>14, <1>15, <1>16 DEF Next, InCall

(* A PhysicalNode may schedule its partitions by their views alone: every  *)
(* step of a node is one PartitionView allows.                             *)
THEOREM ViewImplemented == Spec => ImplementsView
<1>1. Init => nodeView = Observed!NewView
  <2> SUFFICES ASSUME Init PROVE nodeView = Observed!NewView
    OBVIOUS
  <2>1. LiveIDs = {} /\ open = FALSE /\ initialized = FALSE /\ state = "Ready"
    BY DEF Init, Pool!PoolInit, Stream!StreamInit, LiveIDs, Pool!LiveIDs
  <2>2. Cardinality(LiveIDs) = 0
    BY <2>1, FS_EmptySet
  <2> QED
    BY <2>1, <2>2 DEF nodeView, Observed!NewView
<1>2. (TypeInv /\ SafetyInv) /\ RoundInv /\ [Next]_vars
        => [nodeView' \in Observed!Steps(nodeView)]_nodeView
  BY ViewStep
<1> QED
  BY <1>1, <1>2, Safety, RoundBegun, PTL DEF Spec, ImplementsView

===============================================================================
