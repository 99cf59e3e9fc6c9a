----------------------------- MODULE SeedEvaluator -----------------------------
(***************************************************************************)
(* The decision for one seed: seed_evaluator.go, candidate_ranking.go,     *)
(* provider_runtime.go and produce_metrics.go of internal/matchsystem.     *)
(*                                                                         *)
(* Tickets are their DocIDs.  A session evaluates one seed after another   *)
(* over the same Tick and the same Object slots.  Match Facts are what the *)
(* provider makes of the members it was told of, in order: their list.     *)
(* CanJoin asks whether a ticket fits all of them, CanComplete whether     *)
(* they are enough.  Callbacks may fail and the context may end at any     *)
(* point.                                                                  *)
(***************************************************************************)
EXTENDS Integers, Sequences, FiniteSets, SequencesExt, FiniteSetsExt

CONSTANTS
  Docs,           \* DocIDs of the waiting tickets
  Scores,         \* what the scorer may return
  Relations,      \* the fits relations considered
  Needs,          \* the sizes CanComplete asks for
  MaxPlayers,
  ScoringLimit,   \* candidateScoringLimitPerSeed
  CandidateLimits, \* the values of candidateLimitPerSeed considered
  MaxSeeds        \* bound on the seeds of a session

EvaluatorAssumption ==
  /\ Docs \subseteq Nat \ {0}
  /\ {MaxPlayers, ScoringLimit} \cup CandidateLimits \subseteq Nat \ {0}

VARIABLES
  score, fits, need, limit,  \* the rule and its scorer; limit: candidateLimit
  pc,
  slots,      \* the Object slots of this generation
  cancelled,  \* the context has ended
  seed,       \* the seed at hand, 0 before the first
  seeds,      \* seeds evaluated, bound
  todo,       \* candidates not visited yet, in DocID order
  best,       \* the heap of the ranking
  ranked,     \* its result, what is left of it
  group,      \* the members so far
  facts,      \* the Match Facts
  outcome,    \* of the last evaluation
  trace,      \* the counters of ProduceMatchMetrics
  seen        \* history: candidates visited, and what became of them

vars == <<score, fits, need, limit, pc, slots, cancelled, seed, seeds, todo, best, ranked,
          group, facts, outcome, trace, seen>>

rule == <<score, fits, need, limit>>

Less(d, e) == score[d] < score[e] \/ (score[d] = score[e] /\ d > e)
Better(d, e) == score[d] > score[e] \/ (score[d] = score[e] /\ d < e)

Heap == INSTANCE TypedHeap

EmptyHeap == [items |-> <<>>, index |-> [d \in Docs |-> 0]]

NoCounts == [access |-> 0, calls |-> 0, hits |-> 0, visited |-> 0, scored |-> 0,
             ranked |-> 0, canJoin |-> 0, joined |-> 0, updates |-> 0]

Init ==
  /\ score \in [Docs -> Scores]
  /\ fits \in Relations
  /\ need \in Needs
  /\ limit \in CandidateLimits
  /\ pc = "session"
  /\ slots = [d \in Docs |-> "unseen"]
  /\ cancelled = FALSE
  /\ seed = 0
  /\ seeds = {}
  /\ todo = <<>>
  /\ best = EmptyHeap
  /\ ranked = <<>>
  /\ group = <<>>
  /\ facts = <<>>
  /\ outcome = "none"
  /\ trace = NoCounts
  /\ seen = <<>>

Count(names) == [n \in DOMAIN trace |-> IF n \in names THEN trace[n] + 1 ELSE trace[n]]

(* The evaluation ends; the ranking clears its heap on every way out.      *)
Return(result) ==
  /\ pc' = "ready"
  /\ outcome' = result
  /\ best' = EmptyHeap

-------------------------------------------------------------------------------
(* invokeProvider: the context is looked at before and after the call, and *)
(* an error after it has ended counts as its end.                          *)
Failure(error) == IF cancelled THEN "canceled" ELSE IF error THEN "error" ELSE "ok"

(* BeginSession: the Tick provider and the Prefilter's tick.               *)
BeginSession(error) ==
  /\ pc = "session"
  /\ pc' = IF Failure(error) = "ok" THEN "ready" ELSE "over"
  /\ UNCHANGED <<rule, slots, cancelled, seed, seeds, todo, best, ranked, group, facts,
                 outcome, trace, seen>>

(* Seeded fault: a provider that fails is not counted as a call.           *)
AccessFailureUncounted(d, error, count) ==
  /\ error => slots[d] = "unseen"
  /\ slots' = [slots EXCEPT ![d] = IF @ # "unseen" THEN @ ELSE IF error THEN "failed" ELSE "ready"]
  /\ trace' = Count(count \cup IF error THEN {"access"} ELSE
                 {"access", IF slots[d] = "unseen" THEN "calls" ELSE "hits"})

(* Seeded fault: a slot whose provider failed calls it again.              *)
AccessRetried(d, error, count) ==
  /\ error => slots[d] # "ready"
  /\ slots' = [slots EXCEPT ![d] = IF @ = "ready" THEN @ ELSE IF error THEN "failed" ELSE "ready"]
  /\ trace' = Count(count \cup {"access", IF slots[d] # "ready" THEN "calls" ELSE "hits"})

(* Frame.Object: an unseen slot calls the provider, a settled one answers. *)
Access(d, error, count) ==
  /\ error => slots[d] = "unseen"
  /\ slots' = [slots EXCEPT ![d] = IF @ # "unseen" THEN @ ELSE IF error THEN "failed" ELSE "ready"]
  /\ trace' = Count(count \cup {"access", IF slots[d] = "unseen" THEN "calls" ELSE "hits"})

(* Evaluate up to the seed's Object Facts.                                 *)
Evaluate(d, error) ==
  /\ pc = "ready"
  /\ outcome # "match"
  /\ d \notin seeds
  /\ Cardinality(seeds) < MaxSeeds
  /\ seed' = d
  /\ seeds' = seeds \cup {d}
  /\ group' = <<d>>
  /\ facts' = <<>>
  /\ ranked' = <<>>
  /\ seen' = <<>>
  /\ todo' = <<>>
  /\ IF cancelled THEN Return("canceled") /\ UNCHANGED <<slots, trace>>
     ELSE /\ Access(d, error, {})
          /\ IF slots'[d] = "failed" THEN Return("error")
             ELSE pc' = "initialize" /\ outcome' = "none" /\ UNCHANGED best
  /\ UNCHANGED <<rule, cancelled>>

(* Initialize of the MatchFactProvider, and CanComplete for the seed.      *)
Complete(members) == Len(members) >= need

Initialize(error) ==
  /\ pc = "initialize"
  /\ IF Failure(error) # "ok" THEN Return(Failure(error)) /\ UNCHANGED facts
     ELSE /\ facts' = <<seed>>
          /\ IF Complete(<<seed>>) THEN Return("match")
             ELSE pc' = "prefilter" /\ UNCHANGED <<outcome, best>>
  /\ UNCHANGED <<rule, slots, cancelled, seed, seeds, todo, ranked, group, trace, seen>>

(* Seeded fault: the seed stays among its candidates.                      *)
WithSeed(set) == set

WithoutSeed(set) == set \ {seed}

(* The Prefilter's candidates, in DocID order.                             *)
Prefilter(set, error) ==
  /\ pc = "prefilter"
  /\ IF cancelled \/ error THEN Return(IF cancelled THEN "canceled" ELSE "error") /\ UNCHANGED todo
     ELSE /\ todo' = SetToSortSeq(WithoutSeed(set), <)
          /\ pc' = "rank"
          /\ UNCHANGED <<outcome, best>>
  /\ UNCHANGED <<rule, slots, cancelled, seed, seeds, ranked, group, facts, trace, seen>>

-------------------------------------------------------------------------------
(* topCandidates.                                                          *)

(* Seeded fault: the scoring limit is not looked at.                       *)
VisitsAll == todo # <<>>

Visits == todo # <<>> /\ Len(seen) < ScoringLimit

(* Seeded fault: an entry replaces the worst one without a look at it.     *)
RetainLatest(d) ==
  IF Len(best.items) < limit THEN Heap!Push(best, d)
  ELSE Heap!Replace([items |-> [best.items EXCEPT ![1] = d], index |-> best.index], 1)

(* Every entry while there is room, or when there is room for all; else    *)
(* one that beats the worst.                                               *)
Retain(d) ==
  CASE limit >= ScoringLimit -> [best EXCEPT !.items = Append(@, d)]
    [] limit < ScoringLimit /\ Len(best.items) < limit -> Heap!Push(best, d)
    [] limit < ScoringLimit /\ Len(best.items) >= limit ->
         IF Better(d, best.items[1])
         THEN Heap!Replace([items |-> [best.items EXCEPT ![1] = d], index |-> best.index], 1)
         ELSE best

(* Seeded fault: a scorer that fails costs its candidate only.             *)
ScorerGoesOn(scorerError) == FALSE

ScorerEnds(scorerError) == scorerError

(* One candidate: its Object Facts, then its score.  Facts that fail cost  *)
(* the candidate, a scorer that fails the whole evaluation.                *)
Visit(factError, scorerError) ==
  LET d == Head(todo)
  IN
  /\ pc = "rank"
  /\ Visits
  /\ IF cancelled
     THEN Return("canceled") /\ trace' = Count({"visited"}) /\ UNCHANGED <<slots, todo, seen>>
     ELSE /\ Access(d, factError,
               IF slots'[d] = "failed" THEN {"visited"}
               ELSE IF scorerError THEN {"visited", "scored"} ELSE {"visited", "scored", "ranked"})
          /\ todo' = Tail(todo)
          /\ seen' = Append(seen, [doc |-> d, facts |-> slots'[d], failed |-> scorerError])
          /\ scorerError => slots'[d] = "ready"
          /\ IF slots'[d] = "ready" /\ ScorerEnds(scorerError) THEN Return("error")
             ELSE /\ best' = IF slots'[d] = "ready" THEN Retain(d) ELSE best
                  /\ UNCHANGED <<pc, outcome>>
  /\ UNCHANGED <<rule, cancelled, seed, seeds, ranked, group, facts>>

(* The ranking is sorted and copied out, the heap is cleared.              *)
Rank ==
  /\ pc = "rank"
  /\ ~Visits
  /\ ranked' = SortSeq(best.items, Better)
  /\ best' = EmptyHeap
  /\ pc' = "join"
  /\ UNCHANGED <<rule, slots, cancelled, seed, seeds, todo, group, facts, outcome, trace, seen>>

-------------------------------------------------------------------------------
(* The join loop.                                                          *)

(* Seeded fault: it is asked of the Facts of the seed alone.               *)
CanJoinSeed(d) == <<seed, d>> \in fits

CanJoin(d) == \A i \in DOMAIN facts : <<facts[i], d>> \in fits

Failures == \E i \in DOMAIN seen : seen[i].facts = "failed"

(* Seeded fault: candidates whose Facts failed are not spoken of.          *)
MissSilently ==
  /\ pc = "join"
  /\ ranked = <<>> \/ Len(group) >= MaxPlayers
  /\ Return("miss")
  /\ UNCHANGED <<rule, slots, cancelled, seed, seeds, todo, ranked, group, facts, trace, seen>>

(* The candidates are used up or the group is full; the errors of those    *)
(* that could not be ranked are returned.                                  *)
Miss ==
  /\ pc = "join"
  /\ ranked = <<>> \/ Len(group) >= MaxPlayers
  /\ Return(IF Failures THEN "error" ELSE "miss")
  /\ UNCHANGED <<rule, slots, cancelled, seed, seeds, todo, ranked, group, facts, trace, seen>>

NextFacts(d) == Append(facts, d)

(* One candidate: its Object Facts again, CanJoin, OnJoin, CanComplete.    *)
Join(error) ==
  LET d == Head(ranked)
  IN
  /\ pc = "join"
  /\ ranked # <<>> /\ Len(group) < MaxPlayers
  /\ ranked' = Tail(ranked)
  /\ IF cancelled
     THEN Return("canceled") /\ UNCHANGED <<slots, trace, group, facts>>
     ELSE IF ~CanJoin(d)
     THEN Access(d, FALSE, {"canJoin"}) /\ ~error /\ UNCHANGED <<pc, outcome, best, group, facts>>
     ELSE IF error
     THEN Access(d, FALSE, {"canJoin"}) /\ Return("error") /\ UNCHANGED <<group, facts>>
     ELSE /\ Access(d, FALSE, {"canJoin", "updates", "joined"})
          /\ group' = Append(group, d)
          /\ facts' = NextFacts(d)
          /\ IF Complete(facts') THEN Return("match") ELSE UNCHANGED <<pc, outcome, best>>
  /\ UNCHANGED <<rule, cancelled, seed, seeds, todo, seen>>

(* The context ends; a match that is built by then is returned.            *)
Cancel ==
  /\ ~cancelled
  /\ pc \notin {"over"}
  /\ cancelled' = TRUE
  /\ UNCHANGED <<rule, pc, slots, seed, seeds, todo, best, ranked, group, facts, outcome,
                 trace, seen>>

Next ==
  \/ \E error \in BOOLEAN :
       \/ BeginSession(error) \/ Initialize(error) \/ Join(error)
       \/ \E d \in Docs : Evaluate(d, error)
       \/ \E set \in SUBSET Docs : Prefilter(set, error)
       \/ \E scorerError \in BOOLEAN : Visit(error, scorerError)
  \/ Rank \/ Miss \/ Cancel

Spec == Init /\ [][Next]_vars

-------------------------------------------------------------------------------
TypeOK ==
  /\ pc \in {"session", "ready", "initialize", "prefilter", "rank", "join", "over"}
  /\ Range(ranked) \subseteq Docs
  /\ Len(seen) <= ScoringLimit
  /\ Len(best.items) <= limit

Scored == {seen[i].doc : i \in {j \in DOMAIN seen : seen[j].facts = "ready"}}

(* The join loop gets the limit best of the scored candidates, by score    *)
(* and then by DocID, and only if no scorer failed: the heap keeps what    *)
(* sorting all of them would.                                              *)
BestFirst ==
  pc = "rank" /\ pc' = "join" =>
    /\ \A i \in DOMAIN seen : ~seen[i].failed
    /\ LET all == SetToSortSeq(Scored, Better)
       IN ranked' = SubSeq(all, 1, Min({limit, Len(all)}))

(* The group the ranked candidates yield when each one is taken that fits  *)
(* all before it, until the group is large enough.                         *)
Greedy(docs) ==
  FoldLeft(LAMBDA members, d :
             IF Len(members) >= need \/ Len(members) >= MaxPlayers
                  \/ \E i \in DOMAIN members : <<members[i], d>> \notin fits
             THEN members ELSE Append(members, d),
           <<seed>>, docs)

(* A match is what this greedy choice makes of the ranking, its Facts are  *)
(* those of exactly its members, who are different tickets and whose       *)
(* Object Facts are all of this generation.                                *)
MatchIsGreedy ==
  outcome = "match" =>
    /\ group = Greedy(SubSeq(SetToSortSeq(Scored, Better), 1,
                             Min({limit, Cardinality(Scored)})))
    /\ facts = group
    /\ Len(group) <= MaxPlayers
    /\ Cardinality(Range(group)) = Len(group)
    /\ \A i \in DOMAIN group : slots[group[i]] = "ready"

(* A miss is one only if every candidate in the scoring pool had its Facts *)
(* and the best of them together would not have completed.                 *)
MissIsMiss ==
  outcome = "miss" =>
    /\ \A i \in DOMAIN seen : seen[i].facts = "ready"
    /\ Len(Greedy(SubSeq(SetToSortSeq(Scored, Better), 1,
                      Min({limit, Cardinality(Scored)})))) < need

(* The counters of a call add up: every access to Object Facts is a call   *)
(* of the provider or a hit, a ranked candidate was scored, a scored one   *)
(* visited, and joins are counted with their Fact updates.                 *)
CountersAddUp ==
  /\ trace.access = trace.calls + trace.hits
  /\ trace.calls = Cardinality({d \in Docs : slots[d] # "unseen"})
  /\ trace.ranked <= trace.scored /\ trace.scored <= trace.visited
  /\ trace.joined = trace.updates /\ trace.joined <= trace.canJoin
  /\ trace.canJoin <= trace.ranked
================================================================================
