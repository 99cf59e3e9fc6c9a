------------------------------ MODULE MCCandidates ------------------------------
(***************************************************************************)
(* From the tickets of an index to the group of a seed: the Prefilter's    *)
(* index, its plans, and the evaluation of a seed with what they find.     *)
(* A behaviour picks one of the parts and leaves the others idle.          *)
(*                                                                         *)
(*   single    one seed, whose candidates are ranked by a heap or sorted   *)
(*   session   two seeds after one another over the same Object slots      *)
(*   index     tickets come to and go from the bitmap indexes              *)
(*   plan      an expression is parsed, analyzed and evaluated             *)
(***************************************************************************)
EXTENDS Integers, Sequences, FiniteSets, TLC

CONSTANTS Docs, NoValue, Queries, NoneQuery, Failing, NoScope

VARIABLES
  part,
  score, fits, need, limit, pc, slots, cancelled, seed, seeds, todo, best, ranked, group,
  facts, outcome, trace, seen,
  active, snapshots, range, multi, session,
  phase, nodes, open, env, result

seedVars == <<score, fits, need, limit, pc, slots, cancelled, seed, seeds, todo, best, ranked,
              group, facts, outcome, trace, seen>>
indexVars == <<active, snapshots, range, multi, session>>
planVars == <<phase, nodes, open, env, result>>
vars == <<part, seedVars, indexVars, planVars>>

-------------------------------------------------------------------------------
(* All tickets fit one another but 2 and 3.                                *)
Rivals(docs) == {r \in docs \X docs : {r[1], r[2]} # {2, 3}}

Single == INSTANCE SeedEvaluator WITH
  Docs <- 1..5, Scores <- {1, 2}, Relations <- {Rivals(1..5)}, Needs <- {2, 3},
  MaxPlayers <- 3, ScoringLimit <- 3, CandidateLimits <- {2, 3}, MaxSeeds <- 1

Session == INSTANCE SeedEvaluator WITH
  Docs <- 1..3, Scores <- {1, 2}, Relations <- {Rivals(1..3)}, Needs <- {2, 3},
  MaxPlayers <- 3, ScoringLimit <- 2, CandidateLimits <- {1, 3}, MaxSeeds <- 2

-------------------------------------------------------------------------------
Ticket(value, keys) == [value |-> value, keys |-> keys]

(* Five values, so that a range can span three blocks, with key lists that *)
(* are empty, repeat a key or are too long, and a ticket without value.    *)
Tickets == {Ticket(1, <<>>), Ticket(3, <<"a">>), Ticket(5, <<"b", "a">>),
            Ticket(6, <<"b", "b", "a">>), Ticket(9, <<"b">>),
            Ticket(3, <<"c", "a", "b">>), Ticket(NoValue, <<"c">>)}

Index == INSTANCE PrefilterIndex WITH MaxDocumentValues <- 2, BlockSize <- 2

(* The documents of the index are interchangeable.  All permutations but   *)
(* those that move one of them are less work than all of them.             *)
Symmetry == Permutations(Docs \ {CHOOSE d \in Docs : TRUE})

Plan == INSTANCE PrefilterPlan WITH Docs <- {1, 2}, Thresholds <- {1, 2}, MaxNodes <- 5

ASSUME Bounds ==
  Single!EvaluatorAssumption /\ Session!EvaluatorAssumption
    /\ Index!IndexAssumption /\ Plan!PlanAssumption

-------------------------------------------------------------------------------
(* The evaluator that another part leaves idle.                            *)
NoEvaluation ==
  /\ Session!Init
  /\ score = [d \in 1..3 |-> 1]
  /\ limit = 1

Init ==
  /\ Index!Init /\ Plan!Init
  /\ \/ part = "single" /\ Single!Init
     \/ part = "session" /\ Session!Init
     \/ part \in {"index", "plan"} /\ NoEvaluation

Next ==
  \/ part = "single" /\ Single!Next /\ UNCHANGED <<part, indexVars, planVars>>
  \/ part = "session" /\ Session!Next /\ UNCHANGED <<part, indexVars, planVars>>
  \/ part = "index" /\ Index!Next /\ UNCHANGED <<part, seedVars, planVars>>
  \/ part = "plan" /\ Plan!Next /\ UNCHANGED <<part, seedVars, indexVars>>

Spec == Init /\ [][Next]_vars

-------------------------------------------------------------------------------
(* The heap and the limits of the ranking choose what sorting every scored *)
(* candidate would, a match is the greedy choice from it over Facts of its *)
(* own members, "no match" is said only if there is none in it, whatever   *)
(* fails, and the counters of the call add up.                             *)
MatchIsGreedy ==
  /\ [](part = "single" =>
          /\ Single!TypeOK /\ Single!MatchIsGreedy
          /\ Single!MissIsMiss /\ Single!CountersAddUp)
  /\ [](part = "session" =>
          /\ Session!TypeOK /\ Session!MatchIsGreedy
          /\ Session!MissIsMiss /\ Session!CountersAddUp)
  /\ [][part = "single" => Single!BestFirst]_seedVars
  /\ [][part = "session" => Session!BestFirst]_seedVars

(* Every range and every set of keys finds exactly the waiting tickets     *)
(* that have it, nothing is left of those that went or were refused, and a *)
(* plan that was accepted yields exactly the tickets its expression fits.  *)
CandidatesExact ==
  /\ part = "index" =>
       Index!TypeOK /\ Index!RangeExact /\ Index!KeysExact /\ Index!NothingLeftBehind
  /\ part = "plan" =>
       /\ Plan!TypeOK /\ Plan!CandidatesExact
       /\ Plan!NeverUnscoped /\ Plan!RefusedForAReason
===============================================================================
