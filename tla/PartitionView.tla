----------------------------- MODULE PartitionView -----------------------------
(***************************************************************************)
(* What a PhysicalNode can observe of one LogicalNode: its state, how many *)
(* tickets wait, how many of them the running round may still take as      *)
(* seeds, and the attempts the round has left.  Each operation is the set  *)
(* of views it may lead to; LogicalNode implements the resulting machine.  *)
(***************************************************************************)
EXTENDS Integers, FiniteSets

CONSTANTS
  MaxWaiting,   \* bound on the tickets waiting in a partition
  RoundLimit,   \* AttemptLimitPerMatchRound
  CallLimit,    \* AttemptLimitPerProduceMatch
  MaxPlayers

View == [state : {"Ready", "Draining", "Stopped"}, begun : BOOLEAN,
         waiting : 0..MaxWaiting, ready : 0..MaxWaiting, budget : 0..RoundLimit]

NewView ==
  [state |-> "Ready", begun |-> FALSE, waiting |-> 0, ready |-> 0, budget |-> 0]

Runnable(v) == v.state \in {"Ready", "Draining"} /\ v.waiting > 0

HasUntriedSeed(v) == v.begun /\ v.budget > 0 /\ v.ready > 0

Eligible(v) == Runnable(v) /\ HasUntriedSeed(v)

(* A ticket added in mid-round is a seed of that round or of the next one. *)
Added(v) ==
  IF v.state = "Ready" /\ v.waiting < MaxWaiting
  THEN {[v EXCEPT !.waiting = @ + 1, !.ready = @ + extra] :
          extra \in IF v.begun THEN {0, 1} ELSE {0}}
  ELSE {}

(* n tickets leave; some of them were still to be tried as seeds.          *)
Without(v, n) ==
  IF n > v.waiting THEN {}
  ELSE {w \in {[v EXCEPT !.waiting = @ - n, !.ready = @ - tried] :
                 tried \in 0..(IF n < v.ready THEN n ELSE v.ready)} :
          w.ready <= w.waiting}

Removed(v) == Without(v, 1)

Begun(v) == [v EXCEPT !.begun = TRUE, !.ready = v.waiting, !.budget = RoundLimit]

Drained(v) == [v EXCEPT !.state = "Draining"]

(* Seeded fault: an attempt is not charged to the round, so the seed may   *)
(* be reserved again.                                                      *)
ReservedFree(v, n) == v

Reserved(v, n) == [v EXCEPT !.ready = @ - n, !.budget = @ - n]

(* ProduceMatch attempts one or more seeds; the last one may complete a    *)
(* group, which leaves.                                                    *)
Matched(v) == UNION {Without(v, n) : n \in 1..MaxPlayers}

(* Seeded fault: the call's limit is not cut to what the round has left.   *)
ProducedOverBudget(v) ==
  LET tried == {Reserved(v, n) : n \in {m \in 1..CallLimit : m <= v.ready}}
  IN tried \cup UNION {Matched(w) : w \in tried}

Produced(v) ==
  LET attempts == {n \in 1..CallLimit : n <= v.ready /\ n <= v.budget}
      tried == {Reserved(v, n) : n \in attempts}
  IN tried \cup UNION {Matched(w) : w \in tried}

-------------------------------------------------------------------------------
(* The views one step of a partition may lead to.  The attempts and the    *)
(* match of a ProduceMatch are steps of their own.                         *)
Steps(v) ==
  Added(v) \cup Removed(v) \cup {Begun(v)} \cup Matched(v)
    \cup (IF v.state # "Stopped" THEN {Drained(v)} ELSE {})
    \cup (IF v.waiting = 0 THEN {[v EXCEPT !.state = "Stopped"]} ELSE {})
    \cup (IF Eligible(v) THEN {Reserved(v, 1)} ELSE {})

===============================================================================
