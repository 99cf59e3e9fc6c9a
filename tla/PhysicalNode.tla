----------------------------- MODULE PhysicalNode -----------------------------
(***************************************************************************)
(* internal/matchsystem/physical_node.go and logical_node_selector.go: the *)
(* partitions of one owner goroutine, in load order, and the selector that *)
(* picks the partition of each ProduceMatch.  A partition is represented   *)
(* by its PartitionView.  Only the two selectors that keep state are told  *)
(* apart; "free" stands for the stateless ones and for a caller's own: any *)
(* eligible partition.  A refused call changes nothing and is no step.     *)
(***************************************************************************)
EXTENDS Integers, Sequences, FiniteSetsExt

CONSTANTS
  Rules,
  Placements,
  Selector,      \* "roundRobin", "weighted" or "free"
  Weights,       \* rule -> weight, for the rules that are given one
  NoKey,         \* stands for hasLast = false
  MaxWaiting, RoundLimit, CallLimit, MaxPlayers

Keys == [rule : Rules, placement : Placements]

ASSUME PhysicalAssumption ==
  /\ IsFiniteSet(Rules) /\ IsFiniteSet(Placements)
  /\ Selector \in {"roundRobin", "weighted", "free"}
  /\ DOMAIN Weights \subseteq Rules
  /\ \A rule \in DOMAIN Weights : Weights[rule] \in Nat \ {0}
  /\ NoKey \notin Keys
  /\ MaxWaiting \in Nat
  /\ RoundLimit \in Nat \ {0}
  /\ CallLimit \in 1..RoundLimit
  /\ MaxPlayers \in Nat \ {0}

VARIABLES
  nodes,        \* rule -> placement and view of its partition, when loaded
  order,        \* loaded rules, in load order
  roundActive,
  last,         \* round robin: the key selected last
  current       \* smooth weighted round robin: the credit of each key

selectorVars == <<last, current>>
vars == <<nodes, order, roundActive, selectorVars>>

INSTANCE PartitionView
Seqs == INSTANCE SequencesExt

Loaded == DOMAIN nodes
KeyOf(rule) == [rule |-> rule, placement |-> nodes[rule].placement]
IsEligible(rule) == rule \in Loaded /\ Eligible(nodes[rule].view)

(* resolveKey: the rule is loaded, and under this very placement.          *)
Resolves(key) == key.rule \in Loaded /\ KeyOf(key.rule) = key

Init ==
  /\ nodes = <<>>
  /\ order = <<>>
  /\ roundActive = FALSE
  /\ last = NoKey
  /\ current = [key \in Keys |-> 0]

Load(key) ==
  /\ key.rule \notin Loaded
  /\ nodes' = [rule \in Loaded \cup {key.rule} |->
                 IF rule = key.rule THEN [placement |-> key.placement, view |-> NewView]
                                    ELSE nodes[rule]]
  /\ order' = Append(order, key.rule)
  /\ UNCHANGED <<roundActive, selectorVars>>

(* An operation on one partition.                                          *)
Update(key, views) ==
  /\ Resolves(key)
  /\ \E view \in views : nodes' = [nodes EXCEPT ![key.rule].view = view]
  /\ UNCHANGED <<order, roundActive>>

Add(key) ==
  /\ Update(key, Added(nodes[key.rule].view))
  /\ UNCHANGED selectorVars

Remove(key) ==
  /\ Update(key, Removed(nodes[key.rule].view))
  /\ UNCHANGED selectorVars

BeginDrain(key) ==
  /\ Update(key, {Drained(nodes[key.rule].view)})
  /\ UNCHANGED selectorVars

BeginMatchRound ==
  /\ nodes' = [rule \in Loaded |-> [nodes[rule] EXCEPT !.view = Begun(@)]]
  /\ roundActive' = TRUE
  /\ UNCHANGED <<order, selectorVars>>

OrderWithout(rule) == Seqs!RemoveFirst(order, rule)

(* The selector is not told: it keeps what it knows of a stopped key.      *)
Stop(key) ==
  /\ Resolves(key)
  /\ nodes[key.rule].view.waiting = 0
  /\ nodes' = [rule \in Loaded \ {key.rule} |-> nodes[rule]]
  /\ order' = OrderWithout(key.rule)
  /\ UNCHANGED <<roundActive, selectorVars>>

-------------------------------------------------------------------------------
(* Round robin: the first eligible candidate after the one selected last,  *)
(* or from the start of the load order when that one is gone.              *)
(* Seeded fault: the search starts at the one selected last.               *)
StartAtLast ==
  IF \E i \in DOMAIN order : KeyOf(order[i]) = last
  THEN CHOOSE i \in DOMAIN order : KeyOf(order[i]) = last
  ELSE 1

Start ==
  IF \E i \in DOMAIN order : KeyOf(order[i]) = last
  THEN ((CHOOSE i \in DOMAIN order : KeyOf(order[i]) = last) % Len(order)) + 1
  ELSE 1

Turn(i) == (i - Start) % Len(order)

RoundRobin(i) ==
  /\ \A j \in DOMAIN order : IsEligible(order[j]) => Turn(i) <= Turn(j)
  /\ last' = KeyOf(order[i])
  /\ UNCHANGED current

(* Smooth weighted round robin: every eligible candidate earns its weight, *)
(* the first with the highest credit is selected and pays for all of them. *)
Weight(rule) == IF rule \in DOMAIN Weights THEN Weights[rule] ELSE 1

Credit(rule) == current[KeyOf(rule)] + Weight(rule)

EligibleKeys == {key \in Keys : Resolves(key) /\ IsEligible(key.rule)}

(* Seeded fault: the selected candidate pays its own weight only.          *)
PriceOwn(rule) == Weight(rule)

Price(rule) == MapThenSumSet(LAMBDA key : Weight(key.rule), EligibleKeys)

SmoothWeighted(i) ==
  /\ \A j \in DOMAIN order : IsEligible(order[j]) =>
       \/ Credit(order[j]) < Credit(order[i])
       \/ Credit(order[j]) = Credit(order[i]) /\ i <= j
  /\ current' = [key \in Keys |->
       IF key \in EligibleKeys
       THEN Credit(key.rule) - IF key.rule = order[i] THEN Price(key.rule) ELSE 0
       ELSE current[key]]
  /\ UNCHANGED last

Select(i) ==
  \/ Selector = "roundRobin" /\ RoundRobin(i)
  \/ Selector = "weighted" /\ SmoothWeighted(i)
  \/ Selector = "free" /\ UNCHANGED selectorVars

(* One attempt on the selected partition, whose outcome is its own affair. *)
ProduceMatch(rule) ==
  /\ roundActive
  /\ \E i \in DOMAIN order :
       /\ order[i] = rule
       /\ IsEligible(rule)
       /\ Select(i)
       /\ Update(KeyOf(rule), Produced(nodes[rule].view))

Next ==
  \/ \E key \in Keys : Load(key) \/ Add(key) \/ Remove(key) \/ BeginDrain(key) \/ Stop(key)
  \/ BeginMatchRound
  \/ \E rule \in Rules : ProduceMatch(rule)

Spec == Init /\ [][Next]_vars

-------------------------------------------------------------------------------
TypeOK ==
  /\ Loaded \subseteq Rules
  /\ \A rule \in Loaded : nodes[rule] \in [placement : Placements, view : View]
  /\ order \in Seq(Rules)
  /\ roundActive \in BOOLEAN
  /\ last \in Keys \cup {NoKey}
  /\ current \in [Keys -> Int]

(* The load order lists every loaded partition once and nothing else, so   *)
(* each one is a candidate of the selector and starts with every round.    *)
OrderListsNodes ==
  /\ Loaded = {order[i] : i \in DOMAIN order}
  /\ Len(order) = Cardinality(Loaded)

HighestWeight == Max({Weight(rule) : rule \in Rules})

(* Credits cancel out, and each stays within the highest weight for every  *)
(* other partition, whichever candidates are eligible from call to call    *)
(* and whatever is stopped and loaded again: no partition builds up a      *)
(* claim that starves the others.                                          *)
CreditsBounded ==
  LET limit == (Cardinality(Keys) - 1) * HighestWeight
  IN /\ MapThenSumSet(LAMBDA key : current[key], Keys) = 0
     /\ \A key \in Keys : current[key] \in (-limit)..limit

(* Round robin: a partition that stays eligible while ProduceMatch keeps   *)
(* being called gets its turn, unless partitions are loaded for ever.      *)
EligibleGetsTurn ==
  \A rule \in Rules :
    /\ <>[][\A key \in Keys : ~Load(key)]_vars
    /\ <>[]IsEligible(rule)
    /\ []<><<\E r \in Rules : ProduceMatch(r)>>_vars
    => []<><<ProduceMatch(rule)>>_vars

(* A round ends: ProduceMatch succeeds in selecting a partition for ever   *)
(* only if rounds keep being begun, even if tickets keep coming.           *)
RoundEnds ==
  []<><<\E rule \in Rules : ProduceMatch(rule)>>_vars => []<><<BeginMatchRound>>_vars

===============================================================================
