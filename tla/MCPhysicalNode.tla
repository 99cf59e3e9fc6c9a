---------------------------- MODULE MCPhysicalNode ----------------------------
(***************************************************************************)
(* The nodes of a deployment: a PhysicalNode under the smooth weighted     *)
(* selector (the module extended), under round robin and under any         *)
(* selector, with bounds of its own for each; and the client router that   *)
(* finds the PhysicalNode of a new ticket.  A behaviour picks one.         *)
(***************************************************************************)
EXTENDS PhysicalNode, TLC

CONSTANTS r1, r2, r3, p1, p2

VARIABLES
  scenario,
  oNodes, oOrder, oRoundActive, oLast, oCurrent,
  hash, table, owner

otherVars == <<oNodes, oOrder, oRoundActive, oLast, oCurrent>>
routerVars == <<hash, table, owner>>
deploymentVars == <<scenario, vars, otherVars, routerVars>>

AllRules == {r1, r2, r3}

(* Rules without a weight have the default weight 1.                       *)
DoubleFirst == r1 :> 2

InTurn == INSTANCE PhysicalNode WITH
  Selector <- "roundRobin", Weights <- <<>>,
  nodes <- oNodes, order <- oOrder, roundActive <- oRoundActive,
  last <- oLast, current <- oCurrent

Free == INSTANCE PhysicalNode WITH
  Rules <- {r1, r2}, Placements <- {p1, p2}, Selector <- "free", Weights <- <<>>,
  MaxWaiting <- 2, RoundLimit <- 2, CallLimit <- 2, MaxPlayers <- 2,
  nodes <- oNodes, order <- oOrder, roundActive <- oRoundActive,
  last <- oLast, current <- oCurrent

-------------------------------------------------------------------------------
Route(logical, node, weight, enabled) ==
  [logical |-> logical, node |-> node, weight |-> weight, enabled |-> enabled]

(* What a table may say of a LogicalNode on its node.                      *)
RouteChoices(logical, node) ==
  {{}, {Route(logical, node, 1, TRUE)}, {Route(logical, node, 2, TRUE)},
   {Route(logical, node, 2, FALSE)}}

(* A route without weight, and homes that clash, are there to be refused.  *)
Tables ==
  {[nodes |-> enabled, routes |-> a \cup b \cup c] :
     enabled \in {<<TRUE, TRUE, TRUE>>, <<TRUE, FALSE, TRUE>>, <<TRUE, TRUE>>},
     a \in RouteChoices("a1", 1), b \in RouteChoices("a2", 2), c \in RouteChoices("a3", 3)}
  \cup
  {[nodes |-> <<TRUE, TRUE, TRUE>>, routes |-> {Route("a1", 1, 1, TRUE), r}] :
     r \in {Route("a1", 2, 1, TRUE), Route("a2", 1, 1, TRUE), Route("a2", 2, 0, TRUE),
            Route("b", 1, 1, TRUE)}}

Routing == INSTANCE Router WITH
  Nodes <- 1..3,
  RuleOf <- [a1 |-> "A", a2 |-> "A", a3 |-> "A", b |-> "B"],
  Requests <- {[rule |-> "A", affinity |-> "x"]}, Hashes <- {2, 5}, Configs <- Tables

ASSUME Bounds ==
  /\ Free!PhysicalAssumption /\ InTurn!PhysicalAssumption
  /\ Routing!RouterAssumption

-------------------------------------------------------------------------------
DeploymentInit ==
  /\ scenario \in {"weighted", "in turn", "free", "routing"}
  /\ Init
  /\ IF scenario = "in turn" THEN InTurn!Init ELSE Free!Init
  /\ IF scenario = "routing" THEN Routing!Init
     ELSE hash = <<>> /\ table = <<>> /\ owner = <<>>

DeploymentNext ==
  /\ UNCHANGED scenario
  /\ \/ scenario = "weighted" /\ Next /\ UNCHANGED <<otherVars, routerVars>>
     \/ scenario = "in turn" /\ InTurn!Next /\ UNCHANGED <<vars, routerVars>>
     \/ scenario = "free" /\ Free!Next /\ UNCHANGED <<vars, routerVars>>
     \/ scenario = "routing" /\ Routing!Next /\ UNCHANGED <<vars, otherVars>>

DeploymentSpec == DeploymentInit /\ [][DeploymentNext]_deploymentVars

(* Under any selector the load order lists every loaded partition once, so *)
(* that every one of them starts with a round; a round ends, even if       *)
(* tickets keep coming: ProduceMatch selects partitions for ever only if   *)
(* rounds keep being begun; and under round robin a partition that stays   *)
(* eligible while ProduceMatch keeps being called gets its turn, unless    *)
(* partitions are loaded for ever.                                         *)
NobodyStarves ==
  /\ [](/\ TypeOK /\ OrderListsNodes
        /\ scenario # "in turn" => Free!TypeOK /\ Free!OrderListsNodes)
  /\ scenario = "free" => Free!RoundEnds
  /\ scenario = "in turn" => InTurn!EligibleGetsTurn

(* A LogicalNode has one home, and a new route table moves an affinity to  *)
(* another node only if the old one lost or the new one won weight.        *)
MovesForCause ==
  /\ [](scenario = "routing" => Routing!OneHome)
  /\ [][scenario = "routing" => Routing!MoveHasCause]_deploymentVars
===============================================================================
