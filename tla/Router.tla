-------------------------------- MODULE Router --------------------------------
(***************************************************************************)
(* Client routing: internal/client/router.go and route_table.go.  A table  *)
(* says which PhysicalNode holds which LogicalNode, with what weight, and  *)
(* which of them take new tickets; it is replaced as a whole.  A new       *)
(* ticket goes to the node with the highest weighted rendezvous score: a   *)
(* hash of rule, affinity and node, scaled by the weight of the route.     *)
(***************************************************************************)
EXTENDS Integers, FiniteSetsExt

CONSTANTS
  Nodes,      \* PhysicalNodes, numbered in the order of their IDs
  RuleOf,     \* LogicalNode -> its rule
  Requests,   \* the rule and the affinity of a new ticket
  Hashes,     \* what a score may be for a weight of 1
  Configs     \* nodes with their enabled flag, and routes, of a table

RouterAssumption ==
  /\ Nodes \subseteq Nat
  /\ Hashes \subseteq Nat \ {0}
  /\ \A c \in Configs :
       /\ DOMAIN c.nodes \subseteq Nodes /\ IsFiniteSet(c.routes)
       /\ \A r \in c.routes : r.weight \in Nat

VARIABLES
  hash,    \* request -> node -> unweighted score
  table,
  owner    \* the last decision: LogicalNode and PhysicalNode, or NoRoute

vars == <<hash, table, owner>>

NoRoute == [logical |-> "none", node |-> "none"]

(* Seeded fault: a LogicalNode may be listed on two nodes.                 *)
ValidWithoutHome(c) ==
  \A r \in c.routes :
    /\ r.node \in DOMAIN c.nodes /\ r.weight > 0
    /\ \A s \in c.routes \ {r} :
         ~(RuleOf[r.logical] = RuleOf[s.logical] /\ r.node = s.node)

(* NewRouteTable: every route on a declared node, with a weight; each      *)
(* LogicalNode once, and one LogicalNode of a rule per node.               *)
Valid(c) ==
  \A r \in c.routes :
    /\ r.node \in DOMAIN c.nodes /\ r.weight > 0
    /\ \A s \in c.routes \ {r} :
         /\ r.logical # s.logical
         /\ ~(RuleOf[r.logical] = RuleOf[s.logical] /\ r.node = s.node)

Open(t, rule) ==
  {r \in t.routes : RuleOf[r.logical] = rule /\ r.enabled /\ t.nodes[r.node]}

(* Seeded fault: the hash is of the number of routes too.                  *)
ScoreOfTable(t, request, r) ==
  r.weight * hash[request][Min({n \in Nodes :
    (n + Cardinality(t.routes) - r.node) % Cardinality(Nodes) = 0})]

(* weightedRendezvousScore.                                                *)
Score(t, request, r) == r.weight * hash[request][r.node]

Wins(t, request, r, s) ==
  \/ Score(t, request, r) > Score(t, request, s)
  \/ Score(t, request, r) = Score(t, request, s) /\ r.node < s.node

(* The open route that wins against every other, if any is open.           *)
Best(t, request) ==
  {r \in Open(t, request.rule) :
     \A s \in Open(t, request.rule) \ {r} : Wins(t, request, r, s)}

Init ==
  /\ hash \in [Requests -> [Nodes -> Hashes]]
  /\ table \in {c \in Configs : Valid(c)}
  /\ owner = NoRoute

Replace(c) ==
  /\ Valid(c)
  /\ table' = c
  /\ UNCHANGED <<hash, owner>>

RouteNew(request) ==
  /\ \E decision \in {[logical |-> r.logical, node |-> r.node] : r \in Best(table, request)}
                       \cup {NoRoute} :
       /\ decision = NoRoute => Best(table, request) = {}
       /\ owner' = decision
  /\ UNCHANGED <<hash, table>>

Next ==
  \/ \E c \in Configs : Replace(c)
  \/ \E request \in Requests : RouteNew(request)

Spec == Init /\ [][Next]_vars

-------------------------------------------------------------------------------
(* The tickets of a LogicalNode have one home, and on a PhysicalNode the   *)
(* rule alone tells the LogicalNode; a new ticket finds a home exactly     *)
(* when its rule has an open one.                                          *)
OneHome ==
  /\ \A r, s \in table.routes :
       \/ r = s
       \/ r.logical # s.logical /\ <<r.node, RuleOf[r.logical]>> # <<s.node, RuleOf[s.logical]>>
  /\ \A request \in Requests :
       Cardinality(Best(table, request)) = IF Open(table, request.rule) = {} THEN 0 ELSE 1

(* The weight a rule has on a node, where it has one LogicalNode at most.  *)
Worth(t, rule, node) ==
  LET at == {r \in Open(t, rule) : r.node = node}
  IN IF at = {} THEN 0 ELSE (CHOOSE r \in at : TRUE).weight

(* A new table moves a request from one node to another only if the former *)
(* lost weight (or closed, or left) or the latter won some: a change on a  *)
(* third node never does.                                                  *)
MoveHasCause ==
  \A request \in Requests :
    \A r \in Best(table, request), s \in Best(table', request) :
      r.node # s.node =>
        \/ Worth(table', request.rule, r.node) < Worth(table, request.rule, r.node)
        \/ Worth(table', request.rule, s.node) > Worth(table, request.rule, s.node)

===============================================================================
