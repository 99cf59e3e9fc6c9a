----------------------------- MODULE PrefilterPlan -----------------------------
(***************************************************************************)
(* The bitmap plans of internal/matchsystem/prefilter, from the parsed     *)
(* expression to its candidates: the parser and the lattice analysis of    *)
(* compiler.go and expression.go, and the evaluation of store.go.          *)
(*                                                                         *)
(* The compiler appends a node after its children, so a plan grows from    *)
(* the leaves: open holds the nodes that have no parent yet.  A lookup is  *)
(* a member of Queries; what it finds, whether its operands can be bound   *)
(* and what the condition of each IF yields is chosen for each evaluation. *)
(***************************************************************************)
EXTENDS Integers, Sequences, FiniteSets, SequencesExt, FiniteSetsExt

CONSTANTS
  Docs,
  Queries,    \* lookups with dynamic operands
  NoneQuery,  \* a lookup whose static operand has no key
  Failing,    \* the queries whose operands may fail to bind
  Thresholds, \* containsProbeThreshold
  NoScope,
  MaxNodes    \* bound on the nodes of a plan

PlanAssumption ==
  Failing \subseteq Queries /\ NoneQuery \notin Queries /\ Thresholds \subseteq Nat \ {0}

VARIABLES
  phase, \* "parse", "plan", "refused" (in the tree), "unanchored" (at the root), "done"
  nodes, \* the plan, children before their parent
  open,  \* nodes without a parent
  env,   \* the data of the evaluation
  result

vars == <<phase, nodes, open, env, result>>

Init ==
  /\ phase = "parse"
  /\ nodes = <<>>
  /\ open = <<>>
  /\ env = [threshold |-> 1]
  /\ result = [set |-> {}, error |-> "none"]

-------------------------------------------------------------------------------
(* The lattice of expression.go: a node is statically none, free of scope  *)
(* (and then may establish one), or needs the scope of its parent.         *)
None == {"none", "free"}
Anchor == {"free", "anchor"}

Some(flag, states) == \E s \in states : flag \in s
Every(flag, states) == \A s \in states : flag \in s

(* Seeded fault: the flags of the children are put together.               *)
CombineAndByUnion(states) == UNION states

CombineAnd(states) ==
  IF Some("none", states) THEN None
  ELSE IF Some("anchor", states) THEN Anchor
  ELSE IF Every("free", states) THEN {"free"} ELSE {"scope"}

(* Seeded fault: one child that establishes a scope is enough for an OR.   *)
CombineOrAnyAnchor(states) ==
  IF Every("none", states) THEN None ELSE IF Some("anchor", states) THEN Anchor ELSE {"scope"}

CombineOr(states) ==
  IF Every("none", states) THEN None
  ELSE IF Every("free", states)
  THEN {"free"} \cup IF Some("anchor", states) THEN {"anchor"} ELSE {}
  ELSE {"scope"}

(* Seeded fault: both branches have to establish a scope.                  *)
CombineIfBoth(states) ==
  IF Every("none", states) THEN None
  ELSE IF Every("anchor", states) THEN Anchor ELSE {"scope"}

CombineIf(states) ==
  IF Every("none", states) THEN None
  ELSE IF Every("free", states)
  THEN {"free"} \cup IF Some("anchor", states) THEN {"anchor"} ELSE {}
  ELSE {"scope"}

(* analyzeBitmap of a node whose children are analyzed.                    *)
Props(kind, query, children) ==
  LET states == {nodes[c].props : c \in ToSet(children)}
  IN CASE kind = "none" -> None
       [] kind = "lookup" -> IF query = NoneQuery THEN None ELSE Anchor
       [] kind = "exclude" -> {"scope"}
       [] kind = "and" -> CombineAnd(states)
       [] kind = "or" -> CombineOr(states)
       [] kind = "if" -> CombineIf(states)

HasExclude(kind, children) == kind = "exclude" \/ \E c \in ToSet(children) : nodes[c].excludes

LegalExclude(children) ==
  /\ ~nodes[children[1]].excludes
  /\ "free" \in nodes[children[1]].props

(* Every IF has a condition of its own; they are numbered.                 *)
Conditions == 1..Cardinality({id \in DOMAIN nodes : nodes[id].kind = "if"})

(* parseBitmapNode for a node with the last n open nodes as children.      *)
Node(kind, query, n) ==
  LET rest == SubSeq(open, 1, Len(open) - n)
      children == SubSeq(open, Len(open) - n + 1, Len(open))
  IN
  /\ phase = "parse"
  /\ Len(nodes) < MaxNodes
  /\ n <= Len(open)
  /\ nodes' = Append(nodes, [kind |-> kind, query |-> query, when |-> Max(Conditions \cup {0}) + 1,
                             children |-> children,
                             props |-> Props(kind, query, children),
                             excludes |-> HasExclude(kind, children)])
  /\ open' = Append(rest, Len(nodes) + 1)
  /\ phase' = IF kind = "exclude" /\ ~LegalExclude(children) THEN "refused" ELSE phase
  /\ UNCHANGED <<env, result>>

Root == open[1]

(* validateBitmapRoot.                                                     *)
ValidRoot ==
  "none" \in nodes[Root].props \/ {"free", "anchor"} \subseteq nodes[Root].props

BuildPlan ==
  /\ phase = "parse"
  /\ Len(open) = 1
  /\ phase' = IF ValidRoot THEN "plan" ELSE "unanchored"
  /\ UNCHANGED <<nodes, open, env, result>>

-------------------------------------------------------------------------------
(* The evaluation: a set or the first error.                               *)
Ok(set) == [set |-> set, error |-> "none"]
Fail(error) == [set |-> {}, error |-> error]

Bound(e, query) == query \notin e.failing

(* evalLookup: a small scope is probed, a large one intersected.           *)
Lookup(e, query, scope) ==
  IF query = NoneQuery THEN Ok({})
  ELSE IF ~Bound(e, query) THEN Fail("bind")
  ELSE IF scope # NoScope /\ Cardinality(scope) <= e.threshold
  THEN Ok({d \in scope : d \in e.matches[query]})
  ELSE Ok(IF scope = NoScope THEN e.matches[query] ELSE e.matches[query] \cap scope)

Establishes(id) == "anchor" \in nodes[id].props

RECURSIVE Estimate(_, _)
Estimate(e, id) ==
  LET node == nodes[id]
      parts == [c \in {d \in ToSet(node.children) : Establishes(d)} |-> Estimate(e, c)]
      failed == SelectSeq(node.children, LAMBDA c : Establishes(c) /\ parts[c].error # "none")
      Value(n) == [count |-> n, error |-> "none"]
      Error(code) == [count |-> 0, error |-> code]
  IN CASE node.kind = "lookup" ->
            IF node.query # NoneQuery /\ ~Bound(e, node.query) THEN Error("bind")
            ELSE Value(IF node.query = NoneQuery THEN 0 ELSE Cardinality(e.matches[node.query]))
       [] node.kind = "none" -> Value(0)
       [] node.kind = "and" ->
            IF failed # <<>> THEN parts[failed[1]]
            ELSE Value(IF DOMAIN parts = {} THEN 0 ELSE Min({parts[c].count : c \in DOMAIN parts}))
       [] node.kind = "or" ->
            IF failed # <<>> THEN parts[failed[1]]
            ELSE Value(MapThenSumSet(LAMBDA c : parts[c].count, DOMAIN parts))
       [] node.kind = "if" ->
            IF e.when[node.when] = "error" THEN Error("condition")
            ELSE Estimate(e, node.children[IF e.when[node.when] = "true" THEN 1 ELSE 2])
       [] node.kind = "exclude" -> Error("estimate")

(* The anchor of an AND without scope: the first of the least estimate.    *)
AnchorOf(e, children) ==
  LET anchors == SelectSeq(children, Establishes)
      failed == SelectSeq(anchors, LAMBDA c : Estimate(e, c).error # "none")
      least == SelectSeq(anchors, LAMBDA c :
                 \A d \in ToSet(anchors) : Estimate(e, c).count <= Estimate(e, d).count)
  IN IF failed # <<>> THEN [id |-> 0, error |-> Estimate(e, failed[1]).error]
     ELSE [id |-> IF anchors = <<>> THEN 0 ELSE least[1], error |-> "none"]

(* Seeded fault: an OR stops at the first part that found something.       *)
CoversFirst(out, scope) == out # {}

(* The parts of an OR cover the scope, nothing can be added.               *)
Covers(out, scope) == scope # NoScope /\ Cardinality(out) = Cardinality(scope)

RECURSIVE Eval(_, _, _), EvalOr(_, _, _, _), EvalRest(_, _, _, _)

EvalOr(e, children, scope, out) ==
  IF children = <<>> THEN Ok(out)
  ELSE LET part == Eval(e, Head(children), scope)
           next == out \cup part.set
       IN IF part.error # "none" THEN part
          ELSE IF Covers(next, scope) THEN Ok(next)
          ELSE EvalOr(e, Tail(children), scope, next)

(* The children of an AND after its anchor, each in the scope of those     *)
(* before it, until nothing is left.                                       *)
EvalRest(e, children, acc, scoped) ==
  IF children = <<>> THEN Ok(acc)
  ELSE LET part == Eval(e, Head(children), IF scoped THEN acc ELSE NoScope)
       IN IF part.error # "none" \/ part.set = {} THEN part
          ELSE EvalRest(e, Tail(children), part.set, scoped)

EvalAnd(e, children, scope) ==
  LET anchor == AnchorOf(e, children)
      first == Eval(e, anchor.id, NoScope)
      rest == SelectSeq(children, LAMBDA c : c # anchor.id)
  IN IF \E c \in ToSet(children) : "none" \in nodes[c].props THEN Ok({})
     ELSE IF scope # NoScope THEN EvalRest(e, children, scope, TRUE)
     ELSE IF anchor.error # "none" THEN Fail(anchor.error)
     ELSE IF anchor.id = 0 THEN EvalRest(e, children, {}, FALSE)
     ELSE IF first.error # "none" \/ first.set = {} THEN first
     ELSE EvalRest(e, rest, first.set, TRUE)

Exclude(scope, excluded) == scope \ excluded

Eval(e, id, scope) ==
  LET node == nodes[id]
  IN CASE node.kind = "none" -> Ok({})
       [] node.kind = "lookup" -> Lookup(e, node.query, scope)
       [] node.kind = "exclude" ->
            IF scope = NoScope THEN Fail("scope")
            ELSE LET excluded == Eval(e, node.children[1], NoScope)
                 IN IF excluded.error # "none" THEN excluded
                    ELSE Ok(Exclude(scope, excluded.set))
       [] node.kind = "if" ->
            IF e.when[node.when] = "error" THEN Fail("condition")
            ELSE Eval(e, node.children[IF e.when[node.when] = "true" THEN 1 ELSE 2], scope)
       [] node.kind = "or" -> EvalOr(e, node.children, scope, {})
       [] node.kind = "and" -> EvalAnd(e, node.children, scope)

(* CandidatesWithStats.                                                    *)
Candidates(e) ==
  /\ phase = "plan"
  /\ phase' = "done"
  /\ env' = e
  /\ result' = Eval(e, Root, NoScope)
  /\ UNCHANGED <<nodes, open>>

Asked == {nodes[id].query : id \in DOMAIN nodes} \ {NoneQuery}

Envs == [matches : [Asked -> SUBSET Docs], failing : SUBSET (Failing \cap Asked),
         when : [Conditions -> {"true", "false", "error"}], threshold : Thresholds]

Next ==
  \/ Node("none", NoneQuery, 0)
  \/ \E q \in Queries \cup {NoneQuery} : Node("lookup", q, 0)
  \/ Node("exclude", NoneQuery, 1)
  \/ Node("if", NoneQuery, 2)
  \/ \E n \in 2..MaxNodes : Node("and", NoneQuery, n) \/ Node("or", NoneQuery, n)
  \/ BuildPlan
  \/ \E e \in Envs : Candidates(e)

Spec == Init /\ [][Next]_vars

-------------------------------------------------------------------------------
TypeOK ==
  /\ phase \in {"parse", "plan", "refused", "unanchored", "done"}
  /\ Len(nodes) <= MaxNodes
  /\ \A id \in DOMAIN nodes :
       /\ nodes[id].props \in {None, Anchor, {"free"}, {"scope"}}
       /\ \A c \in ToSet(nodes[id].children) : c < id
  /\ result.set \subseteq Docs

(* What the expression says of one document.                               *)
RECURSIVE Fits(_, _, _)
Fits(e, id, d) ==
  LET node == nodes[id]
      Child(i) == Fits(e, node.children[i], d)
  IN CASE node.kind = "none" -> FALSE
       [] node.kind = "lookup" -> node.query # NoneQuery /\ d \in e.matches[node.query]
       [] node.kind = "exclude" -> ~Child(1)
       [] node.kind = "if" -> IF e.when[node.when] = "true" THEN Child(1) ELSE Child(2)
       [] node.kind = "or" -> \E i \in DOMAIN node.children : Child(i)
       [] node.kind = "and" -> \A i \in DOMAIN node.children : Child(i)

(* An evaluation without error yields exactly the documents the expression *)
(* fits: the choice of the anchor, probing or intersecting, stopping early *)
(* and what queries that fail would have found make no difference to it.   *)
CandidatesExact ==
  (phase = "done" /\ result.error = "none") =>
    result.set = {d \in Docs : Fits(env, Root, d)}

(* A plan the compiler accepted never runs into an EXCLUDE without scope   *)
(* nor into an AND that cannot estimate its anchor, whatever the data.     *)
NeverUnscoped == phase = "done" => result.error \notin {"scope", "estimate"}

(* A plan refused for its root would run into one with some data.          *)
RefusedForAReason ==
  phase = "unanchored" =>
    \E when \in [Conditions -> {"true", "false"}] :
      Eval([matches |-> [q \in Queries |-> Docs], failing |-> {}, when |-> when, threshold |-> 1],
           Root, NoScope).error = "scope"
================================================================================
