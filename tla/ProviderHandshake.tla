--------------------------- MODULE ProviderHandshake ---------------------------
(***************************************************************************)
(* How the Fact provider of one scope is bound to a rule, and what it may  *)
(* return afterwards: the Validator of internal/matchsystem/fact,          *)
(* validateProviderHandshake of provider_descriptor.go, the descriptor a   *)
(* Python script sends (simulator/python_provider.go) and the validating   *)
(* providers of simulator/service.go.                                      *)
(*                                                                         *)
(* A Fact declaration is [name, type, scope, max]; names are numbers, in   *)
(* the order in which the code sorts them, and 0 is the empty name.  The   *)
(* two list types go the same way and are one.  A layer is a set of        *)
(* [name, type, count] entries, one for each entry of its type maps.       *)
(***************************************************************************)
EXTENDS Integers, Sequences, FiniteSetsExt, SequencesExt

CONSTANTS
  Contracts,    \* the Fact lists rules declare
  Descriptors,  \* what providers describe: [id, version, facts]
  Layers,       \* what providers return
  Scope         \* the scope of the provider at hand

NoDescriptor == [none |-> TRUE]

FactSpecs == [name : Nat, type : STRING, scope : STRING, max : Int]

HandshakeAssumption ==
  /\ Scope \in {"tick", "object", "match"}
  /\ Contracts \subseteq Seq(FactSpecs)
  /\ \A d \in Descriptors : d.facts \in Seq(FactSpecs)
  /\ \A values \in Layers : \A e \in values : e.name \in Nat /\ e.count \in Nat

VARIABLES
  contract,   \* the Facts of the rule
  python,     \* the provider is a script
  present,    \* there is a provider
  descriptor, \* what it describes; none when its Describe fails
  phase,      \* "rule", "script", "load", "serving" or "refused"
  layer,      \* what the provider returned last
  verdict     \* of the last step: "ok" or the code of the error

vars == <<contract, python, present, descriptor, phase, layer, verdict>>

Init ==
  /\ contract \in Contracts
  /\ python \in BOOLEAN
  /\ present \in BOOLEAN
  /\ descriptor \in Descriptors \cup {NoDescriptor}
  /\ python => descriptor # NoDescriptor
  /\ descriptor # NoDescriptor => present
  /\ phase = "rule"
  /\ layer = {}
  /\ verdict = "ok"

-------------------------------------------------------------------------------
(* Declarations.                                                           *)

Names(specs) == {s.name : s \in specs}

(* The declaration of a name, names being declared once.                   *)
ByName(specs, name) == CHOOSE s \in specs : s.name = name

Check(fails, code) == IF fails THEN code ELSE "ok"

(* The code of the first check that fails: of a list in its order, of the  *)
(* Facts by name.                                                          *)
First(codes) ==
  LET failed == {i \in DOMAIN codes : codes[i] # "ok"}
  IN IF failed = {} THEN "ok" ELSE codes[Min(failed)]

(* NewValidator: the first declaration that is not valid decides.          *)
InvalidSpec(specs, i) ==
  LET s == specs[i]
  IN First(<<
       Check(s.name = 0, "INVALID_FACT"),
       Check(s.type \notin {"list", "int64"}, "INVALID_FACT"),
       Check(s.scope \notin {"tick", "object", "match"}, "INVALID_FACT_SCOPE"),
       Check(s.type = "int64" /\ s.max # 0, "INVALID_FACT_LIMIT"),
       Check(s.type = "list" /\ s.max <= 0, "INVALID_FACT_LIMIT"),
       Check(\E j \in 1..(i - 1) : specs[j].name = s.name, "DUPLICATE_FACT")>>)

(* Seeded fault: a name may be declared again.                             *)
NewValidatorEach(specs) ==
  First([i \in DOMAIN specs |-> InvalidSpec(<<specs[i]>>, 1)])

NewValidator(specs) == First([i \in DOMAIN specs |-> InvalidSpec(specs, i)])

(* The handshake sees the declarations of its scope only.                  *)
OfScope == {s \in ToSet(contract) : s.scope = Scope}

-------------------------------------------------------------------------------
(* The handshake.                                                          *)

(* Seeded fault: the limits of the two sides are not compared.             *)
MismatchWithoutLimit(want, got) ==
  First(<<
    Check(got.scope # want.scope, "FACT_SCOPE_MISMATCH"),
    Check(got.type # want.type, "FACT_TYPE_MISMATCH")>>)

Mismatch(want, got) ==
  First(<<
    Check(got.scope # want.scope, "FACT_SCOPE_MISMATCH"),
    Check(got.type # want.type, "FACT_TYPE_MISMATCH"),
    Check(got.max # want.max, "FACT_MAX_VALUES_MISMATCH")>>)

(* Seeded fault: Facts the rule does not use are not looked at.            *)
InvalidExtraIgnored(s) == "ok"

InvalidExtra(s) ==
  First(<<
    Check(s.scope # Scope, "FACT_SCOPE_MISMATCH"),
    Check(s.type = "list" /\ s.max <= 0, "INVALID_DESCRIPTOR"),
    Check(s.type = "int64" /\ s.max # 0, "INVALID_DESCRIPTOR"),
    Check(s.type \notin {"list", "int64"}, "INVALID_DESCRIPTOR")>>)

(* The facts a descriptor lists, in its order.                             *)
Listed(facts) ==
  First([i \in DOMAIN facts |->
    First(<<
      Check(facts[i].name = 0, "INVALID_DESCRIPTOR"),
      Check(\E j \in 1..(i - 1) : facts[j].name = facts[i].name, "DUPLICATE_FACT")>>)])

(* Seeded fault: a missing Fact is taken as one the provider leaves out.   *)
CoveredIfListed(expected, facts) ==
  First([name \in Names(expected) \cap Names(facts) |->
    Mismatch(ByName(expected, name), ByName(facts, name))])

(* Every Fact of the rule, by name.                                        *)
Covered(expected, facts) ==
  First([name \in Names(expected) |->
    IF name \notin Names(facts) THEN "MISSING_FACT"
    ELSE Mismatch(ByName(expected, name), ByName(facts, name))])

(* The Facts beyond those of the rule, by name.                            *)
Extras(expected, facts) ==
  First([name \in Names(facts) \ Names(expected) |-> InvalidExtra(ByName(facts, name))])

(* validateProviderHandshake.                                              *)
Handshake(expected, d) ==
  IF expected # {} /\ ~present THEN "MISSING_PROVIDER"
  ELSE IF d = NoDescriptor THEN Check(expected # {}, "MISSING_DESCRIPTOR")
  ELSE First(<<
    Check((expected # {} \/ d.facts # <<>>) /\ (d.id = "" \/ d.version = ""), "INVALID_DESCRIPTOR"),
    Listed(d.facts),
    Covered(expected, ToSet(d.facts)),
    Extras(expected, ToSet(d.facts))>>)

-------------------------------------------------------------------------------
(* Layers.                                                                 *)

InvalidEntry(e) ==
  IF e.name \notin Names(ToSet(contract)) THEN "UNDECLARED_FACT"
  ELSE LET s == ByName(ToSet(contract), e.name)
       IN First(<<
            Check(s.type # e.type, "FACT_TYPE_MISMATCH"),
            Check(s.scope # Scope, "FACT_SCOPE_MISMATCH"),
            Check(s.max > 0 /\ e.count > s.max, "FACT_VALUE_LIMIT")>>)

(* ValidateLayer: a name in two type maps first, then entry by entry.      *)
ValidateLayer(values) ==
  LET bad == {e \in values : InvalidEntry(e) # "ok"}
  IN IF \E e, f \in values : e # f /\ e.name = f.name THEN "FACT_TYPE_COLLISION"
     ELSE IF bad # {} THEN InvalidEntry(CHOOSE e \in bad : TRUE)
     ELSE "ok"

(* Seeded fault: a Match layer may be incomplete.                          *)
ValidateAsPatch(values) == ValidateLayer(values)

(* A Match layer has every declared Match Fact.                            *)
Validate(values) ==
  First(<<
    ValidateLayer(values),
    Check(Scope = "match" /\ ~(Names(OfScope) \subseteq Names(values)), "MATCH_FACT_INCOMPLETE")>>)

-------------------------------------------------------------------------------
Goes(next, code) ==
  /\ verdict' = code
  /\ phase' = IF code = "ok" THEN next ELSE "refused"

(* The rule compiles its contract.                                         *)
CompileRule ==
  /\ phase = "rule"
  /\ Goes(IF python THEN "script" ELSE "load", NewValidator(contract))
  /\ UNCHANGED <<contract, python, present, descriptor, layer>>

(* A script sends its descriptor in its first reply.  A scope it leaves    *)
(* out has no provider, or the in-process one of the simulator.            *)
ParseDescriptor ==
  /\ phase = "script"
  /\ Goes("load",
       IF descriptor.id = "" \/ descriptor.version = "" THEN "INVALID_DESCRIPTOR"
       ELSE NewValidator(descriptor.facts))
  /\ UNCHANGED <<contract, python, present, descriptor, layer>>

(* The LogicalNode is loaded.                                              *)
Load ==
  /\ phase = "load"
  /\ Goes("serving", IF present /\ descriptor = NoDescriptor THEN "DESCRIBE_FAILED"
                     ELSE Handshake(OfScope, descriptor))
  /\ UNCHANGED <<contract, python, present, descriptor, layer>>

(* A call of the provider; a script fails for good at the first layer that *)
(* is refused, an in-process provider may be called again.                 *)
Provide(values) ==
  /\ phase = "serving"
  /\ present
  /\ layer' = values
  /\ verdict' = Validate(values)
  /\ phase' = IF python /\ verdict' # "ok" THEN "refused" ELSE phase
  /\ UNCHANGED <<contract, python, present, descriptor>>

Next ==
  \/ CompileRule \/ ParseDescriptor \/ Load
  \/ \E values \in Layers : Provide(values)

Spec == Init /\ [][Next]_vars

-------------------------------------------------------------------------------
WellDeclared(specs) ==
  /\ \A i, j \in DOMAIN specs : specs[i].name = specs[j].name => i = j
  /\ \A i \in DOMAIN specs :
       specs[i].type \in {"list", "int64"} /\ (specs[i].type = "int64") = (specs[i].max = 0)

TypeOK ==
  /\ phase \in {"rule", "script", "load", "serving", "refused"}
  /\ phase \in {"script", "load", "serving"} => WellDeclared(contract)

(* What a layer holds when it fits declarations.                           *)
Fits(values, specs) ==
  /\ \A e, f \in values : e.name = f.name => e = f
  /\ \A e \in values : \E s \in specs :
       /\ s.name = e.name /\ s.type = e.type /\ s.scope = Scope
       /\ e.type = "list" => e.count <= s.max

(* Handshake and validation agree: a provider that keeps to its own        *)
(* descriptor, and returns only Facts the rule uses and for a match all of *)
(* them, is never refused at run time.                                     *)
HonestIsServed ==
  /\ phase = "serving" /\ descriptor # NoDescriptor
  => \A values \in Layers :
       /\ Fits(values, ToSet(descriptor.facts))
       /\ Names(values) \subseteq Names(OfScope)
       /\ Scope = "match" => Names(values) = Names(OfScope)
       => Validate(values) = "ok"

(* What reaches the evaluator has the types, the scope and the limits the  *)
(* rule was compiled for; a Match layer has all its Facts.                 *)
ServedFitsRule ==
  phase = "serving" /\ verdict = "ok" /\ layer # {} =>
    /\ Fits(layer, ToSet(contract))
    /\ Scope = "match" => Names(layer) = Names(OfScope)

(* A rule that uses Facts of the scope never runs without a provider for   *)
(* every one of them.                                                      *)
NoFactUnserved ==
  phase = "serving" /\ OfScope # {} =>
    present /\ OfScope \subseteq ToSet(descriptor.facts)

(* Facts beyond the rule are declared well and for the provider's scope.   *)
ExtrasWellFormed ==
  phase = "serving" /\ descriptor # NoDescriptor =>
    /\ WellDeclared(descriptor.facts)
    /\ \A i \in DOMAIN descriptor.facts : descriptor.facts[i].scope = Scope
================================================================================
