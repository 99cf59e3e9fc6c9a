------------------------------ MODULE MCProviders ------------------------------
(***************************************************************************)
(* The Facts a match is made of: the process that runs a Python provider   *)
(* (the module extended), how a provider is bound to a rule and what it    *)
(* may return, and the slot that keeps the Object Facts of a ticket.  A    *)
(* behaviour picks one of the three and leaves the others in their initial *)
(* state.                                                                  *)
(***************************************************************************)
EXTENDS PythonWorker, Integers

VARIABLES
  part,
  frame, slot, borrowed, life, written, provided,
  contract, python, present, descriptor, phase, layer, verdict

slotVars == <<frame, slot, borrowed, life, written, provided>>
bindingVars == <<contract, python, present, descriptor, phase, layer, verdict>>
mcVars == <<part, vars, slotVars, bindingVars>>

Slot == INSTANCE ObjectFacts WITH
  ListFacts <- {"tags"}, IntFacts <- {"level"}, MaxValues <- [f \in {"tags"} |-> 3],
  Data <- {1, 2}, MaxGenerations <- 3, MaxWrites <- 3, MaxLives <- 2,
  calls <- provided

-------------------------------------------------------------------------------
Fact(n, t, s, m) == [name |-> n, type |-> t, scope |-> s, max |-> m]

(* The lists a rule may declare, and some it may not.                      *)
DeclaredFacts == {
  <<>>,
  <<Fact(1, "int64", "match", 0)>>,
  <<Fact(1, "list", "match", 2)>>,
  <<Fact(1, "list", "tick", 1)>>,
  <<Fact(2, "list", "match", 1), Fact(1, "int64", "match", 0)>>,
  <<Fact(2, "int64", "tick", 0), Fact(1, "list", "match", 2)>>,
  <<Fact(1, "int64", "match", 0), Fact(1, "int64", "match", 0)>>,
  <<Fact(0, "int64", "match", 0)>>,
  <<Fact(1, "list", "match", 0)>>,
  <<Fact(1, "int64", "match", 1)>>,
  <<Fact(1, "bool", "match", 1)>>,
  <<Fact(1, "int64", "none", 0)>>}

OneFact ==
  {Fact(n, t, s, m) :
     n \in 0..2, t \in {"list", "int64", "bool"}, s \in {"tick", "match"}, m \in 0..2}

Described ==
  {[id |-> i, version |-> "v", facts |-> f] :
     i \in {"", "p"}, f \in {<<>>} \cup {<<s>> : s \in OneFact}}
  \cup
  {[id |-> "p", version |-> "v", facts |-> <<s, t>>] :
     s \in {x \in OneFact : x.scope = "match" /\ x.name > 0}, t \in {x \in OneFact : x.name > 0}}
  \cup {[id |-> "p", version |-> "", facts |-> <<>>]}

Entries ==
  {[name |-> n, type |-> "list", count |-> c] : n \in 1..2, c \in 0..2}
    \cup {[name |-> n, type |-> "int64", count |-> 1] : n \in 1..3}

Binding == INSTANCE ProviderHandshake WITH
  Contracts <- DeclaredFacts, Descriptors <- Described, Scope <- "match",
  Layers <- {s \in SUBSET Entries : Cardinality(s) <= 2}

ASSUME Bounds ==
  Slot!FactAssumption /\ Binding!HandshakeAssumption

-------------------------------------------------------------------------------
MCInit ==
  /\ Init /\ Slot!Init
  /\ \/ part = "binding" /\ Binding!Init
     \/ /\ part \in {"python", "slot"}
        /\ contract = <<>> /\ python = FALSE /\ present = FALSE /\ phase = "rule"
        /\ descriptor = Binding!NoDescriptor /\ layer = {} /\ verdict = "ok"

MCNext ==
  \/ part = "python" /\ Next /\ UNCHANGED <<part, slotVars, bindingVars>>
  \/ part = "slot" /\ Slot!Next /\ UNCHANGED <<part, vars, bindingVars>>
  \/ part = "binding" /\ Binding!Next /\ UNCHANGED <<part, vars, slotVars>>

(* The goroutines of the Python worker run, as in its own specification.   *)
MCFairness ==
  /\ \A n \in Numbers :
       /\ WF_vars(part = "python" /\ Write(n))
       /\ WF_vars(part = "python" /\ Read(n))
  /\ \A c \in Callers :
       /\ WF_vars(part = "python" /\ Timer(c))
       /\ SF_vars(part = "python" /\ Acquire(c))
       /\ WF_vars(part = "python" /\ Receive(c))
       /\ WF_vars(part = "python" /\ GiveUp(c))
       /\ WF_vars(part = "python" /\ Drain(c))
       /\ SF_vars(part = "python" /\ \E accepts \in BOOLEAN : Output(c, accepts))

MCSpec == MCInit /\ [][MCNext]_mcVars /\ MCFairness

-------------------------------------------------------------------------------
(* A provider that keeps to its descriptor is never refused at run time,   *)
(* what the evaluator is given fits the rule, and no rule runs without a   *)
(* provider for every Fact it uses.                                        *)
HonestIsServed ==
  /\ Binding!TypeOK /\ Binding!HonestIsServed /\ Binding!ServedFitsRule
  /\ Binding!NoFactUnserved /\ Binding!ExtrasWellFormed

(* A provider that was bound is served, and who asks for the Facts of a    *)
(* ticket gets what its provider wrote for this ticket in this generation, *)
(* the same for every caller, from one call and within the limits,         *)
(* although the buffers are used again.                                    *)
FactsServed ==
  /\ [](TypeOK /\ (part = "binding" => HonestIsServed))
  /\ [](/\ Slot!TypeOK /\ Slot!ServedIsWritten
        /\ Slot!ProviderRunsOnce /\ Slot!LimitsHold)
  /\ Slot!AnswerIsStable
===============================================================================
