------------------------------ MODULE ObjectFacts ------------------------------
(***************************************************************************)
(* The Object Facts of one TicketID: Frame, ObjectSlot and Writer of       *)
(* internal/matchsystem/fact/frame.go and object_slot.go, with the slot's  *)
(* life in the ticket store.                                               *)
(*                                                                         *)
(* The slot keeps one buffer per list Fact over all generations and a map  *)
(* of the Facts that are present; a map entry is the buffer itself, so the *)
(* map is the set of present names here.  The lists of strings and of      *)
(* uint64 go the same way and are one kind.  A provider is handed no       *)
(* Frame, so that it cannot ask for its own slot again.                    *)
(***************************************************************************)
EXTENDS Naturals, Sequences, FiniteSetsExt

CONSTANTS
  ListFacts,        \* declared list Facts of object scope
  IntFacts,         \* declared int64 Facts of object scope
  MaxValues,        \* [ListFacts -> 1..]: the limits of the contract
  Data,             \* what providers write
  MaxGenerations,   \* bound on the ProduceMatch calls
  MaxWrites,        \* bound on the writes of one provider call
  MaxLives          \* bound on how often the TicketID is added

FactAssumption ==
  /\ ListFacts \cap IntFacts = {}
  /\ MaxValues \in [ListFacts -> Nat \ {0}]
  /\ MaxGenerations \in Nat

VARIABLES
  frame,    \* generation of the current Frame, 0 before the first
  slot,     \* the slot of the TicketID that waits
  borrowed, \* what Frame.Object returned last: [gen, facts] or [gen, error]
  life,     \* history: which insertion of the TicketID this is
  written,  \* history: what the provider of this refresh has written
  calls     \* history: provider calls of this life and generation

vars == <<frame, slot, borrowed, life, written, calls>>

Empty == [f \in ListFacts |-> <<>>]
NoInts == [f \in IntFacts |-> 0]
Nothing == [f \in {} |-> <<>>]

(* Init of a slot; "gone" is a TicketID that does not wait.                *)
Fresh ==
  [state |-> "unseen", gen |-> 0, present |-> {}, buffer |-> Empty,
   cap |-> [f \in ListFacts |-> 0], ints |-> NoInts, growths |-> 0, writes |-> 0]

Init ==
  /\ frame = 0
  /\ slot = Fresh
  /\ borrowed = [gen |-> 0, error |-> FALSE, facts |-> Nothing]
  /\ life = 1
  /\ written = Nothing
  /\ calls = 0

-------------------------------------------------------------------------------
(* Seeded fault: the names go, the buffers keep what they held.            *)
ResetNamesOnly(s) == [s EXCEPT !.present = {}]

(* resetValues keeps the buffers' arrays for the next generation.          *)
ResetValues(s) == [s EXCEPT !.present = {}, !.buffer = Empty]

(* Seeded fault: the slot runs ahead of the frame.                         *)
ForGenerationAhead(s, gen) ==
  IF s.gen = gen THEN s
  ELSE [ResetValues(s) EXCEPT !.gen = gen + 1, !.state = "unseen", !.growths = 0, !.writes = 0]

ForGeneration(s, gen) ==
  IF s.gen = gen THEN s
  ELSE [ResetValues(s) EXCEPT !.gen = gen, !.state = "unseen", !.growths = 0, !.writes = 0]

(* The Values layer the slot shows.                                        *)
Layer(s) ==
  [f \in s.present |-> IF f \in ListFacts THEN s.buffer[f] ELSE s.ints[f]]

Refreshing == slot.state = "refreshing"
Gone == slot.state = "gone"

(* NewFrame: ProduceMatch begins with the next generation.                 *)
NewFrame ==
  /\ ~Refreshing
  /\ frame < MaxGenerations
  /\ frame' = frame + 1
  /\ calls' = 0
  /\ UNCHANGED <<slot, borrowed, life, written>>

(* Seeded fault: a failed slot asks the provider again.                    *)
SettledIfReady(s) == s.state = "ready"

Settled(s) == s.state \in {"ready", "failed"}

(* Frame.Object: a settled slot answers at once, the same error again if   *)
(* it failed; any other one calls the provider.                            *)
Object ==
  LET s == ForGeneration(slot, frame)
  IN
  /\ frame # 0
  /\ ~Refreshing /\ ~Gone
  /\ IF Settled(s)
     THEN /\ slot' = s
          /\ borrowed' = [gen |-> frame, error |-> s.state = "failed",
                          facts |-> IF s.state = "ready" THEN Layer(s) ELSE Nothing]
          /\ UNCHANGED <<calls, written>>
     ELSE /\ slot' = [s EXCEPT !.state = "refreshing"]
          /\ calls' = calls + 1
          /\ written' = Nothing
          /\ UNCHANGED borrowed
  /\ UNCHANGED <<frame, life>>

-------------------------------------------------------------------------------
(* The Writer.  A refused write changes nothing and is left out; providers *)
(* may go on after one.                                                    *)

(* Seeded fault: the array gets room for twice what is needed.             *)
GrownTwice(cap, need) == IF cap < need THEN need * 2 ELSE cap

Grown(cap, need) == IF cap < need THEN Max({cap * 2, 1, need}) ELSE cap

Wrote(name, value) == [f \in DOMAIN written \cup {name} |->
                         IF f = name THEN value ELSE written[f]]

(* Seeded fault: the limit is compared with the length before the write.   *)
AllowedBefore(f, n) == n - 1 <= MaxValues[f]

Allowed(f, n) == n <= MaxValues[f]

Publish(f, list) ==
  slot' = [slot EXCEPT !.present = @ \cup {f}, !.buffer[f] = list,
             !.cap[f] = Grown(@, Len(list)),
             !.growths = IF slot.cap[f] < Len(list) THEN @ + 1 ELSE @,
             !.writes = @ + 1]

(* SetStrings, SetUint64s; also what CopyFrom does per name.               *)
SetList(f, list) ==
  /\ Refreshing
  /\ slot.writes < MaxWrites
  /\ Allowed(f, Len(list))
  /\ Publish(f, list)
  /\ written' = Wrote(f, list)
  /\ UNCHANGED <<frame, borrowed, life, calls>>

(* AppendString, AppendUint64 start from the buffer.                       *)
AppendTo(f, value) ==
  /\ Refreshing
  /\ slot.writes < MaxWrites
  /\ Allowed(f, Len(slot.buffer[f]) + 1)
  /\ Publish(f, Append(slot.buffer[f], value))
  /\ written' = Wrote(f, Append(IF f \in DOMAIN written THEN written[f] ELSE <<>>, value))
  /\ UNCHANGED <<frame, borrowed, life, calls>>

SetInt(f, value) ==
  /\ Refreshing
  /\ slot.writes < MaxWrites
  /\ slot' = [slot EXCEPT !.present = @ \cup {f}, !.ints[f] = value, !.writes = @ + 1]
  /\ written' = Wrote(f, value)
  /\ UNCHANGED <<frame, borrowed, life, calls>>

(* Seeded fault: what a failing provider had written stays.                *)
FailedKeeping(s) == [s EXCEPT !.state = "ready"]

Failed(s) == [ResetValues(s) EXCEPT !.state = "failed"]

(* The provider returns; an error takes back what it had written.          *)
ProviderReturns(error) ==
  /\ Refreshing
  /\ slot' = IF error THEN Failed(slot) ELSE [slot EXCEPT !.state = "ready"]
  /\ borrowed' = [gen |-> frame, error |-> error,
                  facts |-> IF error THEN Nothing ELSE Layer(slot)]
  /\ UNCHANGED <<frame, life, written, calls>>

-------------------------------------------------------------------------------
(* The ticket store: Invalidate when the ticket is removed or committed, a *)
(* slot of its own when the TicketID is added again.                       *)

Remove ==
  /\ ~Refreshing /\ ~Gone
  /\ slot' = [ResetValues(slot) EXCEPT !.state = "gone", !.gen = 0]
  /\ UNCHANGED <<frame, borrowed, life, written, calls>>

Add ==
  /\ Gone
  /\ life < MaxLives
  /\ life' = life + 1
  /\ slot' = Fresh
  /\ calls' = 0
  /\ UNCHANGED <<frame, borrowed, written>>

Next ==
  \/ NewFrame \/ Object \/ Remove \/ Add
  \/ \E f \in ListFacts :
       \/ \E list \in UNION {[1..n -> Data] : n \in 0..MaxValues[f] + 1} : SetList(f, list)
       \/ \E value \in Data : AppendTo(f, value)
  \/ \E f \in IntFacts, value \in Data : SetInt(f, value)
  \/ \E error \in BOOLEAN : ProviderReturns(error)

Spec == Init /\ [][Next]_vars

-------------------------------------------------------------------------------
TypeOK ==
  /\ frame \in 0..MaxGenerations
  /\ slot.state \in {"unseen", "refreshing", "ready", "failed", "gone"}
  /\ slot.gen \in 0..frame
  /\ slot.present \subseteq ListFacts \cup IntFacts
  /\ borrowed.error \in BOOLEAN

(* Whoever asks in a generation gets exactly what the provider wrote for   *)
(* this ticket in this generation: nothing of an earlier generation, of an *)
(* earlier ticket with the TicketID, or of a provider call that failed,    *)
(* although buffers and maps are used again.                               *)
ServedIsWritten ==
  (slot.state = "ready" /\ slot.gen = frame) => calls = 1 /\ Layer(slot) = written

(* The provider runs at most once per ticket and generation, whether it    *)
(* succeeds or fails, so that all stages of a call see the same Facts.     *)
ProviderRunsOnce == calls <= 1

(* Within a generation every caller gets the same answer.                  *)
AnswerIsStable ==
  [][borrowed.gen = frame /\ borrowed'.gen = frame /\ life' = life /\ calls' = calls
       /\ calls = 1 /\ ~Refreshing => borrowed' = borrowed]_vars

(* No sequence of writes, appends and errors over any generations brings a *)
(* Fact beyond its limit, and the arrays stay below twice the limit.       *)
LimitsHold ==
  slot.state # "gone" =>
    \A f \in ListFacts :
      /\ Len(slot.buffer[f]) <= MaxValues[f]
      /\ slot.cap[f] < 2 * MaxValues[f]
================================================================================
