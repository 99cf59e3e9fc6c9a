--------------------------- MODULE NodeWorker_proofs ---------------------------
(***************************************************************************)
(* The owner goroutine of a node, for any number of callers and calls:     *)
(* whose answer a caller gets, and what the order "retire, then close"     *)
(* rules out.                                                              *)
(***************************************************************************)
EXTENDS NodeWorker, TLAPS

Values == {"value", "context"}

LEMMA ReplyTyped ==
  ASSUME NEW call \in Calls, NEW value \in Values
  PROVE  Reply(call, value) \in [call : Calls, value : Values]
  BY DEF Reply

LEMMA ThisTyped ==
  ASSUME TypeOK, NEW c \in Callers, pc[c] # "idle", serial[c] > 0
  PROVE  This(c) \in Calls
  BY DEF This, Calls, TypeOK

(* A call in progress has a number.                                        *)
Numbered == \A c \in Callers : pc[c] # "idle" => serial[c] > 0

TypeInv == TypeOK /\ Numbered

LEMMA TypeInit ==
  ASSUME WorkerAssumption PROVE Init => TypeInv
<1>1. 0 \in 0..MaxCalls
  BY DEF WorkerAssumption
<1>2. Idle \in Loops
  BY DEF Loops
<1>3. SUFFICES ASSUME Init PROVE TypeInv
  OBVIOUS
<1>4. pc \in [Callers -> {"idle", "lock", "send", "wait"}] /\ Numbered
  BY <1>3 DEF Init, Numbered
<1>5. serial \in [Callers -> 0..MaxCalls]
  BY <1>1, <1>3 DEF Init
<1>6. cancelled \in [Callers -> BOOLEAN] /\ result \in [Callers -> Results]
  BY <1>3 DEF Init, Results
<1> QED BY <1>2, <1>3, <1>4, <1>5, <1>6 DEF Init, TypeInv, TypeOK

LEMMA TypeStep ==
  ASSUME WorkerAssumption, TypeInv, [Next]_vars PROVE TypeInv'
<1> USE DEF TypeInv, Return
<1>1. ASSUME NEW c \in Callers, Start(c) PROVE TypeInv'
  <2>1. serial[c] + 1 \in 1..MaxCalls
    BY <1>1 DEF Start, TypeOK, WorkerAssumption
  <2> QED BY <1>1, <2>1 DEF Start, TypeOK, Numbered, Results
<1>2. ASSUME NEW c \in Callers, Cancel(c) PROVE TypeInv'
  BY <1>2 DEF Cancel, TypeOK, Numbered
<1>3. ASSUME NEW c \in Callers, AcquireSend(c) PROVE TypeInv'
  BY <1>3 DEF AcquireSend, TypeOK, Numbered
<1>4. ASSUME NEW c \in Callers, HandOver(c) PROVE TypeInv'
  <2>1. This(c) \in Calls
    BY <1>4, ThisTyped DEF HandOver, Numbered
  <2>2. loop' \in Loops
    BY <1>4, <2>1 DEF HandOver, Loops, Running
  <2> QED BY <1>4, <2>2 DEF HandOver, TypeOK, Numbered
<1>5. ASSUME NEW c \in Callers, Refuse(c) PROVE TypeInv'
  BY <1>5 DEF Refuse, TypeOK, Numbered, Results
<1>6. ASSUME NEW c \in Callers, Receive(c) PROVE TypeInv'
  <2>1. PICK reply \in ready : ready' = ready \ {reply} /\ Return(c, reply.value)
    BY <1>6 DEF Receive
  <2>2. reply.value \in Results
    BY <2>1 DEF TypeOK, Results
  <2> QED BY <1>6, <2>1, <2>2 DEF Receive, TypeOK, Numbered
<1>7. ASSUME NEW c \in Callers, GiveUp(c) PROVE TypeInv'
  BY <1>7 DEF GiveUp, TypeOK, Numbered, Results
<1>8. CASE Check
  <2>1. loop.call \in Calls
    BY <1>8 DEF Check, TypeOK, Loops, Idle, Exited
  <2>2. loop' \in Loops
    BY <1>8, <2>1 DEF Check, Loops, Running
  <2>3. ready' \subseteq [call : Calls, value : Values]
    BY <1>8, <2>1, ReplyTyped DEF Check, TypeOK, Values
  <2> QED BY <1>8, <2>2, <2>3 DEF Check, TypeOK, Numbered, Values
<1>9. CASE Apply
  <2>1. loop.call \in Calls
    BY <1>9 DEF Apply, TypeOK, Loops, Idle, Exited
  <2>2. ready' \subseteq [call : Calls, value : Values]
    BY <1>9, <2>1, ReplyTyped DEF Apply, TypeOK, Values
  <2> QED BY <1>9, <2>1, <2>2 DEF Apply, TypeOK, Numbered, Values, Loops
<1>10. CASE Exit
  BY <1>10 DEF Exit, TypeOK, Numbered, Loops
<1>11. CASE Retire
  BY <1>11 DEF Retire, TypeOK, Numbered
<1>12. CASE CloseStep
  BY <1>12 DEF CloseStep, TypeOK, Numbered
<1>13. CASE UNCHANGED vars
  BY <1>13 DEF vars, TypeOK, Numbered
<1> QED BY <1>1, <1>2, <1>3, <1>4, <1>5, <1>6, <1>7, <1>8, <1>9, <1>10, <1>11, <1>12,
           <1>13 DEF Next, Step, Loop

(* Every reachable state of caller, channel and goroutine is well typed.   *)
THEOREM TypeCorrect ==
  ASSUME WorkerAssumption PROVE Spec => []TypeOK
<1>1. Init => TypeInv BY TypeInit
<1>2. TypeInv /\ [Next]_vars => TypeInv' BY TypeStep
<1>3. TypeInv => TypeOK BY DEF TypeInv
<1> QED BY <1>1, <1>2, <1>3, PTL DEF Spec

-------------------------------------------------------------------------------
(* What a reply says has happened.                                         *)
RepliesTrue == \A reply \in ready : reply.value = "value" => reply.call \in executed

AnswerInv == TypeInv /\ RepliesTrue /\ AnswerIsOwn

LEMMA AnswerStep ==
  ASSUME WorkerAssumption, AnswerInv, [Next]_vars PROVE AnswerInv'
<1> USE DEF AnswerInv, Return
<1>0. TypeInv' BY TypeStep
<1>t. TypeOK BY DEF TypeInv
<1>1. ASSUME NEW c \in Callers, Start(c) PROVE RepliesTrue' /\ AnswerIsOwn'
  BY <1>1, <1>t DEF Start, TypeOK, RepliesTrue, AnswerIsOwn, This
<1>2. ASSUME NEW c \in Callers, Cancel(c) \/ AcquireSend(c) \/ HandOver(c)
      PROVE  RepliesTrue' /\ AnswerIsOwn'
  BY <1>2 DEF Cancel, AcquireSend, HandOver, RepliesTrue, AnswerIsOwn, This
<1>3. ASSUME NEW c \in Callers, Refuse(c) \/ GiveUp(c) PROVE RepliesTrue' /\ AnswerIsOwn'
  BY <1>3, <1>t DEF Refuse, GiveUp, TypeOK, RepliesTrue, AnswerIsOwn, This
<1>4. ASSUME NEW c \in Callers, Receive(c) PROVE RepliesTrue' /\ AnswerIsOwn'
  <2>1. PICK reply \in ready :
          Answers(reply, c) /\ ready' = ready \ {reply} /\ Return(c, reply.value)
    BY <1>4 DEF Receive
  <2>2. reply.value = "value" => This(c) \in executed
    BY <2>1 DEF RepliesTrue, Answers
  <2> QED BY <1>4, <1>t, <2>1, <2>2 DEF Receive, TypeOK, RepliesTrue, AnswerIsOwn, This
<1>5. CASE Check
  <2>1. \A reply \in ready' : reply \in ready \/ reply.value = "context"
    BY <1>5 DEF Check, Reply
  <2>2. result' = result /\ serial' = serial /\ executed' = executed
    BY <1>5 DEF Check
  <2> QED BY <1>0, <2>1, <2>2 DEF RepliesTrue, AnswerIsOwn, This
<1>6. CASE Apply
  <2>1. \A reply \in ready' : reply \in ready \/ reply.call = loop.call
    BY <1>6 DEF Apply, Reply
  <2>2. executed' = executed \cup {loop.call} /\ result' = result /\ serial' = serial
    BY <1>6 DEF Apply
  <2> QED BY <1>0, <2>1, <2>2 DEF RepliesTrue, AnswerIsOwn, This
<1>7. CASE Exit \/ Retire \/ CloseStep \/ UNCHANGED vars
  <2>1. result' = result /\ serial' = serial /\ executed' = executed /\ ready' = ready
    BY <1>7 DEF Exit, Retire, CloseStep, vars
  <2> QED BY <1>0, <2>1 DEF RepliesTrue, AnswerIsOwn, This
<1> QED BY <1>0, <1>1, <1>2, <1>3, <1>4, <1>5, <1>6, <1>7 DEF Next, Step, Loop

(* physicalNodeAdapter.call: who gets a value gets it from the command of  *)
(* this very call, after it ran, whichever calls were given up before.     *)
THEOREM OwnAnswer ==
  ASSUME WorkerAssumption PROVE Spec => []AnswerIsOwn
<1>1. Init => AnswerInv
  BY TypeInit DEF Init, AnswerInv, RepliesTrue, AnswerIsOwn
<1>2. AnswerInv /\ [Next]_vars => AnswerInv' BY AnswerStep
<1>3. AnswerInv => AnswerIsOwn BY DEF AnswerInv
<1> QED BY <1>1, <1>2, <1>3, PTL DEF Spec

-------------------------------------------------------------------------------
(* The channel is closed by a close() that follows the retirement, and a   *)
(* node retires when nobody calls it.                                      *)
RetiredFirst ==
  /\ retired => NobodyCalls
  /\ closer # "open" \/ ~open => retired

HostInv == TypeInv /\ RetiredFirst /\ NoSendOnClosed

LEMMA HostStep ==
  ASSUME WorkerAssumption, Hosted, HostInv, [Next]_vars PROVE HostInv'
<1> USE DEF HostInv, Return
<1>0. TypeInv' BY TypeStep
<1>t. TypeOK BY DEF TypeInv
<1>1. ASSUME NEW c \in Callers, Start(c) PROVE RetiredFirst' /\ NoSendOnClosed'
  BY <1>1, <1>t DEF Start, TypeOK, RetiredFirst, NobodyCalls, NoSendOnClosed
<1>2. ASSUME NEW c \in Callers, Cancel(c) \/ AcquireSend(c) \/ HandOver(c)
      PROVE  RetiredFirst' /\ NoSendOnClosed'
  BY <1>2, <1>t DEF Cancel, AcquireSend, HandOver, TypeOK, RetiredFirst, NobodyCalls,
                    NoSendOnClosed
<1>3. ASSUME NEW c \in Callers, Refuse(c) PROVE RetiredFirst' /\ NoSendOnClosed'
  <2>1. open
    BY <1>3 DEF Refuse, RetiredFirst, NobodyCalls
  <2> QED BY <1>3, <1>t, <2>1 DEF Refuse, TypeOK, RetiredFirst, NobodyCalls,
                                  NoSendOnClosed
<1>4. ASSUME NEW c \in Callers, Receive(c) PROVE RetiredFirst' /\ NoSendOnClosed'
  <2>1. PICK reply \in ready : Return(c, reply.value)
    BY <1>4 DEF Receive
  <2>2. reply.value # "panic"
    BY <1>t, <2>1 DEF TypeOK
  <2> QED BY <1>4, <1>t, <2>1, <2>2 DEF Receive, TypeOK, RetiredFirst, NobodyCalls,
                                        NoSendOnClosed
<1>5. ASSUME NEW c \in Callers, GiveUp(c) PROVE RetiredFirst' /\ NoSendOnClosed'
  BY <1>5, <1>t DEF GiveUp, TypeOK, RetiredFirst, NobodyCalls, NoSendOnClosed
<1>6. CASE Check \/ Apply \/ Exit \/ UNCHANGED vars
  <2>1. /\ pc' = pc /\ result' = result /\ open' = open
        /\ closer' = closer /\ retired' = retired
    BY <1>6 DEF Check, Apply, Exit, vars
  <2> QED BY <1>0, <2>1 DEF RetiredFirst, NobodyCalls, NoSendOnClosed
<1>7. CASE Retire \/ CloseStep
  <2>1. pc' = pc /\ result' = result /\ retired'
    BY <1>7 DEF Retire, CloseStep
  <2>2. NobodyCalls
    BY <1>7 DEF Retire, CloseStep, RetiredFirst
  <2> QED BY <1>0, <2>1, <2>2 DEF RetiredFirst, NobodyCalls, NoSendOnClosed
<1> QED BY <1>0, <1>1, <1>2, <1>3, <1>4, <1>5, <1>6, <1>7 DEF Next, Step, Loop

(* Under the host, which retires a node before it closes it, no call ever  *)
(* sends on the channel that close() has closed.                           *)
THEOREM NoPanic ==
  ASSUME WorkerAssumption, Hosted PROVE Spec => []NoSendOnClosed
<1>1. Init => HostInv
  BY TypeInit DEF Init, HostInv, RetiredFirst, NobodyCalls, NoSendOnClosed
<1>2. HostInv /\ [Next]_vars => HostInv' BY HostStep
<1>3. HostInv => NoSendOnClosed BY DEF HostInv
<1> QED BY <1>1, <1>2, <1>3, PTL DEF Spec

-------------------------------------------------------------------------------
Gone == closer = "closed" => loop = Exited

LEMMA GoneStep ==
  ASSUME Gone, [Next]_vars PROVE Gone' /\ (closer = "closed" => executed' = executed)
<1>1. ASSUME NEW c \in Callers, Start(c) \/ Cancel(c) \/ AcquireSend(c) \/ Refuse(c)
                                  \/ Receive(c) \/ GiveUp(c)
      PROVE  Gone' /\ executed' = executed
  BY <1>1 DEF Start, Cancel, AcquireSend, Refuse, Receive, GiveUp, Gone
<1>2. ASSUME NEW c \in Callers, HandOver(c) PROVE Gone' /\ executed' = executed
  BY <1>2 DEF HandOver, Gone, Idle, Exited
<1>3. CASE Check \/ Apply \/ Exit
  <2>1. closer # "closed"
    BY <1>3 DEF Check, Apply, Exit, Gone, Idle, Exited
  <2> QED BY <1>3, <2>1 DEF Check, Apply, Exit, Gone
<1>4. CASE Retire \/ CloseStep \/ UNCHANGED vars
  BY <1>4 DEF Retire, CloseStep, Drained, Done, vars, Gone
<1> QED BY <1>1, <1>2, <1>3, <1>4 DEF Next, Step, Loop

(* When close() has returned the goroutine is gone: no command runs over   *)
(* the Python workers that are closed next.                                *)
THEOREM QuietAfterClose == Spec => NothingRunsAfterClose
<1>1. Init => Gone BY DEF Init, Gone
<1>2. Gone /\ [Next]_vars => Gone' BY GoneStep
<1>3. Gone /\ [Next]_vars => [closer = "closed" => executed' = executed]_vars
  BY GoneStep
<1> QED BY <1>1, <1>2, <1>3, PTL DEF Spec, NothingRunsAfterClose
===============================================================================
