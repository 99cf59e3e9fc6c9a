------------------------------ MODULE NodeWorker -------------------------------
(***************************************************************************)
(* internal/simulator/worker.go: the owner goroutine of one PhysicalNode.  *)
(* Callers hand a command over an unbuffered channel and wait for a reply  *)
(* on a channel of their own call; a caller whose context is done leaves   *)
(* at once and the command it handed over still runs.                      *)
(*                                                                         *)
(* Hosted states the discipline of service.go: a node is closed only after *)
(* its runtime was retired under the mutex every call holds.               *)
(***************************************************************************)
EXTENDS Naturals, FiniteSets

CONSTANTS
  Callers,
  MaxCalls,   \* bound on the calls each caller makes
  Hosted      \* whether callers reach the node through Simulator.mu only

WorkerAssumption ==
  /\ IsFiniteSet(Callers)
  /\ MaxCalls \in Nat \ {0}
  /\ Hosted \in BOOLEAN

VARIABLES
  pc,         \* per caller: idle, lock, send, wait
  serial,     \* per caller: number of its latest call
  cancelled,  \* per caller: whether the context of that call is done
  result,     \* per caller: what its latest call returned
  reading,    \* callers that hold sendMu.RLock
  open,       \* the commands channel is not closed
  loop,       \* the owner goroutine: the command it runs, Idle or Exited
  ready,      \* replies in the one-place buffers of the calls
  closer,     \* close(): open, locking, closing, draining, closed
  retired,    \* the host no longer publishes this node
  executed    \* history: the commands whose apply ran

vars == <<pc, serial, cancelled, result, reading, open, loop, ready, closer,
          retired, executed>>

Calls == Callers \X (1..MaxCalls)
Idle == [phase |-> "receive"]
Exited == [phase |-> "exited"]
Running(phase, call) == [phase |-> phase, call |-> call]
Loops == {Idle, Exited} \cup
         [phase : {"taken", "applying"}, call : Calls]
Results == {"none", "value", "context", "stopped", "panic"}
Reply(call, value) == [call |-> call, value |-> value]

(* Seeded fault: the request is built before it is numbered.               *)
ThisUnnumbered(c) == <<c, 0>>

This(c) == <<c, serial[c]>>
Done == loop = Exited

Init ==
  /\ pc = [c \in Callers |-> "idle"]
  /\ serial = [c \in Callers |-> 0]
  /\ cancelled = [c \in Callers |-> FALSE]
  /\ result = [c \in Callers |-> "none"]
  /\ reading = {}
  /\ open = TRUE
  /\ loop = Idle
  /\ ready = {}
  /\ closer = "open"
  /\ retired = FALSE
  /\ executed = {}

-------------------------------------------------------------------------------
(* call().                                                                 *)

Return(c, value) ==
  /\ pc' = [pc EXCEPT ![c] = "idle"]
  /\ result' = [result EXCEPT ![c] = value]

Start(c) ==
  /\ pc[c] = "idle"
  /\ result[c] # "panic"
  /\ serial[c] < MaxCalls
  /\ Hosted => ~retired
  /\ serial' = [serial EXCEPT ![c] = @ + 1]
  /\ cancelled' = [cancelled EXCEPT ![c] = FALSE]
  /\ result' = [result EXCEPT ![c] = "none"]
  /\ pc' = [pc EXCEPT ![c] = "lock"]
  /\ UNCHANGED <<reading, open, loop, ready, closer, retired, executed>>

Cancel(c) ==
  /\ pc[c] # "idle"
  /\ ~cancelled[c]
  /\ cancelled' = [cancelled EXCEPT ![c] = TRUE]
  /\ UNCHANGED <<pc, serial, result, reading, open, loop, ready, closer,
                 retired, executed>>

(* A writer that waits keeps new readers out.                              *)
AcquireSend(c) ==
  /\ pc[c] = "lock"
  /\ closer \notin {"locking", "closing"}
  /\ reading' = reading \cup {c}
  /\ pc' = [pc EXCEPT ![c] = "send"]
  /\ UNCHANGED <<serial, cancelled, result, open, loop, ready, closer, retired,
                 executed>>

HandOver(c) ==
  /\ pc[c] = "send"
  /\ open
  /\ loop = Idle
  /\ loop' = Running("taken", This(c))
  /\ reading' = reading \ {c}
  /\ pc' = [pc EXCEPT ![c] = "wait"]
  /\ UNCHANGED <<serial, cancelled, result, open, ready, closer, retired,
                 executed>>

(* The other branches of the first select.  A send on a closed channel is  *)
(* always able to proceed, and panics.                                     *)
Refuse(c) ==
  /\ pc[c] = "send"
  /\ \/ cancelled[c] /\ Return(c, "context")
     \/ Done /\ Return(c, "stopped")
     \/ ~open /\ Return(c, "panic")
  /\ reading' = reading \ {c}
  /\ UNCHANGED <<serial, cancelled, open, loop, ready, closer, retired,
                 executed>>

(* Seeded fault: one reply channel per caller instead of one per call.     *)
AnswersCaller(reply, c) == reply.call[1] = c

Answers(reply, c) == reply.call = This(c)

Receive(c) ==
  /\ pc[c] = "wait"
  /\ \E reply \in ready :
       /\ Answers(reply, c)
       /\ ready' = ready \ {reply}
       /\ Return(c, reply.value)
  /\ UNCHANGED <<serial, cancelled, reading, open, loop, closer, retired,
                 executed>>

GiveUp(c) ==
  /\ pc[c] = "wait"
  /\ \/ cancelled[c] /\ Return(c, "context")
     \/ Done /\ Return(c, "stopped")
  /\ UNCHANGED <<serial, cancelled, reading, open, loop, ready, closer,
                 retired, executed>>

-------------------------------------------------------------------------------
(* loop().  Whether the context is done is read before apply runs.         *)

ContextDone(call) == cancelled[call[1]] \/ serial[call[1]] > call[2]

Check ==
  /\ loop.phase = "taken"
  /\ IF ContextDone(loop.call)
       THEN /\ loop' = Idle
            /\ ready' = ready \cup {Reply(loop.call, "context")}
       ELSE /\ loop' = Running("applying", loop.call)
            /\ UNCHANGED ready
  /\ UNCHANGED <<pc, serial, cancelled, result, reading, open, closer, retired,
                 executed>>

(* Seeded fault: an unbuffered reply channel, which a caller that left     *)
(* never reads.                                                            *)
CanReply(call) == serial[call[1]] = call[2] /\ pc[call[1]] = "wait"

Buffered(call) == call \notin {reply.call : reply \in ready}

Apply ==
  /\ loop.phase = "applying"
  /\ Buffered(loop.call)
  /\ executed' = executed \cup {loop.call}
  /\ ready' = ready \cup {Reply(loop.call, "value")}
  /\ loop' = Idle
  /\ UNCHANGED <<pc, serial, cancelled, result, reading, open, closer, retired>>

Exit ==
  /\ loop = Idle
  /\ ~open
  /\ loop' = Exited
  /\ UNCHANGED <<pc, serial, cancelled, result, reading, open, ready, closer,
                 retired, executed>>

-------------------------------------------------------------------------------
(* close() and the retirement that precedes it.                            *)

(* Seeded fault: the host retires a node under running calls.              *)
NobodyWaits == TRUE

NobodyCalls == \A c \in Callers : pc[c] = "idle"

Retire ==
  /\ ~retired
  /\ Hosted => NobodyCalls
  /\ retired' = TRUE
  /\ UNCHANGED <<pc, serial, cancelled, result, reading, open, loop, ready,
                 closer, executed>>

(* Seeded fault: close does not wait for the goroutine.                    *)
DrainedAtOnce == TRUE

Drained == Done

CloseStep ==
  /\ retired
  /\ \/ closer = "open" /\ closer' = "locking" /\ UNCHANGED open
     \/ closer = "locking" /\ reading = {} /\ closer' = "closing" /\ open' = FALSE
     \/ closer = "closing" /\ closer' = "draining" /\ UNCHANGED open
     \/ closer = "draining" /\ Drained /\ closer' = "closed" /\ UNCHANGED open
  /\ UNCHANGED <<pc, serial, cancelled, result, reading, loop, ready, retired,
                 executed>>

Step(c) == AcquireSend(c) \/ HandOver(c) \/ Refuse(c) \/ Receive(c) \/ GiveUp(c)
Loop == Check \/ Apply \/ Exit

Next ==
  \/ \E c \in Callers : Start(c) \/ Cancel(c) \/ Step(c)
  \/ Loop
  \/ Retire \/ CloseStep

(* A send that stays possible is taken: blocked senders queue up in order. *)
Fairness ==
  /\ \A c \in Callers : WF_vars(Step(c)) /\ SF_vars(HandOver(c))
  /\ WF_vars(Loop)
  /\ WF_vars(CloseStep)

Spec == Init /\ [][Next]_vars /\ Fairness

-------------------------------------------------------------------------------
TypeOK ==
  /\ pc \in [Callers -> {"idle", "lock", "send", "wait"}]
  /\ serial \in [Callers -> 0..MaxCalls]
  /\ cancelled \in [Callers -> BOOLEAN]
  /\ result \in [Callers -> Results]
  /\ reading \subseteq Callers
  /\ open \in BOOLEAN
  /\ loop \in Loops
  /\ ready \subseteq [call : Calls, value : {"value", "context"}]
  /\ closer \in {"open", "locking", "closing", "draining", "closed"}
  /\ retired \in BOOLEAN
  /\ executed \subseteq Calls

(* A call on a node that is being closed ends with the error "PhysicalNode *)
(* worker is stopped"; no goroutine ever sends on the closed channel.      *)
NoSendOnClosed == \A c \in Callers : result[c] # "panic"

(* A caller is answered by the command of this very call, never by that of *)
(* an earlier one it gave up, and only after that command ran.             *)
AnswerIsOwn ==
  \A c \in Callers : result[c] = "value" => This(c) \in executed

(* When close() has returned, no command touches the node any more: its    *)
(* Python workers are closed next.                                         *)
NothingRunsAfterClose == [][closer = "closed" => executed' = executed]_vars

(* Every call returns, whatever other callers abandon.                     *)
CallsReturn == \A c \in Callers : pc[c] # "idle" ~> pc[c] = "idle"

(* close() returns: abandoned commands do not keep the goroutine alive.    *)
CloseReturns == retired ~> closer = "closed"

===============================================================================
