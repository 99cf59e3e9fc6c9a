------------------------------ MODULE PythonWorker ------------------------------
(***************************************************************************)
(* internal/simulator/python_provider.go: the PythonWorker, an interpreter *)
(* process that answers one JSON line per request line, and the calls that *)
(* share it.  A request carries no identifier: that a reply belongs to the *)
(* request before it rests on the mutex and on what a timeout does.        *)
(*                                                                         *)
(* Requests are numbered here, in the order they are made.  A reply is bad *)
(* when the script reports an error, breaks the protocol, or returns Facts *)
(* or descriptors that validation refuses.                                 *)
(***************************************************************************)
EXTENDS Naturals, FiniteSets, Sequences

CONSTANTS
  Callers,      \* goroutines: owner goroutines and the host
  MaxCalls,     \* bound on the requests
  Hangs         \* TRUE if the script may stop answering

ASSUME WorkerAssumption ==
  /\ MaxCalls \in Nat
  /\ Hangs \in BOOLEAN
  /\ "none" \notin Callers   \* the name of no caller

VARIABLES
  holder,     \* the caller that holds PythonWorker.mu, or None
  caller,     \* per caller: where it is in call, ObjectWithFacts or Close
  worker,     \* closed and failure, and whether the handshake has succeeded
  process,    \* the interpreter: "up", "hung" or "dead"
  requests,   \* lines in the stdin pipe
  replies,    \* lines in the stdout pipe
  io,         \* per request: the goroutine that writes it and reads a line
  calls,      \* the requests made so far
  released    \* history: somebody has called Close, or cancelled a call

vars == <<holder, caller, worker, process, requests, replies, io, calls, released>>

None == "none"
Idle == [pc |-> "idle", kind |-> None, request |-> 0, ended |-> None,
         result |-> None, reply |-> 0]
Numbers == 1..MaxCalls

Init ==
  /\ holder = None
  /\ caller = [c \in Callers |-> Idle]
  /\ worker = [closed |-> FALSE, failure |-> 0, ready |-> FALSE]
  /\ process = "up"
  /\ requests = <<>>
  /\ replies = <<>>
  /\ io = [n \in Numbers |-> [state |-> None]]
  /\ calls = 0
  /\ released = FALSE

pipes == <<process, requests, replies>>

-------------------------------------------------------------------------------
(* The process: reads a line, answers it, may hang or die at any moment.   *)

Answer(good) ==
  /\ process = "up"
  /\ requests # <<>>
  /\ requests' = Tail(requests)
  /\ replies' = Append(replies, [request |-> Head(requests), good |-> good])
  /\ UNCHANGED <<holder, caller, worker, process, io, calls, released>>

Hang ==
  /\ Hangs
  /\ process = "up"
  /\ process' = "hung"
  /\ UNCHANGED <<holder, caller, worker, requests, replies, io, calls, released>>

Crash ==
  /\ process # "dead"
  /\ process' = "dead"
  /\ UNCHANGED <<holder, caller, worker, requests, replies, io, calls, released>>

-------------------------------------------------------------------------------
(* closeLocked and the failures.                                           *)

(* Seeded fault: the interpreter is only told to end by closing its stdin. *)
KilledIfListening == IF process = "up" THEN "dead" ELSE process

(* closeLocked kills the process; with it both pipes end.                  *)
Killed == "dead"

(* Seeded fault: the worker closes and says nothing.                       *)
CloseUntold(failure) ==
  /\ worker' = [worker EXCEPT !.closed = TRUE]
  /\ process' = IF worker.closed THEN process ELSE Killed
  /\ UNCHANGED <<requests, replies>>

CloseLocked(failure) ==
  /\ worker' = [worker EXCEPT !.closed = TRUE, !.failure = failure]
  /\ process' = IF worker.closed THEN process ELSE Killed
  /\ UNCHANGED <<requests, replies>>

(* Seeded fault: the last failure replaces the first.                      *)
LastFailure(request) == request

(* A failure is named by its request; only the first one is kept.          *)
FirstFailure(request) == IF worker.failure = 0 THEN request ELSE worker.failure

Return(c, result) ==
  /\ caller' = [caller EXCEPT ![c].pc = "idle", ![c].kind = None, ![c].result = result]
  /\ holder' = IF holder = c THEN None ELSE holder

-------------------------------------------------------------------------------
(* PythonWorker.call.                                                      *)

Kinds == {"tick", "object", "match"}

(* The constructor makes the handshake and publishes the worker after it.  *)
Call(c, kind) ==
  /\ caller[c].pc = "idle"
  /\ IF kind = "handshake"
     THEN calls = 0 /\ \A d \in Callers : caller[d].pc = "idle"
     ELSE worker.ready
  /\ caller' = [caller EXCEPT ![c] = [Idle EXCEPT !.pc = "lock", !.kind = kind]]
  /\ UNCHANGED <<holder, worker, pipes, io, calls, released>>

(* The context of the caller ends.  An object call has no context, nor has *)
(* the handshake.                                                          *)
CancelContext(c) ==
  /\ caller[c].pc \in {"lock", "wait"}
  /\ caller[c].kind \in {"tick", "match"}
  /\ caller[c].ended = None
  /\ caller' = [caller EXCEPT ![c].ended = "cancelled"]
  /\ UNCHANGED <<holder, worker, pipes, io, calls, released>>

Timer(c) ==
  /\ caller[c].pc = "wait"
  /\ caller[c].ended = None
  /\ caller' = [caller EXCEPT ![c].ended = "timeout"]
  /\ UNCHANGED <<holder, worker, pipes, io, calls, released>>

(* Seeded fault: requests of two callers are in flight at a time.          *)
LockNotHeld(c) == TRUE

LockFree(c) == holder = None

Acquire(c) ==
  /\ caller[c].pc = "lock"
  /\ LockFree(c)
  /\ calls < MaxCalls
  /\ IF worker.closed
     THEN Return(c, "closed") /\ UNCHANGED <<worker, pipes, io, calls>>
     ELSE IF caller[c].ended # None
     THEN Return(c, "cancelled") /\ UNCHANGED <<worker, pipes, io, calls>>
     ELSE /\ holder' = c
          /\ calls' = calls + 1
          /\ io' = [io EXCEPT ![calls + 1] = [state |-> "write"]]
          /\ caller' = [caller EXCEPT ![c].pc = "wait", ![c].request = calls + 1]
          /\ UNCHANGED <<worker, pipes>>
  /\ UNCHANGED released

(* The goroutine of a request.                                             *)
Done(n, result) == io' = [io EXCEPT ![n] = [state |-> "done", result |-> result]]

Write(n) ==
  /\ io[n].state = "write"
  /\ IF process = "dead"
     THEN Done(n, [good |-> FALSE, request |-> n]) /\ UNCHANGED requests
     ELSE /\ requests' = Append(requests, n)
          /\ io' = [io EXCEPT ![n].state = "read"]
  /\ UNCHANGED <<holder, caller, worker, process, replies, calls, released>>

Read(n) ==
  /\ io[n].state = "read"
  /\ \/ /\ replies # <<>>
        /\ ~worker.closed
        /\ Done(n, Head(replies))
        /\ replies' = Tail(replies)
     \/ /\ process = "dead"
        /\ replies = <<>> \/ worker.closed
        /\ Done(n, [good |-> FALSE, request |-> n])
        /\ UNCHANGED replies
  /\ UNCHANGED <<holder, caller, worker, process, requests, calls, released>>

(* The select takes the reply; a bad one ends the worker.                  *)
Receive(c) ==
  LET n == caller[c].request
  IN
  /\ caller[c].pc = "wait"
  /\ io[n].state = "done"
  /\ IF io[n].result.good
     THEN /\ caller' = [caller EXCEPT
               ![c].pc = IF caller[c].kind = "object" THEN "output" ELSE "idle",
               ![c].result = "facts", ![c].reply = io[n].result.request]
          /\ holder' = None
          /\ worker' = [worker EXCEPT !.ready = TRUE]
          /\ UNCHANGED pipes
     ELSE CloseLocked(FirstFailure(n)) /\ Return(c, "failed")
  /\ UNCHANGED <<io, calls, released>>

(* Seeded fault: a call that timed out leaves the worker as it is.         *)
GiveUpAndStay(c) ==
  /\ caller[c].pc = "wait"
  /\ caller[c].ended # None
  /\ Return(c, "failed")
  /\ UNCHANGED <<worker, pipes, io, calls, released>>

(* The select takes the end of the context: a timeout is a failure of the  *)
(* worker, the end of the caller's own context is not.  Both close it.     *)
GiveUp(c) ==
  /\ caller[c].pc = "wait"
  /\ caller[c].ended # None
  /\ CloseLocked(IF caller[c].ended = "timeout"
                 THEN FirstFailure(caller[c].request)
                 ELSE worker.failure)
  /\ released' = (released \/ caller[c].ended = "cancelled")
  /\ caller' = [caller EXCEPT ![c].pc = "drain"]
  /\ UNCHANGED <<holder, io, calls>>

(* Seeded fault: the caller leaves before its goroutine does.              *)
DrainedAtOnce(c) == TRUE

Drained(c) == io[caller[c].request].state = "done"

(* <-done: the pipes belong to nobody when the mutex is released.          *)
Drain(c) ==
  /\ caller[c].pc = "drain"
  /\ Drained(c)
  /\ Return(c, "failed")
  /\ UNCHANGED <<worker, pipes, io, calls, released>>

(* ObjectWithFacts: the schema-bound writer takes the Facts, or refuses    *)
(* one of them, which fails the worker under a second lock.                *)
Output(c, accepts) ==
  /\ caller[c].pc = "output"
  /\ IF accepts
     THEN Return(c, "facts") /\ UNCHANGED <<worker, pipes>>
     ELSE /\ holder = None
          /\ CloseLocked(FirstFailure(caller[c].request))
          /\ Return(c, "failed")
  /\ UNCHANGED <<io, calls, released>>

(* Close, by closeRuntime or by the constructor after a failed handshake.  *)
Close(c) ==
  /\ caller[c].pc = "idle"
  /\ holder = None
  /\ ~worker.closed
  /\ calls > 0
  /\ CloseLocked(worker.failure)
  /\ released' = TRUE
  /\ UNCHANGED <<holder, caller, io, calls>>

-------------------------------------------------------------------------------
CallerStep(c) ==
  \/ Acquire(c) \/ Receive(c) \/ GiveUp(c) \/ Drain(c)
  \/ \E accepts \in BOOLEAN : Output(c, accepts)

Next ==
  \/ \E good \in BOOLEAN : Answer(good)
  \/ Hang \/ Crash
  \/ \E n \in Numbers : Write(n) \/ Read(n)
  \/ \E c \in Callers :
       \/ \E kind \in Kinds \cup {"handshake"} : Call(c, kind)
       \/ CancelContext(c) \/ Timer(c) \/ CallerStep(c) \/ Close(c)

(* Goroutines run, the mutex is granted to a waiting caller in the end,    *)
(* and the timer fires.  The script owes nothing.                          *)
Fairness ==
  /\ \A n \in Numbers : WF_vars(Write(n)) /\ WF_vars(Read(n))
  /\ \A c \in Callers :
       /\ WF_vars(Timer(c)) /\ SF_vars(Acquire(c)) /\ WF_vars(Receive(c))
       /\ WF_vars(GiveUp(c)) /\ WF_vars(Drain(c))
       /\ SF_vars(\E accepts \in BOOLEAN : Output(c, accepts))

Spec == Init /\ [][Next]_vars /\ Fairness

-------------------------------------------------------------------------------
TypeOK ==
  /\ holder \in Callers \cup {None}
  /\ \A c \in Callers :
       /\ caller[c].pc \in {"idle", "lock", "wait", "drain", "output"}
       /\ caller[c].pc \in {"wait", "drain"} => holder = c /\ caller[c].request \in Numbers
  /\ worker.closed \in BOOLEAN
  /\ worker.failure \in 0..MaxCalls
  /\ process \in {"up", "hung", "dead"}
  /\ calls \in 0..MaxCalls

(* A call returns the reply to its own request, although replies carry no  *)
(* identifier and may come after the call has given up.                    *)
AnswerIsOwn ==
  \A c \in Callers :
    caller[c].result = "facts" => caller[c].reply = caller[c].request

(* When the mutex is free no goroutine of an earlier request is left at    *)
(* the pipes, and at most one is there at any time.                        *)
PipesFree ==
  LET busy == {n \in Numbers : io[n].state \in {"write", "read"}}
  IN Cardinality(busy) <= 1 /\ (holder = None => busy = {})

(* The failure a host reads is the first one and never changes, and a      *)
(* closed worker stays closed and makes no further request, also when a    *)
(* call that had its reply refuses it only now.                            *)
FirstFailureKept ==
  [][/\ worker.failure # 0 => worker'.failure = worker.failure
     /\ worker.closed => worker'.closed /\ calls' = calls]_vars

(* "An explicit Close does not create a failure", nor does a caller that   *)
(* leaves; every other way to close the worker does, so that the host can  *)
(* ask for it after a core operation that swallowed the error.             *)
FailureTold ==
  /\ worker.closed /\ worker.failure = 0 => released
  /\ worker.failure # 0 => worker.closed

(* A host learns of every failure, and learns of the first.                *)
FailureKept == []FailureTold /\ FirstFailureKept

(* Every call returns, whatever the script does.                           *)
CallsReturn ==
  \A c \in Callers : (caller[c].pc \in {"wait", "drain", "output"}) ~> (caller[c].pc = "idle")
================================================================================
