-------------------------- MODULE PythonWorker_proofs --------------------------
(***************************************************************************)
(* What a match's Facts rest on.  The Python worker, for any number of     *)
(* callers and requests: a reply is taken by the request it answers, and a *)
(* failure is told.  The slot that keeps the Object Facts of a ticket: who *)
(* asks gets what the provider wrote, once per generation and within the   *)
(* limits.  The binding of a provider to a rule: what the handshake lets   *)
(* through is never refused later, and fits the rule.                      *)
(***************************************************************************)
EXTENDS PythonWorker, SequenceTheorems, FiniteSetTheorems, WellFoundedInduction, TLAPS

Results == [good : BOOLEAN, request : Numbers]

CallerRecords ==
  [pc : {"idle", "lock", "wait", "drain", "output"},
   kind : Kinds \cup {"handshake", None}, request : 0..MaxCalls,
   ended : {None, "cancelled", "timeout"},
   result : {None, "facts", "failed", "closed", "cancelled"}, reply : 0..MaxCalls]

IORecords ==
  [state : {None, "write", "read"}] \cup [state : {"done"}, result : Results]

WorkerRecords == [closed : BOOLEAN, failure : 0..MaxCalls, ready : BOOLEAN]

Typed ==
  /\ holder \in Callers \cup {None}
  /\ caller \in [Callers -> CallerRecords]
  /\ worker \in WorkerRecords
  /\ process \in {"up", "hung", "dead"}
  /\ requests \in Seq(Numbers)
  /\ replies \in Seq(Results)
  /\ io \in [Numbers -> IORecords]
  /\ calls \in 0..MaxCalls
  /\ released \in BOOLEAN

(* The mutex is held by the one call that made the last request, from the  *)
(* moment it makes it until its goroutine is done.                         *)
MutexInv ==
  /\ \A c \in Callers :
       /\ caller[c].pc \in {"wait", "drain"} <=> holder = c
       /\ holder = c => caller[c].request = calls /\ calls # 0
       /\ caller[c].pc = "output" => caller[c].request # 0
  /\ \A n \in Numbers :
       /\ n > calls => io[n].state = None
       /\ n < calls \/ (n = calls /\ holder = None) => io[n].state = "done"
       /\ n = calls => io[n].state # None

(* As long as the worker is open, the pipes hold nothing but the request   *)
(* in flight or its reply.                                                 *)
PipeInv ==
  /\ \A c \in Callers :
       /\ caller[c].pc = "wait" => ~worker.closed
       /\ caller[c].pc = "drain" => worker.closed
  /\ ~worker.closed /\ holder = None => requests = <<>> /\ replies = <<>>
  /\ ~worker.closed /\ holder # None =>
       /\ io[calls].state = "write" => requests = <<>> /\ replies = <<>>
       /\ io[calls].state = "read" =>
            \/ requests = <<calls>> /\ replies = <<>>
            \/ /\ requests = <<>>
               /\ \E good \in BOOLEAN : replies = <<[request |-> calls, good |-> good]>>
       /\ io[calls].state = "done" /\ io[calls].result.good =>
            requests = <<>> /\ replies = <<>> /\ io[calls].result.request = calls

(* The reply of a call is its own, and it has one only after it took it.   *)
ReplyInv ==
  \A c \in Callers :
    /\ caller[c].pc \in {"lock", "wait", "drain"} => caller[c].result = None
    /\ caller[c].pc = "output" \/ caller[c].result = "facts" =>
         caller[c].reply = caller[c].request

WorkerInv == Typed /\ MutexInv /\ PipeInv /\ ReplyInv /\ FailureTold

-------------------------------------------------------------------------------
(* The record of one caller changes.                                       *)
LEMMA CallerEdit ==
  ASSUME caller \in [Callers -> CallerRecords], NEW c \in Callers, NEW r \in CallerRecords,
         caller' = [caller EXCEPT ![c] = r]
  PROVE  /\ caller' \in [Callers -> CallerRecords]
         /\ caller'[c] = r
         /\ \A d \in Callers \ {c} : caller'[d] = caller[d]
  OBVIOUS

LEMMA Returning ==
  ASSUME Typed, NEW c \in Callers, NEW result \in {"facts", "failed", "closed", "cancelled"},
         Return(c, result)
  PROVE  /\ caller' \in [Callers -> CallerRecords]
         /\ caller'[c] = [caller[c] EXCEPT !.pc = "idle", !.kind = None, !.result = result]
         /\ \A d \in Callers \ {c} : caller'[d] = caller[d]
         /\ holder' = IF holder = c THEN None ELSE holder
<1> DEFINE r == [caller[c] EXCEPT !.pc = "idle", !.kind = None, !.result = result]
<1>1. caller' = [caller EXCEPT ![c] = r] /\ holder' = IF holder = c THEN None ELSE holder
  BY DEF Return
<1>2. r \in CallerRecords
  BY DEF Typed, CallerRecords
<1>3. caller \in [Callers -> CallerRecords]
  BY DEF Typed
<1> HIDE DEF r
<1>4. /\ caller' \in [Callers -> CallerRecords]
      /\ caller'[c] = r
      /\ \A d \in Callers \ {c} : caller'[d] = caller[d]
  BY <1>1, <1>2, <1>3, CallerEdit
<1> QED
  BY <1>1, <1>4 DEF r

(* What the failure of a request leaves is a failure of some request.      *)
LEMMA Closing ==
  ASSUME Typed, NEW failure \in 0..MaxCalls, CloseLocked(failure)
  PROVE  /\ worker' \in WorkerRecords /\ worker'.closed /\ worker'.failure = failure
         /\ worker'.ready = worker.ready
         /\ process' \in {"up", "hung", "dead"}
         /\ process' = IF worker.closed THEN process ELSE "dead"
         /\ UNCHANGED <<requests, replies>>
  BY DEF Typed, WorkerRecords, CloseLocked, Killed

LEMMA FailureTyped ==
  ASSUME Typed, NEW n \in 0..MaxCalls
  PROVE  FirstFailure(n) \in 0..MaxCalls /\ (n # 0 => FirstFailure(n) # 0)
  BY DEF Typed, WorkerRecords, FirstFailure

LEMMA TypedInit == Init => Typed
<1> SUFFICES ASSUME Init PROVE Typed
  OBVIOUS
<1>1. <<>> \in Seq(Numbers) /\ <<>> \in Seq(Results) /\ 0 \in 0..MaxCalls
  BY WorkerAssumption
<1>2. [n \in Numbers |-> [state |-> None]] \in [Numbers -> IORecords]
  BY DEF IORecords
<1>3. Idle \in CallerRecords
  BY <1>1 DEF Idle, CallerRecords
<1>4. [closed |-> FALSE, failure |-> 0, ready |-> FALSE] \in WorkerRecords
  BY <1>1 DEF WorkerRecords
<1> QED
  BY <1>1, <1>2, <1>3, <1>4 DEF Init, Typed

-------------------------------------------------------------------------------
(* What each action does to the records.                                   *)
LEMMA AnswerEffect ==
  ASSUME Typed, NEW good \in BOOLEAN, Answer(good)
  PROVE  /\ Typed'
         /\ process = "up" /\ requests # <<>> /\ requests' = Tail(requests)
         /\ replies' = Append(replies, [request |-> Head(requests), good |-> good])
         /\ UNCHANGED <<holder, caller, worker, process, io, calls, released>>
<1>1. /\ Head(requests) \in Numbers /\ Tail(requests) \in Seq(Numbers)
  BY HeadTailProperties DEF Answer, Typed
<1>2. [request |-> Head(requests), good |-> good] \in Results
  BY <1>1 DEF Results
<1> QED
  BY <1>1, <1>2, AppendProperties DEF Answer, Typed

LEMMA WriteEffect ==
  ASSUME Typed, NEW n \in Numbers, Write(n)
  PROVE  /\ Typed' /\ io[n].state = "write"
         /\ UNCHANGED <<holder, caller, worker, process, replies, calls, released>>
         /\ \A m \in Numbers \ {n} : io'[m] = io[m]
         /\ \/ process = "dead" /\ io'[n].state = "done" /\ ~io'[n].result.good /\ requests' = requests
            \/ io'[n].state = "read" /\ requests' = Append(requests, n)
<1> DEFINE r == [good |-> FALSE, request |-> n]
<1>0. /\ io[n].state = "write"
      /\ UNCHANGED <<holder, caller, worker, process, replies, calls, released>>
      /\ io \in [Numbers -> IORecords]
  BY DEF Write, Typed
<1>1. CASE process = "dead"
  <2>1. requests' = requests /\ io' = [io EXCEPT ![n] = [state |-> "done", result |-> r]]
    BY <1>1 DEF Write, Done
  <2>2. [state |-> "done", result |-> r] \in IORecords
    BY DEF IORecords, Results
  <2>3. Typed'
    BY <1>0, <2>1, <2>2 DEF Typed
  <2> QED
    BY <1>0, <1>1, <2>1, <2>3
<1>2. CASE process # "dead"
  <2>1. requests' = Append(requests, n) /\ io' = [io EXCEPT ![n].state = "read"]
    BY <1>2 DEF Write
  <2>2. [io[n] EXCEPT !.state = "read"] \in IORecords /\ [io[n] EXCEPT !.state = "read"].state = "read"
    BY <1>0 DEF IORecords
  <2>3. io' \in [Numbers -> IORecords] /\ io'[n].state = "read" /\ \A m \in Numbers \ {n} : io'[m] = io[m]
    BY <1>0, <2>1, <2>2
  <2>4. requests' \in Seq(Numbers)
    BY <2>1, AppendProperties DEF Typed
  <2> QED
    BY <1>0, <2>1, <2>3, <2>4 DEF Typed
<1> QED
  BY <1>1, <1>2

LEMMA ReadEffect ==
  ASSUME Typed, NEW n \in Numbers, Read(n)
  PROVE  /\ Typed' /\ io[n].state = "read" /\ io'[n].state = "done"
         /\ UNCHANGED <<holder, caller, worker, process, requests, calls, released>>
         /\ \A m \in Numbers \ {n} : io'[m] = io[m]
         /\ \/ /\ ~worker.closed /\ replies # <<>> /\ replies' = Tail(replies)
               /\ io'[n].result = Head(replies)
            \/ ~io'[n].result.good /\ replies' = replies
<1>0. /\ io[n].state = "read"
      /\ UNCHANGED <<holder, caller, worker, process, requests, calls, released>>
      /\ io \in [Numbers -> IORecords]
  BY DEF Read, Typed
<1>1. ASSUME NEW r \in Results, io' = [io EXCEPT ![n] = [state |-> "done", result |-> r]]
      PROVE  /\ io' \in [Numbers -> IORecords] /\ io'[n].state = "done" /\ io'[n].result = r
             /\ \A m \in Numbers \ {n} : io'[m] = io[m]
  <2>1. [state |-> "done", result |-> r] \in IORecords
    BY DEF IORecords
  <2> QED
    BY <1>0, <1>1, <2>1
<1>2. CASE replies # <<>> /\ ~worker.closed /\ Done(n, Head(replies)) /\ replies' = Tail(replies)
  <2>1. Head(replies) \in Results /\ Tail(replies) \in Seq(Results)
    BY <1>2, HeadTailProperties DEF Typed
  <2>2. /\ io' \in [Numbers -> IORecords] /\ io'[n].state = "done" /\ io'[n].result = Head(replies)
        /\ \A m \in Numbers \ {n} : io'[m] = io[m]
    BY <1>1, <1>2, <2>1 DEF Done
  <2> QED
    BY <1>0, <1>2, <2>1, <2>2 DEF Typed
<1>3. CASE Done(n, [good |-> FALSE, request |-> n]) /\ UNCHANGED replies
  <2>1. [good |-> FALSE, request |-> n] \in Results
    BY DEF Results
  <2>2. /\ io' \in [Numbers -> IORecords] /\ io'[n].state = "done"
        /\ io'[n].result = [good |-> FALSE, request |-> n]
        /\ \A m \in Numbers \ {n} : io'[m] = io[m]
    BY <1>1, <1>3, <2>1 DEF Done
  <2> QED
    BY <1>0, <1>3, <2>2 DEF Typed
<1> QED
  BY <1>2, <1>3 DEF Read

LEMMA CallEffect ==
  ASSUME Typed, NEW c \in Callers, NEW kind \in Kinds \cup {"handshake"}, Call(c, kind)
  PROVE  /\ Typed' /\ caller[c].pc = "idle"
         /\ caller'[c].pc = "lock" /\ caller'[c].result = None
         /\ \A d \in Callers \ {c} : caller'[d] = caller[d]
         /\ UNCHANGED <<holder, worker, process, requests, replies, io, calls, released>>
<1> DEFINE r == [Idle EXCEPT !.pc = "lock", !.kind = kind]
<1>1. r \in CallerRecords
  <2>1. 0 \in 0..MaxCalls
    BY WorkerAssumption
  <2>2. Idle \in CallerRecords
    BY <2>1 DEF Idle, CallerRecords
  <2> QED
    BY <2>2 DEF CallerRecords
<1>2. /\ caller[c].pc = "idle" /\ caller' = [caller EXCEPT ![c] = r]
      /\ UNCHANGED <<holder, worker, process, requests, replies, io, calls, released>>
  BY DEF Call, pipes
<1>3. r.pc = "lock" /\ r.result = None
  BY DEF Idle
<1> HIDE DEF r
<1>4. /\ caller' \in [Callers -> CallerRecords] /\ caller'[c] = r
      /\ \A d \in Callers \ {c} : caller'[d] = caller[d]
  BY <1>1, <1>2, CallerEdit DEF Typed
<1> QED
  BY <1>2, <1>3, <1>4 DEF Typed

(* The context of a call ends, by its caller or by the timer.              *)
LEMMA EndEffect ==
  ASSUME Typed, NEW c \in Callers, CancelContext(c) \/ Timer(c)
  PROVE  /\ Typed' /\ caller[c].pc \in {"lock", "wait"}
         /\ \A d \in Callers :
              /\ caller'[d].pc = caller[d].pc /\ caller'[d].result = caller[d].result
              /\ caller'[d].request = caller[d].request /\ caller'[d].reply = caller[d].reply
         /\ UNCHANGED <<holder, worker, process, requests, replies, io, calls, released>>
<1>1. PICK e \in {"cancelled", "timeout"} :
        caller[c].pc \in {"lock", "wait"} /\ caller' = [caller EXCEPT ![c].ended = e]
  BY DEF CancelContext, Timer
<1> DEFINE r == [caller[c] EXCEPT !.ended = e]
<1>2. r \in CallerRecords /\ caller' = [caller EXCEPT ![c] = r]
  BY <1>1 DEF Typed, CallerRecords
<1>3. UNCHANGED <<holder, worker, process, requests, replies, io, calls, released>>
  BY DEF CancelContext, Timer, pipes
<1>4. /\ r.pc = caller[c].pc /\ r.result = caller[c].result
      /\ r.request = caller[c].request /\ r.reply = caller[c].reply
  BY DEF Typed, CallerRecords
<1> HIDE DEF r
<1>5. /\ caller' \in [Callers -> CallerRecords] /\ caller'[c] = r
      /\ \A d \in Callers \ {c} : caller'[d] = caller[d]
  BY <1>2, CallerEdit DEF Typed
<1> QED
  BY <1>1, <1>3, <1>4, <1>5 DEF Typed

(* A call acquires the mutex and leaves at once, or makes its request.     *)
Refused(c) ==
  /\ caller'[c].pc = "idle" /\ caller'[c].result \in {"closed", "cancelled"}
  /\ UNCHANGED <<holder, io, calls>>

Requested(c) ==
  /\ ~worker.closed /\ holder' = c /\ calls' = calls + 1 /\ calls + 1 \in Numbers
  /\ io'[calls + 1].state = "write"
  /\ \A m \in Numbers \ {calls + 1} : io'[m] = io[m]
  /\ caller'[c] = [caller[c] EXCEPT !.pc = "wait", !.request = calls + 1]

LEMMA AcquireEffect ==
  ASSUME Typed, NEW c \in Callers, Acquire(c)
  PROVE  /\ Typed' /\ caller[c].pc = "lock" /\ holder = None
         /\ \A d \in Callers \ {c} : caller'[d] = caller[d]
         /\ UNCHANGED <<worker, process, requests, replies, released>>
         /\ Refused(c) \/ Requested(c)
<1>0. /\ caller[c].pc = "lock" /\ holder = None /\ calls < MaxCalls
      /\ UNCHANGED <<worker, process, requests, replies, released>>
      /\ calls \in Nat /\ calls + 1 \in Numbers /\ calls + 1 \in 0..MaxCalls
  <2>1. /\ caller[c].pc = "lock" /\ holder = None /\ calls < MaxCalls
        /\ UNCHANGED <<worker, process, requests, replies, released>>
    BY DEF Acquire, LockFree, pipes
  <2>2. calls \in 0..MaxCalls
    BY DEF Typed
  <2> QED
    BY <2>1, <2>2, WorkerAssumption DEF Numbers
<1>1. ASSUME NEW result \in {"closed", "cancelled"}, Return(c, result), UNCHANGED <<io, calls>>
      PROVE  Typed' /\ Refused(c) /\ \A d \in Callers \ {c} : caller'[d] = caller[d]
  <2>1. /\ caller' \in [Callers -> CallerRecords]
        /\ caller'[c] = [caller[c] EXCEPT !.pc = "idle", !.kind = None, !.result = result]
        /\ \A d \in Callers \ {c} : caller'[d] = caller[d]
        /\ holder' = IF holder = c THEN None ELSE holder
    BY <1>1, Returning
  <2>2. holder' = holder
    BY <1>0, <2>1
  <2>3. caller'[c].pc = "idle" /\ caller'[c].result = result
    BY <2>1 DEF Typed, CallerRecords
  <2> QED
    BY <1>0, <1>1, <2>1, <2>2, <2>3 DEF Typed, Refused
<1>2. CASE /\ ~worker.closed /\ holder' = c /\ calls' = calls + 1
           /\ io' = [io EXCEPT ![calls + 1] = [state |-> "write"]]
           /\ caller' = [caller EXCEPT ![c].pc = "wait", ![c].request = calls + 1]
  <2> DEFINE r == [caller[c] EXCEPT !.pc = "wait", !.request = calls + 1]
  <2>1. r \in CallerRecords /\ caller' = [caller EXCEPT ![c] = r]
    BY <1>0, <1>2 DEF Typed, CallerRecords
  <2>2. [state |-> "write"] \in IORecords
    BY DEF IORecords
  <2>3. /\ io' \in [Numbers -> IORecords] /\ io'[calls + 1].state = "write"
        /\ \A m \in Numbers \ {calls + 1} : io'[m] = io[m]
    BY <1>0, <1>2, <2>2 DEF Typed
  <2> HIDE DEF r
  <2>4. /\ caller' \in [Callers -> CallerRecords] /\ caller'[c] = r
        /\ \A d \in Callers \ {c} : caller'[d] = caller[d]
    BY <2>1, CallerEdit DEF Typed
  <2> QED
    BY <1>0, <1>2, <2>3, <2>4 DEF Typed, Requested, r
<1> QED
  BY <1>0, <1>1, <1>2 DEF Acquire

LEMMA ReceiveEffect ==
  ASSUME Typed, NEW c \in Callers, Receive(c), holder = c, caller[c].request # 0
  PROVE  /\ Typed' /\ caller[c].pc = "wait" /\ io[caller[c].request].state = "done"
         /\ \A d \in Callers \ {c} : caller'[d] = caller[d]
         /\ UNCHANGED <<io, calls, released, requests, replies>>
         /\ holder' = None /\ caller'[c].request = caller[c].request
         /\ \/ /\ io[caller[c].request].result.good
               /\ caller'[c].pc \in {"idle", "output"}
               /\ caller'[c].reply = io[caller[c].request].result.request
               /\ worker'.closed = worker.closed /\ worker'.failure = worker.failure
            \/ /\ caller'[c].pc = "idle" /\ caller'[c].result = "failed"
               /\ worker'.closed /\ worker'.failure # 0
<1> DEFINE n == caller[c].request
           reply == io[n].result.request
           pc == IF caller[c].kind = "object" THEN "output" ELSE "idle"
<1>0. /\ caller[c].pc = "wait" /\ io[n].state = "done"
      /\ UNCHANGED <<io, calls, released>>
      /\ n \in 0..MaxCalls /\ n \in Numbers
  <2>1. n \in 0..MaxCalls
    BY DEF Typed, CallerRecords
  <2>2. n \in Numbers
    BY <2>1, WorkerAssumption DEF Numbers
  <2> QED
    BY <2>1, <2>2 DEF Receive
<1>1. CASE io[n].result.good
  <2>1. /\ caller' = [caller EXCEPT ![c].pc = pc, ![c].result = "facts", ![c].reply = reply]
        /\ holder' = None /\ worker' = [worker EXCEPT !.ready = TRUE]
        /\ UNCHANGED <<process, requests, replies>>
    BY <1>1 DEF Receive, pipes
  <2>2. reply \in 0..MaxCalls
    <3>1. io[n] \in IORecords
      BY <1>0 DEF Typed
    <3> QED
      BY <1>0, <3>1, WorkerAssumption DEF IORecords, Results, None, Numbers
  <2>3. worker' \in WorkerRecords /\ worker'.closed = worker.closed /\ worker'.failure = worker.failure
    BY <2>1 DEF Typed, WorkerRecords
  <2> HIDE DEF reply
  <2> DEFINE r == [caller[c] EXCEPT !.pc = pc, !.result = "facts", !.reply = reply]
  <2>4. /\ r \in CallerRecords /\ caller' = [caller EXCEPT ![c] = r]
        /\ r.pc \in {"idle", "output"} /\ r.reply = reply /\ r.request = caller[c].request
    BY <2>1, <2>2 DEF Typed, CallerRecords
  <2> HIDE DEF r
  <2>5. /\ caller' \in [Callers -> CallerRecords] /\ caller'[c] = r
        /\ \A d \in Callers \ {c} : caller'[d] = caller[d]
    BY <2>4, CallerEdit DEF Typed
  <2> QED
    BY <1>0, <1>1, <2>1, <2>3, <2>4, <2>5 DEF Typed, reply
<1>2. CASE ~io[n].result.good
  <2>1. CloseLocked(FirstFailure(n)) /\ Return(c, "failed")
    BY <1>2 DEF Receive
  <2>2. FirstFailure(n) \in 0..MaxCalls /\ FirstFailure(n) # 0
    BY <1>0, FailureTyped
  <2>3. /\ worker' \in WorkerRecords /\ worker'.closed /\ worker'.failure = FirstFailure(n)
        /\ process' \in {"up", "hung", "dead"}
        /\ UNCHANGED <<requests, replies>>
    BY <2>1, <2>2, Closing
  <2>4. /\ caller' \in [Callers -> CallerRecords]
        /\ caller'[c] = [caller[c] EXCEPT !.pc = "idle", !.kind = None, !.result = "failed"]
        /\ \A d \in Callers \ {c} : caller'[d] = caller[d]
        /\ holder' = None
    BY <2>1, Returning
  <2>5. caller'[c].pc = "idle" /\ caller'[c].result = "failed" /\ caller'[c].request = caller[c].request
    BY <2>4 DEF Typed, CallerRecords
  <2> QED
    BY <1>0, <1>2, <2>2, <2>3, <2>4, <2>5 DEF Typed
<1> QED
  BY <1>1, <1>2

LEMMA GiveUpEffect ==
  ASSUME Typed, NEW c \in Callers, GiveUp(c), caller[c].request # 0
  PROVE  /\ Typed' /\ caller[c].pc = "wait"
         /\ caller'[c].pc = "drain" /\ caller'[c].request = caller[c].request
         /\ caller'[c].result = caller[c].result
         /\ \A d \in Callers \ {c} : caller'[d] = caller[d]
         /\ UNCHANGED <<holder, io, calls, requests, replies>>
         /\ worker'.closed /\ (worker'.failure = 0 => released')
<1>0. /\ caller[c].pc = "wait" /\ caller[c].ended # None
      /\ caller' = [caller EXCEPT ![c].pc = "drain"]
      /\ released' = (released \/ caller[c].ended = "cancelled")
      /\ UNCHANGED <<holder, io, calls>>
  BY DEF GiveUp
<1> DEFINE r == [caller[c] EXCEPT !.pc = "drain"]
           failure == IF caller[c].ended = "timeout"
                      THEN FirstFailure(caller[c].request) ELSE worker.failure
<1>1. r \in CallerRecords /\ caller' = [caller EXCEPT ![c] = r]
      /\ caller[c].ended \in {"cancelled", "timeout"} /\ caller[c].request \in 0..MaxCalls
      /\ r.pc = "drain" /\ r.request = caller[c].request /\ r.result = caller[c].result
  BY <1>0 DEF Typed, CallerRecords
<1>2. failure \in 0..MaxCalls /\ (caller[c].ended = "timeout" => failure # 0)
  BY <1>1, FailureTyped DEF Typed, WorkerRecords
<1>3. CloseLocked(failure)
  BY DEF GiveUp
<1> HIDE DEF r, failure
<1>4. /\ worker' \in WorkerRecords /\ worker'.closed /\ worker'.failure = failure
      /\ process' \in {"up", "hung", "dead"} /\ UNCHANGED <<requests, replies>>
  BY <1>2, <1>3, Closing
<1>5. /\ caller' \in [Callers -> CallerRecords] /\ caller'[c] = r
      /\ \A d \in Callers \ {c} : caller'[d] = caller[d]
  BY <1>1, CallerEdit DEF Typed
<1>6. released' \in BOOLEAN /\ (worker'.failure = 0 => released')
  BY <1>0, <1>1, <1>2, <1>4 DEF Typed
<1> QED
  BY <1>0, <1>1, <1>4, <1>5, <1>6 DEF Typed

LEMMA DrainEffect ==
  ASSUME Typed, NEW c \in Callers, Drain(c), holder = c
  PROVE  /\ Typed' /\ caller[c].pc = "drain" /\ io[caller[c].request].state = "done"
         /\ caller'[c].pc = "idle" /\ caller'[c].result = "failed"
         /\ \A d \in Callers \ {c} : caller'[d] = caller[d]
         /\ holder' = None
         /\ UNCHANGED <<worker, process, requests, replies, io, calls, released>>
<1>1. /\ caller[c].pc = "drain" /\ io[caller[c].request].state = "done" /\ Return(c, "failed")
      /\ UNCHANGED <<worker, process, requests, replies, io, calls, released>>
  BY DEF Drain, Drained, pipes
<1>2. /\ caller' \in [Callers -> CallerRecords]
      /\ caller'[c] = [caller[c] EXCEPT !.pc = "idle", !.kind = None, !.result = "failed"]
      /\ \A d \in Callers \ {c} : caller'[d] = caller[d]
      /\ holder' = None
  BY <1>1, Returning
<1>3. caller'[c].pc = "idle" /\ caller'[c].result = "failed"
  BY <1>2 DEF Typed, CallerRecords
<1> QED
  BY <1>1, <1>2, <1>3 DEF Typed

(* The writer takes the Facts of an object, or refuses one of them.        *)
LEMMA OutputEffect ==
  ASSUME Typed, NEW c \in Callers, NEW accepts \in BOOLEAN, Output(c, accepts),
         holder # c, caller[c].request # 0
  PROVE  /\ Typed' /\ caller[c].pc = "output" /\ caller'[c].pc = "idle"
         /\ caller'[c].reply = caller[c].reply /\ caller'[c].request = caller[c].request
         /\ \A d \in Callers \ {c} : caller'[d] = caller[d]
         /\ UNCHANGED <<holder, requests, replies, io, calls, released>>
         /\ \/ UNCHANGED <<worker, process>>
            \/ /\ holder = None /\ caller'[c].result = "failed"
               /\ worker'.closed /\ worker'.failure # 0
<1>0. caller[c].pc = "output" /\ UNCHANGED <<io, calls, released>> /\ caller[c].request \in 0..MaxCalls
  BY DEF Output, Typed, CallerRecords
<1>1. ASSUME NEW result \in {"facts", "failed"}, Return(c, result)
      PROVE  /\ caller' \in [Callers -> CallerRecords] /\ UNCHANGED holder
             /\ caller'[c].pc = "idle" /\ caller'[c].result = result
             /\ caller'[c].reply = caller[c].reply /\ caller'[c].request = caller[c].request
             /\ \A d \in Callers \ {c} : caller'[d] = caller[d]
  <2>1. /\ caller' \in [Callers -> CallerRecords]
        /\ caller'[c] = [caller[c] EXCEPT !.pc = "idle", !.kind = None, !.result = result]
        /\ \A d \in Callers \ {c} : caller'[d] = caller[d]
        /\ holder' = holder
    BY <1>1, Returning
  <2> QED
    BY <2>1 DEF Typed, CallerRecords
<1>2. CASE accepts
  <2>1. Return(c, "facts") /\ UNCHANGED <<worker, process, requests, replies>>
    BY <1>2 DEF Output, pipes
  <2> QED
    BY <1>0, <1>1, <2>1 DEF Typed
<1>3. CASE ~accepts
  <2>1. holder = None /\ CloseLocked(FirstFailure(caller[c].request)) /\ Return(c, "failed")
    BY <1>3 DEF Output
  <2>2. FirstFailure(caller[c].request) \in 0..MaxCalls /\ FirstFailure(caller[c].request) # 0
    BY <1>0, FailureTyped
  <2>3. /\ worker' \in WorkerRecords /\ worker'.closed
        /\ worker'.failure = FirstFailure(caller[c].request)
        /\ process' \in {"up", "hung", "dead"} /\ UNCHANGED <<requests, replies>>
    BY <2>1, <2>2, Closing
  <2> QED
    BY <1>0, <1>1, <2>1, <2>2, <2>3 DEF Typed
<1> QED
  BY <1>2, <1>3

LEMMA CloseEffect ==
  ASSUME Typed, NEW c \in Callers, Close(c)
  PROVE  /\ Typed' /\ holder = None /\ worker'.closed /\ released'
         /\ worker'.failure = worker.failure
         /\ UNCHANGED <<holder, caller, requests, replies, io, calls>>
<1>1. /\ holder = None /\ released' = TRUE /\ CloseLocked(worker.failure)
      /\ UNCHANGED <<holder, caller, io, calls>>
  BY DEF Close
<1>2. worker.failure \in 0..MaxCalls
  BY DEF Typed, WorkerRecords
<1> QED
  BY <1>1, <1>2, Closing DEF Typed

-------------------------------------------------------------------------------
LEMMA InvInit == Init => WorkerInv
<1> SUFFICES ASSUME Init PROVE WorkerInv
  OBVIOUS
<1>1. /\ \A c \in Callers : caller[c] = Idle
      /\ \A n \in Numbers : io[n].state = None
      /\ calls = 0 /\ holder = None
      /\ requests = <<>> /\ replies = <<>> /\ ~worker.closed /\ worker.failure = 0
  BY DEF Init
<1>2. MutexInv
  BY <1>1, WorkerAssumption DEF MutexInv, Idle, Numbers, None
<1> QED
  BY <1>1, <1>2, TypedInit DEF WorkerInv, PipeInv, ReplyInv, FailureTold, Idle, None

(* Every step keeps the invariant.                                         *)
LEMMA InvStep == WorkerInv /\ [Next]_vars => WorkerInv'
<1> SUFFICES ASSUME WorkerInv, [Next]_vars PROVE WorkerInv'
  OBVIOUS
<1>t. /\ Typed /\ calls \in Nat /\ None \notin Callers
      /\ (calls # 0 => calls \in Numbers) /\ \A n \in Numbers : n \in Nat /\ n # 0
  BY WorkerAssumption DEF WorkerInv, Typed, None, Numbers
<1>m. /\ \A c \in Callers : /\ caller[c].pc \in {"wait", "drain"} <=> holder = c
                            /\ holder = c => caller[c].request = calls /\ calls # 0
                            /\ caller[c].pc = "output" => caller[c].request # 0
      /\ holder = None \/ holder \in Callers
  BY DEF WorkerInv, MutexInv, Typed
<1>1. ASSUME NEW good \in BOOLEAN, Answer(good) PROVE WorkerInv'
  <2>1. /\ Typed'
        /\ process = "up" /\ requests # <<>> /\ requests' = Tail(requests)
        /\ replies' = Append(replies, [request |-> Head(requests), good |-> good])
        /\ UNCHANGED <<holder, caller, worker, process, io, calls, released>>
    BY <1>t, <1>1, AnswerEffect
  <2>2. MutexInv' /\ ReplyInv' /\ FailureTold'
    BY <2>1 DEF WorkerInv, MutexInv, ReplyInv, FailureTold
  <2>3. PipeInv'
    <3>1. CASE ~worker.closed /\ holder # None /\ io[calls].state = "read"
      <4>1. requests = <<calls>> /\ replies = <<>>
        BY <2>1, <3>1 DEF WorkerInv, PipeInv
      <4>2. requests' = <<>> /\ replies' = <<[request |-> calls, good |-> good]>>
        BY <2>1, <4>1
      <4> QED
        BY <2>1, <3>1, <4>2 DEF WorkerInv, PipeInv
    <3>2. CASE ~(~worker.closed /\ holder # None /\ io[calls].state = "read")
      BY <2>1, <3>2 DEF WorkerInv, PipeInv
    <3> QED
      BY <3>1, <3>2
  <2> QED
    BY <2>1, <2>2, <2>3 DEF WorkerInv
<1>2. CASE Hang \/ Crash
  <2>1. /\ process' \in {"hung", "dead"}
        /\ UNCHANGED <<holder, caller, worker, requests, replies, io, calls, released>>
    BY <1>2 DEF Hang, Crash
  <2> QED
    BY <2>1 DEF WorkerInv, Typed, MutexInv, PipeInv, ReplyInv, FailureTold
<1>3. ASSUME NEW n \in Numbers, Write(n) PROVE WorkerInv'
  <2>1. /\ Typed' /\ io[n].state = "write"
        /\ UNCHANGED <<holder, caller, worker, process, replies, calls, released>>
        /\ \A m \in Numbers \ {n} : io'[m] = io[m]
        /\ \/ process = "dead" /\ io'[n].state = "done" /\ ~io'[n].result.good /\ requests' = requests
           \/ io'[n].state = "read" /\ requests' = Append(requests, n)
    BY <1>t, <1>3, WriteEffect
  <2>2. n = calls /\ holder # None
    BY <1>t, <2>1 DEF WorkerInv, MutexInv, None
  <2>3. MutexInv'
    BY <1>t, <2>1, <2>2 DEF WorkerInv, MutexInv, None
  <2>4. PipeInv'
    <3>1. ~worker.closed => requests = <<>> /\ replies = <<>>
      BY <2>1, <2>2 DEF WorkerInv, PipeInv
    <3>2. ~worker.closed /\ io'[n].state = "read" => requests' = <<calls>> /\ replies' = <<>>
      BY <2>1, <2>2, <3>1
    <3> QED
      BY <2>1, <2>2, <3>2 DEF WorkerInv, PipeInv
  <2> QED
    BY <2>1, <2>3, <2>4 DEF WorkerInv, ReplyInv, FailureTold
<1>4. ASSUME NEW n \in Numbers, Read(n) PROVE WorkerInv'
  <2>1. /\ Typed' /\ io[n].state = "read" /\ io'[n].state = "done"
        /\ UNCHANGED <<holder, caller, worker, process, requests, calls, released>>
        /\ \A m \in Numbers \ {n} : io'[m] = io[m]
        /\ \/ /\ ~worker.closed /\ replies # <<>> /\ replies' = Tail(replies)
              /\ io'[n].result = Head(replies)
           \/ ~io'[n].result.good /\ replies' = replies
    BY <1>t, <1>4, ReadEffect
  <2>2. n = calls /\ holder # None
    BY <1>t, <2>1 DEF WorkerInv, MutexInv, None
  <2>3. MutexInv'
    BY <1>t, <2>1, <2>2 DEF WorkerInv, MutexInv, None
  <2>4. PipeInv'
    <3>1. ASSUME ~worker.closed, io'[n].result.good
          PROVE  requests' = <<>> /\ replies' = <<>> /\ io'[n].result.request = calls
      <4>1. replies # <<>> /\ replies' = Tail(replies) /\ io'[n].result = Head(replies)
        BY <2>1, <3>1
      <4>2. PICK good \in BOOLEAN : requests = <<>> /\ replies = <<[request |-> calls, good |-> good]>>
        BY <2>1, <2>2, <3>1, <4>1 DEF WorkerInv, PipeInv
      <4> QED
        BY <2>1, <4>1, <4>2
    <3> QED
      BY <2>1, <2>2, <3>1 DEF WorkerInv, PipeInv
  <2> QED
    BY <2>1, <2>3, <2>4 DEF WorkerInv, ReplyInv, FailureTold
<1>5. ASSUME NEW c \in Callers, NEW kind \in Kinds \cup {"handshake"}, Call(c, kind) PROVE WorkerInv'
  <2>1. /\ Typed' /\ caller[c].pc = "idle"
        /\ caller'[c].pc = "lock" /\ caller'[c].result = None
        /\ \A d \in Callers \ {c} : caller'[d] = caller[d]
        /\ UNCHANGED <<holder, worker, process, requests, replies, io, calls, released>>
    BY <1>t, <1>5, CallEffect
  <2>2. holder # c
    BY <1>m, <2>1
  <2>3. MutexInv'
    BY <1>t, <2>1, <2>2 DEF WorkerInv, MutexInv
  <2>4. ReplyInv' /\ FailureTold'
    BY <2>1, <2>2 DEF WorkerInv, ReplyInv, FailureTold, None
  <2>5. PipeInv'
    <3>1. \A d \in Callers : caller'[d].pc \in {"wait", "drain"} => caller'[d] = caller[d]
      BY <2>1, <2>2
    <3> QED
      BY <2>1, <3>1 DEF WorkerInv, PipeInv
  <2> QED
    BY <2>1, <2>3, <2>4, <2>5 DEF WorkerInv
<1>6. ASSUME NEW c \in Callers, CancelContext(c) \/ Timer(c) PROVE WorkerInv'
  <2>1. /\ Typed' /\ caller[c].pc \in {"lock", "wait"}
        /\ \A d \in Callers :
             /\ caller'[d].pc = caller[d].pc /\ caller'[d].result = caller[d].result
             /\ caller'[d].request = caller[d].request /\ caller'[d].reply = caller[d].reply
        /\ UNCHANGED <<holder, worker, process, requests, replies, io, calls, released>>
    BY <1>t, <1>6, EndEffect
  <2>2. MutexInv'
    BY <2>1 DEF WorkerInv, MutexInv
  <2>3. ReplyInv' /\ FailureTold'
    BY <2>1 DEF WorkerInv, ReplyInv, FailureTold
  <2>4. PipeInv'
    BY <2>1 DEF WorkerInv, PipeInv
  <2> QED
    BY <2>1, <2>2, <2>3, <2>4 DEF WorkerInv
<1>7. ASSUME NEW c \in Callers, Acquire(c) PROVE WorkerInv'
  <2>1. /\ Typed' /\ caller[c].pc = "lock" /\ holder = None
        /\ \A d \in Callers \ {c} : caller'[d] = caller[d]
        /\ UNCHANGED <<worker, process, requests, replies, released>>
        /\ Refused(c) \/ Requested(c)
    BY <1>t, <1>7, AcquireEffect
  <2>2. CASE Refused(c)
    <3>1. /\ caller'[c].pc = "idle" /\ caller'[c].result \in {"closed", "cancelled"}
          /\ UNCHANGED <<holder, io, calls>>
      BY <2>2 DEF Refused
    <3>2. MutexInv'
      BY <1>t, <2>1, <3>1 DEF WorkerInv, MutexInv
    <3>3. PipeInv' /\ ReplyInv' /\ FailureTold'
      BY <2>1, <3>1 DEF WorkerInv, PipeInv, ReplyInv, FailureTold
    <3> QED
      BY <2>1, <3>2, <3>3 DEF WorkerInv
  <2>3. CASE Requested(c)
    <3>1. /\ ~worker.closed /\ holder' = c /\ calls' = calls + 1 /\ calls + 1 \in Numbers
          /\ io'[calls + 1].state = "write"
          /\ \A m \in Numbers \ {calls + 1} : io'[m] = io[m]
          /\ caller'[c].pc = "wait" /\ caller'[c].request = calls + 1
          /\ caller'[c].result = caller[c].result
      BY <1>t, <2>3 DEF Requested, Typed, CallerRecords
    <3>2. /\ \A d \in Callers : caller'[d].pc \in {"wait", "drain"} <=> d = c
          /\ \A d \in Callers : caller'[d].pc = "output" => caller'[d].request # 0
      BY <1>t, <1>m, <2>1, <3>1
    <3>3. \A n \in Numbers :
            /\ n > calls + 1 => io'[n].state = None
            /\ n < calls + 1 => io'[n].state = "done"
            /\ n = calls + 1 => io'[n].state # None
      <4>1. ASSUME NEW n \in Numbers, n > calls + 1 PROVE io'[n].state = None
        <5>1. n > calls /\ n # calls + 1
          BY <1>t, <4>1
        <5> QED
          BY <3>1, <5>1 DEF WorkerInv, MutexInv
      <4>2. ASSUME NEW n \in Numbers, n < calls + 1 PROVE io'[n].state = "done"
        <5>1. (n < calls \/ n = calls) /\ n # calls + 1
          BY <1>t, <4>2
        <5> QED
          BY <2>1, <3>1, <5>1 DEF WorkerInv, MutexInv
      <4> QED
        BY <3>1, <4>1, <4>2 DEF None
    <3>4. MutexInv'
      BY <1>t, <2>1, <3>1, <3>2, <3>3 DEF MutexInv
    <3>5. PipeInv'
      BY <1>t, <1>m, <2>1, <3>1 DEF WorkerInv, PipeInv
    <3>6. ReplyInv' /\ FailureTold'
      BY <2>1, <3>1 DEF WorkerInv, ReplyInv, FailureTold, None
    <3> QED
      BY <2>1, <3>4, <3>5, <3>6 DEF WorkerInv
  <2> QED
    BY <2>1, <2>2, <2>3
<1>8. ASSUME NEW c \in Callers, Receive(c) PROVE WorkerInv'
  <2>0. caller[c].pc = "wait" /\ holder = c /\ caller[c].request = calls /\ calls # 0
    BY <1>m, <1>8 DEF Receive
  <2>1. /\ Typed' /\ io[calls].state = "done"
        /\ \A d \in Callers \ {c} : caller'[d] = caller[d]
        /\ UNCHANGED <<io, calls, released, requests, replies>>
        /\ holder' = None /\ caller'[c].request = calls
        /\ \/ /\ io[calls].result.good
              /\ caller'[c].pc \in {"idle", "output"}
              /\ caller'[c].reply = io[calls].result.request
              /\ worker'.closed = worker.closed /\ worker'.failure = worker.failure
           \/ /\ caller'[c].pc = "idle" /\ caller'[c].result = "failed"
              /\ worker'.closed /\ worker'.failure # 0
    BY <1>t, <1>8, <2>0, ReceiveEffect
  <2>2. /\ ~worker.closed
        /\ io[calls].result.good =>
             requests = <<>> /\ replies = <<>> /\ io[calls].result.request = calls
    BY <1>t, <2>0, <2>1 DEF WorkerInv, PipeInv
  <2>3. MutexInv'
    BY <1>t, <1>m, <2>0, <2>1 DEF WorkerInv, MutexInv
  <2>4. PipeInv'
    BY <1>t, <1>m, <2>0, <2>1, <2>2 DEF PipeInv
  <2>5. ReplyInv'
    BY <2>0, <2>1, <2>2 DEF WorkerInv, ReplyInv
  <2>6. FailureTold'
    BY <2>1 DEF WorkerInv, FailureTold
  <2> QED
    BY <2>1, <2>3, <2>4, <2>5, <2>6 DEF WorkerInv
<1>9. ASSUME NEW c \in Callers, GiveUp(c) PROVE WorkerInv'
  <2>0. caller[c].pc = "wait" /\ holder = c /\ caller[c].request = calls /\ calls # 0
    BY <1>m, <1>9 DEF GiveUp
  <2>1. /\ Typed'
        /\ caller'[c].pc = "drain" /\ caller'[c].request = calls
        /\ caller'[c].result = caller[c].result
        /\ \A d \in Callers \ {c} : caller'[d] = caller[d]
        /\ UNCHANGED <<holder, io, calls, requests, replies>>
        /\ worker'.closed /\ (worker'.failure = 0 => released')
    BY <1>t, <1>9, <2>0, GiveUpEffect
  <2>3. MutexInv'
    BY <1>t, <2>0, <2>1 DEF WorkerInv, MutexInv
  <2>4. PipeInv'
    <3>1. \A d \in Callers : caller'[d].pc # "wait"
      BY <1>m, <2>0, <2>1
    <3> QED
      BY <2>1, <3>1 DEF PipeInv
  <2>5. ReplyInv' /\ FailureTold'
    BY <2>0, <2>1 DEF WorkerInv, ReplyInv, FailureTold, None
  <2> QED
    BY <2>1, <2>3, <2>4, <2>5 DEF WorkerInv
<1>10. ASSUME NEW c \in Callers, Drain(c) PROVE WorkerInv'
  <2>0. caller[c].pc = "drain" /\ holder = c /\ caller[c].request = calls /\ calls # 0
    BY <1>m, <1>10 DEF Drain
  <2>1. /\ Typed' /\ io[calls].state = "done"
        /\ caller'[c].pc = "idle" /\ caller'[c].result = "failed"
        /\ \A d \in Callers \ {c} : caller'[d] = caller[d]
        /\ holder' = None
        /\ UNCHANGED <<worker, process, requests, replies, io, calls, released>>
    BY <1>t, <1>10, <2>0, DrainEffect
  <2>3. MutexInv'
    BY <1>t, <1>m, <2>0, <2>1 DEF WorkerInv, MutexInv
  <2>4. PipeInv'
    <3>1. /\ \A d \in Callers : caller'[d].pc \notin {"wait", "drain"}
          /\ worker.closed
      BY <1>m, <2>0, <2>1 DEF WorkerInv, PipeInv
    <3> QED
      BY <2>1, <3>1 DEF PipeInv
  <2>5. ReplyInv' /\ FailureTold'
    BY <2>1 DEF WorkerInv, ReplyInv, FailureTold
  <2> QED
    BY <2>1, <2>3, <2>4, <2>5 DEF WorkerInv
<1>11. ASSUME NEW c \in Callers, NEW accepts \in BOOLEAN, Output(c, accepts) PROVE WorkerInv'
  <2>0. caller[c].pc = "output" /\ holder # c /\ caller[c].request # 0
    BY <1>m, <1>11 DEF Output
  <2>1. /\ Typed' /\ caller'[c].pc = "idle"
        /\ caller'[c].reply = caller[c].reply /\ caller'[c].request = caller[c].request
        /\ \A d \in Callers \ {c} : caller'[d] = caller[d]
        /\ UNCHANGED <<holder, requests, replies, io, calls, released>>
        /\ \/ UNCHANGED <<worker, process>>
           \/ /\ holder = None /\ caller'[c].result = "failed"
              /\ worker'.closed /\ worker'.failure # 0
    BY <1>t, <1>11, <2>0, OutputEffect
  <2>2. MutexInv'
    BY <1>t, <2>0, <2>1 DEF WorkerInv, MutexInv
  <2>3. PipeInv'
    <3>1. \A d \in Callers : caller'[d].pc \in {"wait", "drain"} =>
            caller'[d] = caller[d] /\ holder # None
      BY <1>m, <1>t, <2>1
    <3> QED
      BY <2>1, <3>1 DEF WorkerInv, PipeInv
  <2>4. ReplyInv' /\ FailureTold'
    BY <2>0, <2>1 DEF WorkerInv, ReplyInv, FailureTold
  <2> QED
    BY <2>1, <2>2, <2>3, <2>4 DEF WorkerInv
<1>12. ASSUME NEW c \in Callers, Close(c) PROVE WorkerInv'
  <2>1. /\ Typed' /\ holder = None /\ worker'.closed /\ released'
        /\ worker'.failure = worker.failure
        /\ UNCHANGED <<holder, caller, requests, replies, io, calls>>
    BY <1>t, <1>12, CloseEffect
  <2>2. PipeInv'
    <3>1. \A d \in Callers : caller'[d].pc # "wait"
      BY <1>m, <1>t, <2>1
    <3> QED
      BY <2>1, <3>1 DEF PipeInv
  <2> QED
    BY <2>1, <2>2 DEF WorkerInv, MutexInv, ReplyInv, FailureTold
<1>13. CASE UNCHANGED vars
  BY <1>13 DEF vars, WorkerInv, Typed, MutexInv, PipeInv, ReplyInv, FailureTold
<1> QED
  BY <1>1, <1>2, <1>3, <1>4, <1>5, <1>6, <1>7, <1>8, <1>9, <1>10, <1>11, <1>12, <1>13
     DEF Next, CallerStep

(* A call that returns Facts returns those of its own request, although    *)
(* replies carry no identifier and may come after a call has given up.     *)
THEOREM RepliesMatch == Spec => []AnswerIsOwn
<1>1. WorkerInv => AnswerIsOwn
  BY DEF WorkerInv, ReplyInv, AnswerIsOwn
<1> QED
  BY <1>1, InvInit, InvStep, PTL DEF Spec

(* One goroutine is at the pipes of the process at a time, and none when   *)
(* the mutex is free.                                                      *)
THEOREM PipesExclusive == Spec => []PipesFree
<1>1. WorkerInv => PipesFree
  <2> SUFFICES ASSUME WorkerInv PROVE PipesFree
    OBVIOUS
  <2> DEFINE busy == {n \in Numbers : io[n].state \in {"write", "read"}}
  <2>1. calls \in Nat /\ \A n \in Numbers : n \in Nat
    BY WorkerAssumption DEF WorkerInv, Typed, Numbers
  <2>2. ASSUME NEW n \in busy PROVE n = calls /\ holder # None
    BY <2>1, <2>2 DEF WorkerInv, MutexInv, None
  <2>3. busy \in SUBSET {calls}
    BY <2>2
  <2>4. IsFiniteSet({calls}) /\ Cardinality({calls}) = 1
    BY FS_Singleton
  <2>5. IsFiniteSet(busy) /\ Cardinality(busy) <= 1
    BY <2>3, <2>4, FS_Subset
  <2>6. holder = None => busy = {}
    BY <2>2
  <2> QED
    BY <2>5, <2>6 DEF PipesFree
<1> QED
  BY <1>1, InvInit, InvStep, PTL DEF Spec

(* A worker that closes has recorded a failure, unless somebody closed it  *)
(* or cancelled a call, and only a closed worker has a failure.            *)
THEOREM FailuresTold == Spec => []FailureTold
<1>1. WorkerInv => FailureTold
  BY DEF WorkerInv
<1> QED
  BY <1>1, InvInit, InvStep, PTL DEF Spec

(* The failure that is recorded is the first one and never changes, and a  *)
(* closed worker stays closed and makes no further request.                *)
THEOREM FailureStays == Spec => FirstFailureKept
<1> DEFINE Kept == /\ worker.failure # 0 => worker'.failure = worker.failure
                   /\ worker.closed => worker'.closed /\ calls' = calls
<1>1. WorkerInv /\ [Next]_vars => [Kept]_vars
  <2> SUFFICES ASSUME WorkerInv, Next PROVE Kept
    OBVIOUS
  <2>0. worker \in WorkerRecords
    BY DEF WorkerInv, Typed
  <2>1. ASSUME NEW c \in Callers, Receive(c) \/ GiveUp(c) \/ Close(c) \/ \E accepts \in BOOLEAN : Output(c, accepts)
        PROVE  Kept
    BY <2>0, <2>1 DEF Receive, GiveUp, Close, Output, CloseLocked, FirstFailure, WorkerRecords
  <2>2. ASSUME NEW c \in Callers, Acquire(c) PROVE Kept
    BY <2>2 DEF Acquire
  <2>3. ASSUME NEW c \in Callers,
               CancelContext(c) \/ Timer(c) \/ Drain(c) \/ \E kind \in Kinds \cup {"handshake"} : Call(c, kind)
        PROVE  Kept
    BY <2>3 DEF CancelContext, Timer, Drain, Call
  <2>4. ASSUME NEW n \in Numbers, Write(n) \/ Read(n) PROVE Kept
    BY <2>4 DEF Write, Read
  <2>5. CASE Hang \/ Crash \/ \E good \in BOOLEAN : Answer(good)
    BY <2>5 DEF Hang, Crash, Answer
  <2> QED
    BY <2>1, <2>2, <2>3, <2>4, <2>5 DEF Next, CallerStep
<1> QED
  BY <1>1, InvInit, InvStep, PTL DEF Spec, FirstFailureKept

(* A host learns of every failure of the worker, and learns of the first,  *)
(* however often the worker is closed after it.                            *)
THEOREM FailureIsKept == Spec => FailureKept
  BY FailuresTold, FailureStays, PTL DEF FailureKept

-------------------------------------------------------------------------------
(* The slot that keeps the Object Facts of a ticket, for any Facts, limits *)
(* and data and any number of generations and lives.                       *)
CONSTANTS ListFacts, IntFacts, MaxValues, Data, MaxGenerations, MaxWrites, MaxLives

VARIABLES frame, slot, borrowed, life, written, provided

Slot == INSTANCE ObjectFacts WITH calls <- provided

Slots ==
  [state : {"unseen", "refreshing", "ready", "failed", "gone"}, gen : Nat,
   present : SUBSET (ListFacts \cup IntFacts), buffer : [ListFacts -> Seq(Data)],
   cap : [ListFacts -> Nat], ints : [IntFacts -> Data \cup {0}],
   growths : Nat, writes : Nat]

SlotTyped ==
  /\ frame \in 0..MaxGenerations
  /\ slot \in Slots
  /\ slot.gen <= frame
  /\ borrowed.error \in BOOLEAN
  /\ provided \in 0..1

(* A buffer that is not in the map is empty, so that an append starts from *)
(* nothing; the limits hold for every buffer, shown or not.                *)
WithinLimits(s) ==
  \A f \in ListFacts :
    /\ f \notin s.present => s.buffer[f] = <<>>
    /\ Len(s.buffer[f]) <= MaxValues[f]
    /\ s.cap[f] < 2 * MaxValues[f]

(* What a settled slot answers.                                            *)
Settlement(s) ==
  [gen |-> frame, error |-> s.state = "failed",
   facts |-> IF s.state = "ready" THEN Slot!Layer(s) ELSE Slot!Nothing]

(* The provider was called in this life and generation exactly if the slot *)
(* is of the current one; what it has written so far is what the slot      *)
(* shows; and who asked last has the answer of the slot.                   *)
ProviderInv ==
  /\ slot.state = "unseen" => provided = 0 /\ slot.gen = 0
  /\ slot.state \in {"ready", "failed"} => (provided = 1 <=> slot.gen = frame)
  /\ slot.state = "refreshing" => provided = 1 /\ slot.gen = frame
  /\ slot.state \in {"refreshing", "ready"} => Slot!Layer(slot) = written
  /\ slot.state \in {"ready", "failed"} /\ slot.gen = frame => borrowed = Settlement(slot)

SlotInv == SlotTyped /\ WithinLimits(slot) /\ ProviderInv

(* An array never gets room for twice the limit.                           *)
LEMMA GrownBound ==
  ASSUME NEW cap \in Nat, NEW need \in Nat, NEW limit \in Nat \ {0},
         need <= limit, cap < 2 * limit
  PROVE  Slot!Grown(cap, need) \in Nat /\ Slot!Grown(cap, need) < 2 * limit
<1>1. CASE cap < need
  <2> DEFINE S == {cap * 2, 1, need}
  <2>1. \E x \in S : \A y \in S : x >= y
    <3>1. CASE cap * 2 >= need /\ cap * 2 >= 1
      BY <3>1
    <3>2. CASE ~(cap * 2 >= need /\ cap * 2 >= 1)
      BY <1>1, <3>2
    <3> QED
      BY <3>1, <3>2
  <2>2. Slot!Max(S) \in S
    BY <2>1 DEF Slot!Max
  <2>3. \A x \in S : x \in Nat /\ x < 2 * limit
    BY <1>1
  <2>4. Slot!Grown(cap, need) = Slot!Max(S)
    BY <1>1 DEF Slot!Grown
  <2> QED
    BY <2>2, <2>3, <2>4
<1>2. CASE ~(cap < need)
  BY <1>2 DEF Slot!Grown
<1> QED
  BY <1>1, <1>2

(* What a slot is whose values were reset.                                 *)
LEMMA ResetSlot ==
  ASSUME Slot!FactAssumption, NEW s \in Slots, WithinLimits(s)
  PROVE  /\ Slot!ResetValues(s) \in Slots
         /\ Slot!ResetValues(s).present = {}
         /\ Slot!ResetValues(s).buffer = Slot!Empty
         /\ Slot!ResetValues(s).cap = s.cap
         /\ Slot!ResetValues(s).gen = s.gen
         /\ Slot!ResetValues(s).state = s.state
<1>1. Slot!Empty \in [ListFacts -> Seq(Data)] /\ {} \in SUBSET (ListFacts \cup IntFacts)
  BY DEF Slot!Empty
<1>2. Slot!ResetValues(s) = [s EXCEPT !.present = {}, !.buffer = Slot!Empty]
  BY DEF Slot!ResetValues
<1> QED
  BY <1>1, <1>2 DEF Slots

(* A slot that shows nothing and is empty keeps to its limits.             *)
LEMMA EmptyWithin ==
  ASSUME Slot!FactAssumption, NEW s \in Slots, NEW old \in Slots, WithinLimits(old),
         s.buffer = Slot!Empty, s.cap = old.cap
  PROVE  WithinLimits(s)
BY DEF WithinLimits, Slot!Empty, Slots, Slot!FactAssumption

LEMMA EmptyLayer ==
  ASSUME NEW s, s.present = {}
  PROVE  Slot!Layer(s) = Slot!Nothing
BY DEF Slot!Layer, Slot!Nothing

LEMMA SlotInit == Slot!FactAssumption /\ Slot!Init => SlotInv
<1> SUFFICES ASSUME Slot!FactAssumption, Slot!Init PROVE SlotInv
  OBVIOUS
<1>1. /\ slot = Slot!Fresh /\ frame = 0 /\ provided = 0
      /\ borrowed = [gen |-> 0, error |-> FALSE, facts |-> Slot!Nothing]
  BY DEF Slot!Init
<1>2. slot \in Slots
  BY <1>1 DEF Slot!Fresh, Slots, Slot!Empty, Slot!NoInts
<1>3. SlotTyped
  BY <1>1, <1>2 DEF SlotTyped, Slot!Fresh, Slot!FactAssumption
<1>4. WithinLimits(slot)
  BY <1>1 DEF WithinLimits, Slot!Fresh, Slot!Empty, Slot!FactAssumption
<1>5. ProviderInv
  BY <1>1 DEF ProviderInv, Slot!Fresh
<1> QED
  BY <1>3, <1>4, <1>5 DEF SlotInv

(* A write of a list within its limit.                                     *)
LEMMA PublishKeeps ==
  ASSUME Slot!FactAssumption, slot \in Slots, WithinLimits(slot),
         NEW f \in ListFacts, NEW list \in Seq(Data), Len(list) <= MaxValues[f],
         Slot!Publish(f, list)
  PROVE  /\ slot' \in Slots /\ WithinLimits(slot)'
         /\ slot'.state = slot.state /\ slot'.gen = slot.gen
         /\ Slot!Layer(slot') = [g \in slot.present \cup {f} |->
                                   IF g = f THEN list ELSE Slot!Layer(slot)[g]]
<1> DEFINE room == Slot!Grown(slot.cap[f], Len(list))
<1>0. MaxValues \in [ListFacts -> Nat \ {0}] /\ ListFacts \cap IntFacts = {}
  BY DEF Slot!FactAssumption
<1>1. room \in Nat /\ room < 2 * MaxValues[f]
  <2>1. slot.cap[f] \in Nat /\ slot.cap[f] < 2 * MaxValues[f] /\ Len(list) \in Nat
    BY DEF Slots, WithinLimits
  <2> QED
    BY <1>0, <2>1, GrownBound
<1> DEFINE present == slot.present \cup {f}
           buffer == [slot.buffer EXCEPT ![f] = list]
           cap == [slot.cap EXCEPT ![f] = room]
           growths == IF slot.cap[f] < Len(list) THEN slot.growths + 1 ELSE slot.growths
           writes == slot.writes + 1
<1>2. /\ slot' = [slot EXCEPT !.present = present, !.buffer = buffer, !.cap = cap,
                              !.growths = growths, !.writes = writes]
      /\ present \in SUBSET (ListFacts \cup IntFacts)
      /\ buffer \in [ListFacts -> Seq(Data)]
      /\ cap \in [ListFacts -> Nat]
      /\ growths \in Nat /\ writes \in Nat
  <2>1. slot' = [slot EXCEPT !.present = present, !.buffer = buffer, !.cap = cap,
                             !.growths = growths, !.writes = writes]
    BY DEF Slot!Publish
  <2>2. /\ slot.present \in SUBSET (ListFacts \cup IntFacts)
        /\ slot.buffer \in [ListFacts -> Seq(Data)] /\ slot.cap \in [ListFacts -> Nat]
        /\ slot.growths \in Nat /\ slot.writes \in Nat
    BY DEF Slots
  <2> QED
    BY <1>1, <2>1, <2>2
<1> HIDE DEF room, present, buffer, cap, growths, writes
<1>3. /\ slot' \in Slots /\ slot'.state = slot.state /\ slot'.gen = slot.gen
      /\ slot'.present = present /\ slot'.buffer = buffer /\ slot'.cap = cap
      /\ slot'.ints = slot.ints
  BY <1>2 DEF Slots
<1> USE DEF present, buffer, cap
<1>4. WithinLimits(slot')
  BY <1>0, <1>1, <1>3 DEF WithinLimits, Slots
<1>5. Slot!Layer(slot') = [g \in slot.present \cup {f} |->
                             IF g = f THEN list ELSE Slot!Layer(slot)[g]]
  BY <1>0, <1>3 DEF Slot!Layer, Slots
<1> QED
  BY <1>3, <1>4, <1>5 DEF WithinLimits

(* What the provider has written, and what the slot shows, after one more  *)
(* value under a name.                                                     *)
LEMMA WroteShows ==
  ASSUME NEW s, NEW f, NEW value, NEW layer, layer = written, Slot!Layer(slot) = written,
         s = [g \in slot.present \cup {f} |-> IF g = f THEN value ELSE layer[g]]
  PROVE  s = Slot!Wrote(f, value)
<1>1. DOMAIN written = slot.present
  BY DEF Slot!Layer
<1> QED
  BY <1>1 DEF Slot!Wrote

LEMMA SetListStep ==
  ASSUME Slot!FactAssumption, SlotInv, NEW f \in ListFacts, NEW list \in Seq(Data), Slot!SetList(f, list)
  PROVE  SlotInv'
<1>0. /\ slot.state = "refreshing" /\ Len(list) <= MaxValues[f] /\ Slot!Publish(f, list)
      /\ written' = Slot!Wrote(f, list)
      /\ frame' = frame /\ borrowed' = borrowed /\ life' = life /\ provided' = provided
  BY DEF Slot!SetList, Slot!Refreshing, Slot!Allowed
<1>1. /\ slot' \in Slots /\ WithinLimits(slot)'
      /\ slot'.state = slot.state /\ slot'.gen = slot.gen
      /\ Slot!Layer(slot') = [g \in slot.present \cup {f} |->
                                IF g = f THEN list ELSE Slot!Layer(slot)[g]]
  BY <1>0, PublishKeeps DEF SlotInv, SlotTyped
<1>2. Slot!Layer(slot) = written
  BY <1>0 DEF SlotInv, ProviderInv
<1>3. Slot!Layer(slot') = written'
  BY <1>0, <1>1, <1>2, WroteShows
<1>4. Slot!Layer(slot)' = written'
  BY <1>3 DEF Slot!Layer
<1>5. SlotTyped'
  BY <1>0, <1>1 DEF SlotInv, SlotTyped
<1>6. ProviderInv'
  BY <1>0, <1>1, <1>4 DEF SlotInv, ProviderInv
<1> QED
  BY <1>1, <1>5, <1>6 DEF SlotInv

(* An append goes on with what the provider has written, since a buffer    *)
(* that is not shown is empty.                                             *)
LEMMA AppendStep ==
  ASSUME Slot!FactAssumption, SlotInv, NEW f \in ListFacts, NEW value \in Data, Slot!AppendTo(f, value)
  PROVE  SlotInv'
<1> DEFINE list == Append(slot.buffer[f], value)
           before == IF f \in DOMAIN written THEN written[f] ELSE <<>>
<1>0. /\ slot.state = "refreshing" /\ Len(slot.buffer[f]) + 1 <= MaxValues[f]
      /\ Slot!Publish(f, list)
      /\ written' = Slot!Wrote(f, Append(before, value))
      /\ frame' = frame /\ borrowed' = borrowed /\ life' = life /\ provided' = provided
  BY DEF Slot!AppendTo, Slot!Refreshing, Slot!Allowed
<1>1. slot.buffer[f] \in Seq(Data)
  BY DEF SlotInv, SlotTyped, Slots
<1>2. list \in Seq(Data) /\ Len(list) <= MaxValues[f]
  BY <1>0, <1>1
<1>3. Slot!Layer(slot) = written
  BY <1>0 DEF SlotInv, ProviderInv
<1>4. before = slot.buffer[f]
  <2>1. DOMAIN written = slot.present
    BY <1>3 DEF Slot!Layer
  <2>2. f \in slot.present => written[f] = slot.buffer[f]
    BY <1>3 DEF Slot!Layer
  <2>3. f \notin slot.present => slot.buffer[f] = <<>>
    BY DEF SlotInv, WithinLimits
  <2> QED
    BY <2>1, <2>2, <2>3
<1>5. written' = Slot!Wrote(f, list)
  BY <1>0, <1>4
<1> HIDE DEF list, before
<1>6. /\ slot' \in Slots /\ WithinLimits(slot)'
      /\ slot'.state = slot.state /\ slot'.gen = slot.gen
      /\ Slot!Layer(slot') = [g \in slot.present \cup {f} |->
                                IF g = f THEN list ELSE Slot!Layer(slot)[g]]
  BY <1>0, <1>2, PublishKeeps DEF SlotInv, SlotTyped
<1>7. Slot!Layer(slot') = written'
  BY <1>3, <1>5, <1>6, WroteShows
<1>8. Slot!Layer(slot)' = written'
  BY <1>7 DEF Slot!Layer
<1>9. SlotTyped'
  BY <1>0, <1>6 DEF SlotInv, SlotTyped
<1>10. ProviderInv'
  BY <1>0, <1>6, <1>8 DEF SlotInv, ProviderInv
<1> QED
  BY <1>6, <1>9, <1>10 DEF SlotInv

LEMMA SetIntStep ==
  ASSUME Slot!FactAssumption, SlotInv, NEW f \in IntFacts, NEW value \in Data, Slot!SetInt(f, value)
  PROVE  SlotInv'
<1>0. /\ slot.state = "refreshing"
      /\ slot' = [slot EXCEPT !.present = @ \cup {f}, !.ints[f] = value, !.writes = @ + 1]
      /\ written' = Slot!Wrote(f, value)
      /\ frame' = frame /\ borrowed' = borrowed /\ life' = life /\ provided' = provided
  BY DEF Slot!SetInt, Slot!Refreshing
<1> DEFINE present == slot.present \cup {f}
           ints == [slot.ints EXCEPT ![f] = value]
           writes == slot.writes + 1
<1>1. slot \in Slots
  BY DEF SlotInv, SlotTyped
<1>2. /\ slot' = [slot EXCEPT !.present = present, !.ints = ints, !.writes = writes]
      /\ present \in SUBSET (ListFacts \cup IntFacts)
      /\ ints \in [IntFacts -> Data \cup {0}] /\ writes \in Nat
  <2>1. slot' = [slot EXCEPT !.present = present, !.ints = ints, !.writes = writes]
    BY <1>0
  <2>2. /\ slot.present \in SUBSET (ListFacts \cup IntFacts)
        /\ slot.ints \in [IntFacts -> Data \cup {0}] /\ slot.writes \in Nat
    BY <1>1 DEF Slots
  <2> QED
    BY <2>1, <2>2
<1> HIDE DEF present, ints, writes
<1>3. /\ slot' \in Slots /\ slot'.state = slot.state /\ slot'.gen = slot.gen
      /\ slot'.present = present /\ slot'.ints = ints
      /\ slot'.buffer = slot.buffer /\ slot'.cap = slot.cap
  BY <1>1, <1>2 DEF Slots
<1>4. WithinLimits(slot')
  BY <1>3 DEF SlotInv, WithinLimits, present
<1>5. Slot!Layer(slot) = written
  BY <1>0 DEF SlotInv, ProviderInv
<1>6. Slot!Layer(slot') = [g \in slot.present \cup {f} |->
                             IF g = f THEN value ELSE Slot!Layer(slot)[g]]
  <2>1. ListFacts \cap IntFacts = {}
    BY DEF Slot!FactAssumption
  <2> QED
    BY <1>1, <1>3, <2>1 DEF Slot!Layer, Slots, present, ints
<1>7. Slot!Layer(slot)' = written'
  <2>1. Slot!Layer(slot') = written'
    BY <1>0, <1>5, <1>6, WroteShows
  <2> QED
    BY <2>1 DEF Slot!Layer
<1>8. SlotTyped'
  BY <1>0, <1>3 DEF SlotInv, SlotTyped
<1>9. ProviderInv'
  BY <1>0, <1>3, <1>7 DEF SlotInv, ProviderInv
<1> QED
  BY <1>4, <1>8, <1>9 DEF SlotInv, WithinLimits

(* The provider returns: from here on the slot has an answer, and whoever  *)
(* asked has it.                                                           *)
LEMMA ReturnStep ==
  ASSUME Slot!FactAssumption, SlotInv, NEW error \in BOOLEAN, Slot!ProviderReturns(error)
  PROVE  SlotInv'
<1>0. /\ slot.state = "refreshing"
      /\ slot' = IF error THEN Slot!Failed(slot) ELSE [slot EXCEPT !.state = "ready"]
      /\ borrowed' = [gen |-> frame, error |-> error,
                      facts |-> IF error THEN Slot!Nothing ELSE Slot!Layer(slot)]
      /\ frame' = frame /\ life' = life /\ written' = written /\ provided' = provided
  BY DEF Slot!ProviderReturns, Slot!Refreshing
<1>1. slot \in Slots /\ WithinLimits(slot) /\ provided = 1 /\ slot.gen = frame
      /\ Slot!Layer(slot) = written
  BY <1>0 DEF SlotInv, SlotTyped, ProviderInv
<1>2. CASE error
  <2> DEFINE s == Slot!ResetValues(slot)
  <2>1. s \in Slots /\ s.present = {} /\ s.buffer = Slot!Empty /\ s.cap = slot.cap /\ s.gen = slot.gen
    BY <1>1, ResetSlot
  <2>2. slot' = [s EXCEPT !.state = "failed"]
    BY <1>0, <1>2 DEF Slot!Failed
  <2> HIDE DEF s
  <2>3. /\ slot' \in Slots /\ slot'.state = "failed" /\ slot'.gen = slot.gen
        /\ slot'.buffer = Slot!Empty /\ slot'.cap = slot.cap
    BY <2>1, <2>2 DEF Slots
  <2>4. WithinLimits(slot')
    BY <1>1, <2>3, EmptyWithin
  <2>5. SlotTyped'
    BY <1>0, <2>3 DEF SlotInv, SlotTyped
  <2>6. ProviderInv'
    BY <1>0, <1>1, <1>2, <2>3 DEF ProviderInv, Settlement, Slot!Nothing
  <2> QED
    BY <2>4, <2>5, <2>6 DEF SlotInv, WithinLimits
<1>3. CASE ~error
  <2>1. /\ slot' \in Slots /\ slot'.state = "ready" /\ slot'.gen = slot.gen
        /\ slot'.present = slot.present /\ slot'.buffer = slot.buffer
        /\ slot'.cap = slot.cap /\ slot'.ints = slot.ints
    BY <1>0, <1>1, <1>3 DEF Slots
  <2>2. Slot!Layer(slot)' = Slot!Layer(slot)
    BY <2>1 DEF Slot!Layer
  <2>3. SlotTyped'
    BY <1>0, <2>1 DEF SlotInv, SlotTyped
  <2>4. ProviderInv'
    BY <1>0, <1>1, <1>3, <2>1, <2>2 DEF ProviderInv, Settlement
  <2>5. WithinLimits(slot)'
    BY <1>1, <2>1 DEF WithinLimits
  <2> QED
    BY <2>3, <2>4, <2>5 DEF SlotInv
<1> QED
  BY <1>2, <1>3

(* Frame.Object: a settled slot answers as before; any other one has been  *)
(* reset for this generation when its provider is called.                  *)
LEMMA ObjectStep ==
  ASSUME Slot!FactAssumption, SlotInv, Slot!Object
  PROVE  SlotInv'
<1> DEFINE s == Slot!ForGeneration(slot, frame)
<1>0. /\ slot.state # "refreshing" /\ slot.state # "gone"
      /\ frame # 0 /\ frame' = frame /\ life' = life
  BY DEF Slot!Object, Slot!Refreshing, Slot!Gone
<1>1. slot \in Slots /\ WithinLimits(slot) /\ frame \in Nat
  BY DEF SlotInv, SlotTyped, Slot!FactAssumption
<1>2. CASE slot.gen = frame /\ Slot!Settled(slot)
  <2>1. s = slot
    BY <1>2 DEF Slot!ForGeneration
  <2>2. slot' = slot /\ borrowed' = Settlement(slot) /\ provided' = provided /\ written' = written
    BY <1>2, <2>1 DEF Slot!Object, Settlement
  <2>3. borrowed' = borrowed
    BY <1>2, <2>2 DEF SlotInv, ProviderInv, Slot!Settled
  <2> QED
    BY <1>0, <2>2, <2>3 DEF SlotInv, SlotTyped, WithinLimits, ProviderInv, Settlement, Slot!Layer
<1>3. CASE slot.gen = frame /\ ~Slot!Settled(slot)
  BY <1>0, <1>1, <1>3 DEF Slots, Slot!Settled, SlotInv, ProviderInv
<1>4. CASE slot.gen # frame
  <2> DEFINE r == Slot!ResetValues(slot)
  <2>1. r \in Slots /\ r.present = {} /\ r.buffer = Slot!Empty /\ r.cap = slot.cap
    BY <1>1, ResetSlot
  <2>2. s = [r EXCEPT !.gen = frame, !.state = "unseen", !.growths = 0, !.writes = 0]
    BY <1>4 DEF Slot!ForGeneration
  <2> HIDE DEF r
  <2>3. s.state = "unseen"
    BY <2>1, <2>2 DEF Slots
  <2> HIDE DEF s
  <2>4. /\ slot' = [s EXCEPT !.state = "refreshing"] /\ provided' = provided + 1
        /\ written' = Slot!Nothing /\ borrowed' = borrowed
    BY <2>3 DEF Slot!Object, Slot!Settled, s
  <2>5. /\ slot' \in Slots /\ slot'.state = "refreshing" /\ slot'.gen = frame
        /\ slot'.present = {} /\ slot'.buffer = Slot!Empty /\ slot'.cap = slot.cap
    BY <1>1, <2>1, <2>2, <2>4 DEF Slots
  <2>6. provided = 0
    BY <1>0, <1>1, <1>4 DEF SlotInv, SlotTyped, ProviderInv, Slots
  <2>7. Slot!Layer(slot)' = written'
    <3>1. Slot!Layer(slot') = Slot!Nothing
      BY <2>5, EmptyLayer
    <3> QED
      BY <2>4, <3>1 DEF Slot!Layer
  <2>8. WithinLimits(slot')
    BY <1>1, <2>5, EmptyWithin
  <2>9. SlotTyped'
    BY <1>0, <1>1, <2>4, <2>5, <2>6 DEF SlotInv, SlotTyped
  <2>10. ProviderInv'
    BY <1>0, <2>4, <2>5, <2>6, <2>7 DEF ProviderInv
  <2> QED
    BY <2>8, <2>9, <2>10 DEF SlotInv, WithinLimits
<1> QED
  BY <1>2, <1>3, <1>4

LEMMA RemoveStep ==
  ASSUME Slot!FactAssumption, SlotInv, Slot!Remove
  PROVE  SlotInv'
<1> DEFINE r == Slot!ResetValues(slot)
<1>0. /\ slot' = [r EXCEPT !.state = "gone", !.gen = 0]
      /\ frame' = frame /\ borrowed' = borrowed /\ written' = written /\ provided' = provided
  BY DEF Slot!Remove
<1>1. slot \in Slots /\ WithinLimits(slot) /\ frame \in Nat
  BY DEF SlotInv, SlotTyped, Slot!FactAssumption
<1>2. r \in Slots /\ r.buffer = Slot!Empty /\ r.cap = slot.cap
  BY <1>1, ResetSlot
<1> HIDE DEF r
<1>3. /\ slot' \in Slots /\ slot'.state = "gone" /\ slot'.gen = 0
      /\ slot'.buffer = Slot!Empty /\ slot'.cap = slot.cap
  BY <1>0, <1>2 DEF Slots
<1>4. WithinLimits(slot')
  BY <1>1, <1>3, EmptyWithin
<1>5. SlotTyped'
  BY <1>0, <1>1, <1>3 DEF SlotInv, SlotTyped
<1>6. ProviderInv'
  BY <1>3 DEF ProviderInv
<1> QED
  BY <1>4, <1>5, <1>6 DEF SlotInv, WithinLimits

LEMMA FreshSlot ==
  Slot!FactAssumption =>
    /\ Slot!Fresh \in Slots /\ WithinLimits(Slot!Fresh)
    /\ Slot!Fresh.state = "unseen" /\ Slot!Fresh.gen = 0
BY DEF Slot!Fresh, Slots, Slot!Empty, Slot!NoInts, WithinLimits, Slot!FactAssumption

LEMMA SlotStep == Slot!FactAssumption /\ SlotInv /\ [Slot!Next]_(Slot!vars) => SlotInv'
<1> SUFFICES ASSUME Slot!FactAssumption, SlotInv, [Slot!Next]_(Slot!vars) PROVE SlotInv'
  OBVIOUS
<1>1. CASE Slot!NewFrame
  <2>1. /\ slot.state # "refreshing" /\ frame < MaxGenerations /\ frame' = frame + 1
        /\ provided' = 0 /\ slot' = slot /\ borrowed' = borrowed /\ written' = written
    BY <1>1 DEF Slot!NewFrame, Slot!Refreshing
  <2>2. frame \in Nat /\ MaxGenerations \in Nat /\ slot.gen \in Nat /\ slot.gen < frame'
    BY <2>1 DEF SlotInv, SlotTyped, Slot!FactAssumption, Slots
  <2>3. SlotTyped' /\ WithinLimits(slot)'
    BY <2>1, <2>2 DEF SlotInv, SlotTyped, WithinLimits
  <2>4. ProviderInv'
    BY <2>1, <2>2 DEF SlotInv, ProviderInv, Slot!Layer
  <2> QED
    BY <2>3, <2>4 DEF SlotInv
<1>2. CASE Slot!Add
  <2>1. /\ slot' = Slot!Fresh /\ provided' = 0
        /\ frame' = frame /\ borrowed' = borrowed /\ written' = written
    BY <1>2 DEF Slot!Add
  <2>2. WithinLimits(slot)'
    BY <2>1, FreshSlot DEF WithinLimits
  <2>3. SlotTyped'
    BY <2>1, FreshSlot DEF SlotInv, SlotTyped, Slot!FactAssumption
  <2>4. ProviderInv'
    BY <2>1, FreshSlot DEF ProviderInv
  <2> QED
    BY <2>2, <2>3, <2>4 DEF SlotInv
<1>3. ASSUME NEW f \in ListFacts, NEW n \in 0..(MaxValues[f] + 1), NEW list \in [1..n -> Data],
             Slot!SetList(f, list)
      PROVE  SlotInv'
  <2>1. list \in Seq(Data)
    BY DEF Slot!FactAssumption
  <2> QED
    BY <1>3, <2>1, SetListStep
<1>4. CASE UNCHANGED Slot!vars
  BY <1>4 DEF Slot!vars, SlotInv, SlotTyped, WithinLimits, ProviderInv, Settlement, Slot!Layer
<1> QED
  BY <1>1, <1>2, <1>3, <1>4, ObjectStep, RemoveStep, AppendStep, SetIntStep, ReturnStep DEF Slot!Next

LEMMA SlotInvariant == Slot!FactAssumption => (Slot!Spec => []SlotInv)
<1> SUFFICES ASSUME Slot!FactAssumption PROVE Slot!Spec => []SlotInv
  OBVIOUS
<1> QED
  BY SlotInit, SlotStep, PTL DEF Slot!Spec

(* Whoever asks in a generation is served exactly what the provider wrote  *)
(* for this ticket in this generation, although buffers, maps and slots    *)
(* are used again (fact/frame.go and object_slot.go).                      *)
THEOREM ServedAsWritten == Slot!FactAssumption => (Slot!Spec => []Slot!ServedIsWritten)
<1> SUFFICES ASSUME Slot!FactAssumption PROVE Slot!Spec => []Slot!ServedIsWritten
  OBVIOUS
<1>1. SlotInv => Slot!ServedIsWritten
  BY DEF SlotInv, ProviderInv, Slot!ServedIsWritten
<1> QED
  BY <1>1, SlotInvariant, PTL

(* The provider runs at most once per ticket and generation, whether it    *)
(* succeeds or fails (Frame.Object).                                       *)
THEOREM OneProviderRun == Slot!FactAssumption => (Slot!Spec => []Slot!ProviderRunsOnce)
<1> SUFFICES ASSUME Slot!FactAssumption PROVE Slot!Spec => []Slot!ProviderRunsOnce
  OBVIOUS
<1>1. SlotInv => Slot!ProviderRunsOnce
  BY DEF SlotInv, SlotTyped, Slot!ProviderRunsOnce
<1> QED
  BY <1>1, SlotInvariant, PTL

(* No sequence of writes, appends, errors and generations brings a Fact    *)
(* beyond the limit of its contract, or its array to twice that (Writer).  *)
THEOREM LimitsKept == Slot!FactAssumption => (Slot!Spec => []Slot!LimitsHold)
<1> SUFFICES ASSUME Slot!FactAssumption PROVE Slot!Spec => []Slot!LimitsHold
  OBVIOUS
<1>1. SlotInv => Slot!LimitsHold
  BY DEF SlotInv, WithinLimits, Slot!LimitsHold
<1> QED
  BY <1>1, SlotInvariant, PTL

(* All callers of a generation get the same answer, errors included        *)
(* (Frame.Object keeps what it settled).                                   *)
THEOREM AnswersAgree == Slot!FactAssumption => (Slot!Spec => Slot!AnswerIsStable)
<1> SUFFICES ASSUME Slot!FactAssumption PROVE Slot!Spec => Slot!AnswerIsStable
  OBVIOUS
<1> DEFINE Stable == borrowed.gen = frame /\ borrowed'.gen = frame /\ life' = life
                     /\ provided' = provided /\ provided = 1 /\ ~Slot!Refreshing
                     => borrowed' = borrowed
<1>1. SlotInv /\ [Slot!Next]_(Slot!vars) => [Stable]_(Slot!vars)
  <2> SUFFICES ASSUME SlotInv, Slot!Next, ~Slot!Refreshing, provided' = provided, provided = 1
               PROVE  borrowed' = borrowed
    OBVIOUS
  <2>1. CASE Slot!Object
    <3> DEFINE s == Slot!ForGeneration(slot, frame)
    <3>1. CASE slot.gen = frame
      <4>1. s = slot
        BY <3>1 DEF Slot!ForGeneration
      <4>2. CASE Slot!Settled(slot)
        <5>1. borrowed' = Settlement(slot)
          BY <2>1, <4>1, <4>2 DEF Slot!Object, Settlement
        <5> QED
          BY <3>1, <4>2, <5>1 DEF SlotInv, ProviderInv, Slot!Settled
      <4>3. CASE ~Slot!Settled(slot)
        BY <2>1, <4>1, <4>3 DEF Slot!Object
      <4> QED
        BY <4>2, <4>3
    <3>2. CASE slot.gen # frame
      <4> DEFINE r == Slot!ResetValues(slot)
      <4>1. slot \in Slots /\ WithinLimits(slot)
        BY DEF SlotInv, SlotTyped
      <4>2. r \in Slots
        BY <4>1, ResetSlot
      <4>3. s = [r EXCEPT !.gen = frame, !.state = "unseen", !.growths = 0, !.writes = 0]
        BY <3>2 DEF Slot!ForGeneration
      <4> HIDE DEF r
      <4>4. s.state = "unseen"
        BY <4>2, <4>3 DEF Slots
      <4> HIDE DEF s
      <4> QED
        BY <2>1, <4>4 DEF Slot!Object, Slot!Settled, s
    <3> QED
      BY <3>1, <3>2
  <2>2. CASE Slot!NewFrame \/ Slot!Remove \/ Slot!Add
    BY <2>2 DEF Slot!NewFrame, Slot!Remove, Slot!Add
  <2>3. CASE \/ \E f \in ListFacts : \E list : Slot!SetList(f, list)
             \/ \E f \in ListFacts, value \in Data : Slot!AppendTo(f, value)
             \/ \E f \in IntFacts, value \in Data : Slot!SetInt(f, value)
             \/ \E error \in BOOLEAN : Slot!ProviderReturns(error)
    BY <2>3 DEF Slot!SetList, Slot!AppendTo, Slot!SetInt, Slot!ProviderReturns
  <2> QED
    BY <2>1, <2>2, <2>3 DEF Slot!Next
<1> QED
  BY <1>1, SlotInvariant, PTL DEF Slot!Spec, Slot!AnswerIsStable

(* The slot, its generation and its answers stay of their types.           *)
THEOREM SlotTypeCorrect == Slot!FactAssumption => (Slot!Spec => []Slot!TypeOK)
<1> SUFFICES ASSUME Slot!FactAssumption PROVE Slot!Spec => []Slot!TypeOK
  OBVIOUS
<1>1. SlotInv => Slot!TypeOK
  BY DEF SlotInv, SlotTyped, Slots, Slot!TypeOK, Slot!FactAssumption
<1> QED
  BY <1>1, SlotInvariant, PTL

-------------------------------------------------------------------------------
(* How a provider is bound to a rule and what it may return, for any       *)
(* contracts, descriptors and layers.                                      *)
CONSTANTS Contracts, Descriptors, Layers, Scope

VARIABLES contract, python, present, descriptor, phase, layer, verdict

Binding == INSTANCE ProviderHandshake

BindingTyped ==
  /\ contract \in Contracts
  /\ descriptor \in Descriptors \cup {Binding!NoDescriptor}
  /\ layer \in Layers \cup {{}}
  /\ phase \in {"rule", "script", "load", "serving", "refused"}
  /\ descriptor # Binding!NoDescriptor => present

(* What the validation of a layer comes to.                                *)
Accepted(values) ==
  /\ \A e, f \in values : e.name = f.name => e = f
  /\ \A e \in values : Binding!InvalidEntry(e) = "ok"
  /\ Scope = "match" => Binding!Names(Binding!OfScope) \subseteq Binding!Names(values)

(* What was refused never goes on: whatever is served was compiled, bound  *)
(* and validated.                                                          *)
BindingInv ==
  /\ BindingTyped
  /\ phase \in {"script", "load", "serving"} => Binding!NewValidator(contract) = "ok"
  /\ phase = "serving" =>
       /\ Binding!Handshake(Binding!OfScope, descriptor) = "ok"
       /\ verdict = "ok" /\ layer # {} => Accepted(layer)
  /\ phase \in {"rule", "script", "load"} => layer = {}

LEMMA LeastOf ==
  ASSUME NEW S \in SUBSET Nat, S # {}
  PROVE  Binding!Min(S) \in S
<1> DEFINE R == OpToRel(<, Nat)
<1>1. \A x, y \in Nat : <<x, y>> \in R <=> x < y
  BY DEF OpToRel
<1>2. PICK m \in S : \A y \in S : ~ (<<y, m>> \in R)
  <2>1. IsWellFoundedOn(R, Nat)
    BY NatLessThanWellFounded
  <2> HIDE DEF R
  <2> QED
    BY <2>1, WFMin
<1> HIDE DEF R
<1>3. \A y \in S : m <= y
  <2> TAKE y \in S
  <2>1. m \in Nat /\ y \in Nat /\ ~(y < m)
    BY <1>1, <1>2
  <2> QED
    BY <2>1
<1>4. \E x \in S : \A y \in S : x =< y
  BY <1>3
<1> QED
  BY <1>4 DEF Binding!Min

(* A list of checks passes exactly if each of them does.                   *)
LEMMA FirstOk ==
  ASSUME NEW codes, DOMAIN codes \subseteq Nat
  PROVE  Binding!First(codes) = "ok" <=> \A i \in DOMAIN codes : codes[i] = "ok"
<1> DEFINE failed == {i \in DOMAIN codes : codes[i] # "ok"}
<1>1. failed # {} => Binding!Min(failed) \in failed
  <2>1. failed \in SUBSET Nat
    OBVIOUS
  <2> HIDE DEF failed
  <2> QED
    BY <2>1, LeastOf
<1>2. Binding!First(codes) = IF failed = {} THEN "ok" ELSE codes[Binding!Min(failed)]
  BY DEF Binding!First
<1> QED
  BY <1>1, <1>2

LEMMA FirstOfTwo ==
  ASSUME NEW a, NEW b
  PROVE  Binding!First(<<a, b>>) = "ok" <=> a = "ok" /\ b = "ok"
<1> DEFINE s == <<a, b>>
<1>1. DOMAIN s = 1..2 /\ s[1] = a /\ s[2] = b
  OBVIOUS
<1>2. Binding!First(s) = "ok" <=> \A i \in DOMAIN s : s[i] = "ok"
  BY <1>1, FirstOk
<1> HIDE DEF s
<1>3. (\A i \in 1..2 : s[i] = "ok")
        <=> s[1] = "ok" /\ s[2] = "ok"
  OBVIOUS
<1> QED
  BY <1>1, <1>2, <1>3 DEF s

LEMMA FirstOfThree ==
  ASSUME NEW a, NEW b, NEW c
  PROVE  Binding!First(<<a, b, c>>) = "ok" <=> a = "ok" /\ b = "ok" /\ c = "ok"
<1> DEFINE s == <<a, b, c>>
<1>1. DOMAIN s = 1..3 /\ s[1] = a /\ s[2] = b /\ s[3] = c
  OBVIOUS
<1>2. Binding!First(s) = "ok" <=> \A i \in DOMAIN s : s[i] = "ok"
  BY <1>1, FirstOk
<1> HIDE DEF s
<1>3. (\A i \in 1..3 : s[i] = "ok")
        <=> s[1] = "ok" /\ s[2] = "ok" /\ s[3] = "ok"
  OBVIOUS
<1> QED
  BY <1>1, <1>2, <1>3 DEF s

LEMMA FirstOfFour ==
  ASSUME NEW a, NEW b, NEW c, NEW d
  PROVE  Binding!First(<<a, b, c, d>>) = "ok" <=> a = "ok" /\ b = "ok" /\ c = "ok" /\ d = "ok"
<1> DEFINE s == <<a, b, c, d>>
<1>1. DOMAIN s = 1..4 /\ s[1] = a /\ s[2] = b /\ s[3] = c /\ s[4] = d
  OBVIOUS
<1>2. Binding!First(s) = "ok" <=> \A i \in DOMAIN s : s[i] = "ok"
  BY <1>1, FirstOk
<1> HIDE DEF s
<1>3. (\A i \in 1..4 : s[i] = "ok")
        <=> s[1] = "ok" /\ s[2] = "ok" /\ s[3] = "ok" /\ s[4] = "ok"
  OBVIOUS
<1> QED
  BY <1>1, <1>2, <1>3 DEF s

LEMMA FirstOfSix ==
  ASSUME NEW a, NEW b, NEW c, NEW d, NEW e, NEW f
  PROVE  Binding!First(<<a, b, c, d, e, f>>) = "ok"
           <=> a = "ok" /\ b = "ok" /\ c = "ok" /\ d = "ok" /\ e = "ok" /\ f = "ok"
<1> DEFINE s == <<a, b, c, d, e, f>>
<1>1. DOMAIN s = 1..6 /\ s[1] = a /\ s[2] = b /\ s[3] = c /\ s[4] = d /\ s[5] = e /\ s[6] = f
  OBVIOUS
<1>2. Binding!First(s) = "ok" <=> \A i \in DOMAIN s : s[i] = "ok"
  BY <1>1, FirstOk
<1> HIDE DEF s
<1>3. (\A i \in 1..6 : s[i] = "ok")
        <=> s[1] = "ok" /\ s[2] = "ok" /\ s[3] = "ok" /\ s[4] = "ok" /\ s[5] = "ok" /\ s[6] = "ok"
  OBVIOUS
<1> QED
  BY <1>1, <1>2, <1>3 DEF s

(* A declaration that passes has a type, the scope of a provider, and a    *)
(* limit exactly if it is a list.                                          *)
GoodSpec(s) ==
  /\ s.type \in {"list", "int64"}
  /\ s.type = "int64" => s.max = 0
  /\ s.type = "list" => s.max > 0

NamedOnce(S) == \A s, t \in S : s.name = t.name => s = t

LEMMA ValidatorOk ==
  ASSUME NEW specs \in Seq(Binding!FactSpecs), Binding!NewValidator(specs) = "ok"
  PROVE  /\ \A i, j \in DOMAIN specs : specs[i].name = specs[j].name => i = j
         /\ \A i \in DOMAIN specs : GoodSpec(specs[i])
<1> DEFINE codes == [i \in DOMAIN specs |-> Binding!InvalidSpec(specs, i)]
<1>1. DOMAIN codes \subseteq Nat
  OBVIOUS
<1>2. Binding!First(codes) = "ok"
  BY DEF Binding!NewValidator
<1>3. \A i \in DOMAIN specs : codes[i] = "ok"
  <2>1. DOMAIN codes = DOMAIN specs
    OBVIOUS
  <2> HIDE DEF codes
  <2> QED
    BY <1>1, <1>2, <2>1, FirstOk
<1>4. ASSUME NEW i \in DOMAIN specs
      PROVE  GoodSpec(specs[i]) /\ ~ \E j \in 1..(i - 1) : specs[j].name = specs[i].name
  <2> DEFINE s == specs[i]
             c1 == Binding!Check(s.name = 0, "INVALID_FACT")
             c2 == Binding!Check(s.type \notin {"list", "int64"}, "INVALID_FACT")
             c3 == Binding!Check(s.scope \notin {"tick", "object", "match"}, "INVALID_FACT_SCOPE")
             c4 == Binding!Check(s.type = "int64" /\ s.max # 0, "INVALID_FACT_LIMIT")
             c5 == Binding!Check(s.type = "list" /\ s.max <= 0, "INVALID_FACT_LIMIT")
             c6 == Binding!Check(\E j \in 1..(i - 1) : specs[j].name = s.name, "DUPLICATE_FACT")
  <2>0. Binding!First(<<c1, c2, c3, c4, c5, c6>>) = "ok"
    BY <1>3 DEF Binding!InvalidSpec
  <2>1. c2 = "ok" /\ c4 = "ok" /\ c5 = "ok" /\ c6 = "ok"
    <3> HIDE DEF c1, c2, c3, c4, c5, c6
    <3> QED
      BY <2>0, FirstOfSix
  <2>2. s \in Binding!FactSpecs
    OBVIOUS
  <2> QED
    BY <2>1, <2>2 DEF Binding!Check, GoodSpec, Binding!FactSpecs
<1>5. ASSUME NEW i \in DOMAIN specs, NEW j \in DOMAIN specs, specs[i].name = specs[j].name
      PROVE  i = j
  <2>1. i \in Nat \ {0} /\ j \in Nat \ {0}
    OBVIOUS
  <2>2. ~(j \in 1..(i - 1)) /\ ~(i \in 1..(j - 1))
    BY <1>4, <1>5
  <2> QED
    BY <2>1, <2>2
<1> QED
  BY <1>4, <1>5

(* A descriptor that passes names every Fact once.                         *)
LEMMA ListedOk ==
  ASSUME NEW facts \in Seq(Binding!FactSpecs), Binding!Listed(facts) = "ok"
  PROVE  \A i, j \in DOMAIN facts : facts[i].name = facts[j].name => i = j
<1> DEFINE codes == [i \in DOMAIN facts |->
                       Binding!First(<<
                         Binding!Check(facts[i].name = 0, "INVALID_DESCRIPTOR"),
                         Binding!Check(\E j \in 1..(i - 1) : facts[j].name = facts[i].name, "DUPLICATE_FACT")>>)]
<1>1. DOMAIN codes = DOMAIN facts /\ DOMAIN facts \subseteq Nat /\ Binding!First(codes) = "ok"
  BY DEF Binding!Listed
<1>2. \A i \in DOMAIN facts : codes[i] = "ok"
  <2> HIDE DEF codes
  <2> QED
    BY <1>1, FirstOk
<1>3. ASSUME NEW i \in DOMAIN facts
      PROVE  ~ \E j \in 1..(i - 1) : facts[j].name = facts[i].name
  <2> DEFINE c1 == Binding!Check(facts[i].name = 0, "INVALID_DESCRIPTOR")
             c2 == Binding!Check(\E j \in 1..(i - 1) : facts[j].name = facts[i].name, "DUPLICATE_FACT")
  <2>1. Binding!First(<<c1, c2>>) = "ok"
    BY <1>2
  <2>2. c2 = "ok"
    <3> HIDE DEF c1, c2
    <3> QED
      BY <2>1, FirstOfTwo
  <2> QED
    BY <2>2 DEF Binding!Check
<1> QED
  <2> SUFFICES ASSUME NEW i \in DOMAIN facts, NEW j \in DOMAIN facts, facts[i].name = facts[j].name
               PROVE  i = j
    OBVIOUS
  <2>1. i \in Nat \ {0} /\ j \in Nat \ {0}
    OBVIOUS
  <2>2. ~(j \in 1..(i - 1)) /\ ~(i \in 1..(j - 1))
    BY <1>3
  <2> QED
    BY <2>1, <2>2

LEMMA NamedOnceSet ==
  ASSUME NEW specs \in Seq(Binding!FactSpecs),
         \A i, j \in DOMAIN specs : specs[i].name = specs[j].name => i = j
  PROVE  NamedOnce(Binding!ToSet(specs)) /\ Binding!ToSet(specs) \subseteq Binding!FactSpecs
BY DEF NamedOnce, Binding!ToSet

(* In declarations that name every Fact once, a name has its own one.      *)
LEMMA NamedByName ==
  ASSUME NEW S, NamedOnce(S), NEW s \in S
  PROVE  Binding!ByName(S, s.name) = s /\ s.name \in Binding!Names(S)
<1>1. \E t \in S : t.name = s.name
  OBVIOUS
<1>2. Binding!ByName(S, s.name) \in S /\ Binding!ByName(S, s.name).name = s.name
  BY <1>1 DEF Binding!ByName
<1> QED
  BY <1>2 DEF NamedOnce, Binding!Names

(* A descriptor that covers declarations has each of them as it is.        *)
LEMMA CoveredOk ==
  ASSUME NEW expected \in SUBSET Binding!FactSpecs, NEW facts \in SUBSET Binding!FactSpecs,
         NamedOnce(expected), NamedOnce(facts), Binding!Covered(expected, facts) = "ok"
  PROVE  expected \subseteq facts
<1> DEFINE codes == [name \in Binding!Names(expected) |->
                       IF name \notin Binding!Names(facts) THEN "MISSING_FACT"
                       ELSE Binding!Mismatch(Binding!ByName(expected, name), Binding!ByName(facts, name))]
<1>1. DOMAIN codes = Binding!Names(expected) /\ DOMAIN codes \subseteq Nat /\ Binding!First(codes) = "ok"
  BY DEF Binding!Covered, Binding!Names, Binding!FactSpecs
<1>2. \A name \in Binding!Names(expected) : codes[name] = "ok"
  <2> HIDE DEF codes
  <2> QED
    BY <1>1, FirstOk
<1> SUFFICES ASSUME NEW want \in expected PROVE want \in facts
  OBVIOUS
<1>3. want.name \in Binding!Names(expected) /\ Binding!ByName(expected, want.name) = want
  BY NamedByName
<1>4. want.name \in Binding!Names(facts)
  BY <1>2, <1>3
<1>5. PICK got \in facts : got.name = want.name
  BY <1>4 DEF Binding!Names
<1>6. Binding!ByName(facts, want.name) = got
  BY <1>5, NamedByName
<1>7. Binding!Mismatch(want, got) = "ok"
  BY <1>2, <1>3, <1>4, <1>6
<1>8. got.scope = want.scope /\ got.type = want.type /\ got.max = want.max
  <2> DEFINE c1 == Binding!Check(got.scope # want.scope, "FACT_SCOPE_MISMATCH")
             c2 == Binding!Check(got.type # want.type, "FACT_TYPE_MISMATCH")
             c3 == Binding!Check(got.max # want.max, "FACT_MAX_VALUES_MISMATCH")
  <2>1. Binding!First(<<c1, c2, c3>>) = "ok"
    BY <1>7 DEF Binding!Mismatch
  <2>2. c1 = "ok" /\ c2 = "ok" /\ c3 = "ok"
    <3> HIDE DEF c1, c2, c3
    <3> QED
      BY <2>1, FirstOfThree
  <2> QED
    BY <2>2 DEF Binding!Check
<1>9. got \in Binding!FactSpecs /\ want \in Binding!FactSpecs
  BY <1>5
<1>10. got = want
  BY <1>5, <1>8, <1>9 DEF Binding!FactSpecs
<1> QED
  BY <1>5, <1>10

(* What a descriptor has beyond them is declared well and of the scope.    *)
LEMMA ExtrasOk ==
  ASSUME NEW expected \in SUBSET Binding!FactSpecs, NEW facts \in SUBSET Binding!FactSpecs,
         NamedOnce(facts), Binding!Extras(expected, facts) = "ok"
  PROVE  \A s \in facts : s.name \notin Binding!Names(expected) => GoodSpec(s) /\ s.scope = Scope
<1> DEFINE extra == Binding!Names(facts) \ Binding!Names(expected)
           codes == [name \in extra |-> Binding!InvalidExtra(Binding!ByName(facts, name))]
<1>1. DOMAIN codes = extra /\ DOMAIN codes \subseteq Nat /\ Binding!First(codes) = "ok"
  BY DEF Binding!Extras, Binding!Names, Binding!FactSpecs
<1>2. \A name \in extra : codes[name] = "ok"
  <2> HIDE DEF codes, extra
  <2> QED
    BY <1>1, FirstOk
<1> SUFFICES ASSUME NEW s \in facts, s.name \notin Binding!Names(expected)
             PROVE  GoodSpec(s) /\ s.scope = Scope
  OBVIOUS
<1>3. s.name \in extra /\ Binding!ByName(facts, s.name) = s
  BY NamedByName
<1>4. Binding!InvalidExtra(s) = "ok"
  BY <1>2, <1>3
<1> DEFINE c1 == Binding!Check(s.scope # Scope, "FACT_SCOPE_MISMATCH")
           c2 == Binding!Check(s.type = "list" /\ s.max <= 0, "INVALID_DESCRIPTOR")
           c3 == Binding!Check(s.type = "int64" /\ s.max # 0, "INVALID_DESCRIPTOR")
           c4 == Binding!Check(s.type \notin {"list", "int64"}, "INVALID_DESCRIPTOR")
<1>5. Binding!First(<<c1, c2, c3, c4>>) = "ok"
  BY <1>4 DEF Binding!InvalidExtra
<1>6. c1 = "ok" /\ c2 = "ok" /\ c3 = "ok" /\ c4 = "ok"
  <2> HIDE DEF c1, c2, c3, c4
  <2> QED
    BY <1>5, FirstOfFour
<1>7. s \in Binding!FactSpecs
  OBVIOUS
<1> QED
  BY <1>6, <1>7 DEF Binding!Check, GoodSpec, Binding!FactSpecs

(* What the handshake has established once it passes.                      *)
LEMMA HandshakeOk ==
  ASSUME NEW expected, Binding!Handshake(expected, descriptor) = "ok"
  PROVE  /\ expected # {} => present /\ descriptor # Binding!NoDescriptor
         /\ descriptor # Binding!NoDescriptor =>
              /\ Binding!Listed(descriptor.facts) = "ok"
              /\ Binding!Covered(expected, Binding!ToSet(descriptor.facts)) = "ok"
              /\ Binding!Extras(expected, Binding!ToSet(descriptor.facts)) = "ok"
<1>1. expected # {} => present /\ descriptor # Binding!NoDescriptor
  BY DEF Binding!Handshake, Binding!Check
<1>2. ASSUME descriptor # Binding!NoDescriptor
      PROVE  /\ Binding!Listed(descriptor.facts) = "ok"
             /\ Binding!Covered(expected, Binding!ToSet(descriptor.facts)) = "ok"
             /\ Binding!Extras(expected, Binding!ToSet(descriptor.facts)) = "ok"
  <2> DEFINE c1 == Binding!Check((expected # {} \/ descriptor.facts # <<>>)
                                   /\ (descriptor.id = "" \/ descriptor.version = ""), "INVALID_DESCRIPTOR")
             c2 == Binding!Listed(descriptor.facts)
             c3 == Binding!Covered(expected, Binding!ToSet(descriptor.facts))
             c4 == Binding!Extras(expected, Binding!ToSet(descriptor.facts))
  <2>1. Binding!First(<<c1, c2, c3, c4>>) = "ok"
    BY <1>2 DEF Binding!Handshake
  <2>2. PICK a, b, c, d : a = c1 /\ b = c2 /\ c = c3 /\ d = c4
    OBVIOUS
  <2>3. Binding!First(<<a, b, c, d>>) = "ok"
    BY <2>1, <2>2
  <2>4. b = "ok" /\ c = "ok" /\ d = "ok"
    BY <2>3, FirstOfFour
  <2> QED
    BY <2>2, <2>4
<1> QED
  BY <1>1, <1>2

(* What is known of the two sides once the provider serves.                *)
LEMMA ServingFacts ==
  ASSUME Binding!HandshakeAssumption, BindingInv, phase = "serving"
  PROVE  /\ Binding!ToSet(contract) \subseteq Binding!FactSpecs
         /\ NamedOnce(Binding!ToSet(contract))
         /\ \A s \in Binding!ToSet(contract) : GoodSpec(s)
         /\ Binding!OfScope # {} => present /\ descriptor # Binding!NoDescriptor
         /\ descriptor # Binding!NoDescriptor =>
              /\ descriptor.facts \in Seq(Binding!FactSpecs)
              /\ \A i, j \in DOMAIN descriptor.facts :
                   descriptor.facts[i].name = descriptor.facts[j].name => i = j
              /\ NamedOnce(Binding!ToSet(descriptor.facts))
              /\ Binding!OfScope \subseteq Binding!ToSet(descriptor.facts)
              /\ \A s \in Binding!ToSet(descriptor.facts) : GoodSpec(s) /\ s.scope = Scope
<1>1. contract \in Seq(Binding!FactSpecs) /\ Binding!NewValidator(contract) = "ok"
  BY DEF BindingInv, BindingTyped, Binding!HandshakeAssumption
<1>2. /\ \A i, j \in DOMAIN contract : contract[i].name = contract[j].name => i = j
      /\ \A i \in DOMAIN contract : GoodSpec(contract[i])
  BY <1>1, ValidatorOk
<1>3. /\ Binding!ToSet(contract) \subseteq Binding!FactSpecs
      /\ NamedOnce(Binding!ToSet(contract))
      /\ \A s \in Binding!ToSet(contract) : GoodSpec(s)
  BY <1>1, <1>2 DEF NamedOnce, Binding!ToSet
<1>4. /\ Binding!OfScope \subseteq Binding!FactSpecs /\ NamedOnce(Binding!OfScope)
      /\ \A s \in Binding!OfScope : GoodSpec(s) /\ s.scope = Scope
  BY <1>3 DEF NamedOnce, Binding!OfScope
<1>5. Binding!Handshake(Binding!OfScope, descriptor) = "ok"
  BY DEF BindingInv
<1>6. PICK expected : expected = Binding!OfScope
  OBVIOUS
<1>7. /\ expected # {} => present /\ descriptor # Binding!NoDescriptor
      /\ descriptor # Binding!NoDescriptor =>
           /\ Binding!Listed(descriptor.facts) = "ok"
           /\ Binding!Covered(expected, Binding!ToSet(descriptor.facts)) = "ok"
           /\ Binding!Extras(expected, Binding!ToSet(descriptor.facts)) = "ok"
  BY <1>5, <1>6, HandshakeOk
<1>8. ASSUME descriptor # Binding!NoDescriptor
      PROVE  /\ descriptor.facts \in Seq(Binding!FactSpecs)
             /\ \A i, j \in DOMAIN descriptor.facts :
                  descriptor.facts[i].name = descriptor.facts[j].name => i = j
             /\ NamedOnce(Binding!ToSet(descriptor.facts))
             /\ expected \subseteq Binding!ToSet(descriptor.facts)
             /\ \A s \in Binding!ToSet(descriptor.facts) : GoodSpec(s) /\ s.scope = Scope
  <2>1. descriptor.facts \in Seq(Binding!FactSpecs)
    BY <1>8 DEF BindingInv, BindingTyped, Binding!HandshakeAssumption
  <2>2. PICK list : list = descriptor.facts
    OBVIOUS
  <2>3. \A i, j \in DOMAIN list : list[i].name = list[j].name => i = j
    BY <1>7, <1>8, <2>1, <2>2, ListedOk
  <2>4. PICK facts : facts = Binding!ToSet(list)
    OBVIOUS
  <2>5. NamedOnce(facts) /\ facts \in SUBSET Binding!FactSpecs
    BY <2>1, <2>2, <2>3, <2>4, NamedOnceSet
  <2>6. expected \in SUBSET Binding!FactSpecs /\ NamedOnce(expected)
        /\ \A s \in expected : GoodSpec(s) /\ s.scope = Scope
    BY <1>4, <1>6
  <2>7. Binding!Covered(expected, facts) = "ok" /\ Binding!Extras(expected, facts) = "ok"
    BY <1>7, <1>8, <2>2, <2>4
  <2>8. expected \subseteq facts
    BY <2>5, <2>6, <2>7, CoveredOk
  <2>9. \A s \in facts : GoodSpec(s) /\ s.scope = Scope
    <3> TAKE s \in facts
    <3>1. CASE s.name \notin Binding!Names(expected)
      BY <2>5, <2>6, <2>7, <3>1, ExtrasOk
    <3>2. CASE s.name \in Binding!Names(expected)
      <4>1. PICK t \in expected : t.name = s.name
        BY <3>2 DEF Binding!Names
      <4>2. t = s
        BY <2>5, <2>8, <4>1 DEF NamedOnce
      <4> QED
        BY <2>6, <4>1, <4>2
    <3> QED
      BY <3>1, <3>2
  <2> QED
    BY <2>1, <2>2, <2>3, <2>4, <2>5, <2>8, <2>9
<1> QED
  BY <1>3, <1>6, <1>7, <1>8

(* The layer validation, entry by entry.                                   *)
LEMMA ValidateOk ==
  ASSUME NEW values
  PROVE  Binding!Validate(values) = "ok" <=> Accepted(values)
<1> DEFINE bad == {e \in values : Binding!InvalidEntry(e) # "ok"}
           c1 == Binding!ValidateLayer(values)
           c2 == Binding!Check(Scope = "match" /\ ~(Binding!Names(Binding!OfScope) \subseteq Binding!Names(values)),
                               "MATCH_FACT_INCOMPLETE")
<1>1. c1 = IF \E e, f \in values : e # f /\ e.name = f.name THEN "FACT_TYPE_COLLISION"
           ELSE IF bad # {} THEN Binding!InvalidEntry(CHOOSE e \in bad : TRUE) ELSE "ok"
  BY DEF Binding!ValidateLayer
<1>2. bad # {} => Binding!InvalidEntry(CHOOSE e \in bad : TRUE) # "ok"
  <2>1. bad # {} => (CHOOSE e \in bad : TRUE) \in bad
    OBVIOUS
  <2> QED
    BY <2>1
<1>3. c1 = "ok" <=> (~ \E e, f \in values : e # f /\ e.name = f.name) /\ bad = {}
  <2> HIDE DEF c1, bad
  <2> QED
    BY <1>1, <1>2
<1>4. Binding!Validate(values) = Binding!First(<<c1, c2>>)
  BY DEF Binding!Validate
<1>5. PICK a, b : a = c1 /\ b = c2
  OBVIOUS
<1>6. Binding!Validate(values) = "ok" <=> a = "ok" /\ b = "ok"
  <2> HIDE DEF c1, c2
  <2>1. Binding!Validate(values) = Binding!First(<<a, b>>)
    BY <1>4, <1>5
  <2> QED
    BY <2>1, FirstOfTwo
<1>7. b = "ok" <=> (Scope = "match" => Binding!Names(Binding!OfScope) \subseteq Binding!Names(values))
  BY <1>5 DEF Binding!Check
<1> QED
  BY <1>3, <1>5, <1>6, <1>7 DEF Accepted

(* An entry passes exactly if it fits the declaration of its name.         *)
LEMMA EntryOk ==
  ASSUME NEW S, S = Binding!ToSet(contract), NamedOnce(S), NEW s \in S, NEW e, e.name = s.name
  PROVE  Binding!InvalidEntry(e) = "ok" <=>
           s.type = e.type /\ s.scope = Scope /\ ~(s.max > 0 /\ e.count > s.max)
<1>1. e.name \in Binding!Names(S) /\ Binding!ByName(S, e.name) = s
  BY NamedByName
<1> DEFINE c1 == Binding!Check(s.type # e.type, "FACT_TYPE_MISMATCH")
           c2 == Binding!Check(s.scope # Scope, "FACT_SCOPE_MISMATCH")
           c3 == Binding!Check(s.max > 0 /\ e.count > s.max, "FACT_VALUE_LIMIT")
<1>2. Binding!InvalidEntry(e) = Binding!First(<<c1, c2, c3>>)
  BY <1>1 DEF Binding!InvalidEntry
<1>3. Binding!InvalidEntry(e) = "ok" <=> c1 = "ok" /\ c2 = "ok" /\ c3 = "ok"
  <2> HIDE DEF c1, c2, c3
  <2> QED
    BY <1>2, FirstOfThree
<1> QED
  BY <1>3 DEF Binding!Check

LEMMA EntryDeclared ==
  ASSUME NEW e, Binding!InvalidEntry(e) = "ok"
  PROVE  \E s \in Binding!ToSet(contract) : s.name = e.name
BY DEF Binding!InvalidEntry, Binding!Names

(* As long as the rule stays, what was accepted stays so.                  *)
LEMMA AcceptedStays ==
  ASSUME NEW values, contract' = contract, layer' = values, Accepted(values)
  PROVE  Accepted(layer)'
<1>1. \A e : Binding!InvalidEntry(e)' = Binding!InvalidEntry(e)
  BY DEF Binding!InvalidEntry
<1>2. (Binding!OfScope)' = Binding!OfScope
  BY DEF Binding!OfScope
<1> QED
  BY <1>1, <1>2 DEF Accepted

LEMMA BindingInit == Binding!Init => BindingInv
BY DEF Binding!Init, BindingInv, BindingTyped

LEMMA BindingStep == BindingInv /\ [Binding!Next]_(Binding!vars) => BindingInv'
<1> SUFFICES ASSUME BindingInv, [Binding!Next]_(Binding!vars) PROVE BindingInv'
  OBVIOUS
<1> USE DEF BindingInv, BindingTyped
<1>1. CASE Binding!CompileRule
  BY <1>1 DEF Binding!CompileRule, Binding!Goes
<1>2. CASE Binding!ParseDescriptor
  BY <1>2 DEF Binding!ParseDescriptor, Binding!Goes
<1>3. CASE Binding!Load
  <2>1. /\ phase = "load" /\ layer = {}
        /\ contract' = contract /\ python' = python /\ present' = present
        /\ descriptor' = descriptor /\ layer' = layer
    BY <1>3 DEF Binding!Load
  <2>2. phase' \in {"serving", "refused"}
    BY <1>3 DEF Binding!Load, Binding!Goes
  <2>3. phase' = "serving" => Binding!Handshake(Binding!OfScope, descriptor) = "ok"
    BY <1>3 DEF Binding!Load, Binding!Goes
  <2>4. (Binding!Handshake(Binding!OfScope, descriptor) = "ok")'
          <=> Binding!Handshake(Binding!OfScope, descriptor) = "ok"
    BY <2>1 DEF Binding!Handshake, Binding!OfScope
  <2> QED
    BY <2>1, <2>2, <2>3, <2>4
<1>4. CASE \E values \in Layers : Binding!Provide(values)
  <2>1. PICK values \in Layers : Binding!Provide(values)
    BY <1>4
  <2>2. /\ phase = "serving" /\ layer' = values /\ verdict' = Binding!Validate(values)
        /\ phase' \in {"serving", "refused"}
        /\ contract' = contract /\ present' = present /\ descriptor' = descriptor
    BY <2>1 DEF Binding!Provide
  <2>3. (Binding!Handshake(Binding!OfScope, descriptor) = "ok")'
    BY <2>2 DEF Binding!Handshake, Binding!OfScope
  <2>4. verdict' = "ok" => Accepted(values)
    BY <2>2, ValidateOk
  <2>5. Accepted(values) => Accepted(layer)'
    BY <2>2, AcceptedStays
  <2> QED
    BY <2>2, <2>3, <2>4, <2>5
<1>5. CASE UNCHANGED Binding!vars
  <2>1. /\ contract' = contract /\ present' = present /\ descriptor' = descriptor
        /\ phase' = phase /\ layer' = layer /\ verdict' = verdict
    BY <1>5 DEF Binding!vars
  <2>2. Accepted(layer) => Accepted(layer)'
    <3>1. PICK values : values = layer
      OBVIOUS
    <3>2. Accepted(layer) => Accepted(values)
      BY <3>1
    <3> QED
      BY <2>1, <3>1, <3>2, AcceptedStays
  <2>3. (Binding!Handshake(Binding!OfScope, descriptor) = "ok")'
          <=> Binding!Handshake(Binding!OfScope, descriptor) = "ok"
    BY <2>1 DEF Binding!Handshake, Binding!OfScope
  <2> QED
    BY <2>1, <2>2, <2>3
<1> QED
  BY <1>1, <1>2, <1>3, <1>4, <1>5 DEF Binding!Next

LEMMA BindingInvariant == Binding!Spec => []BindingInv
BY BindingInit, BindingStep, PTL DEF Binding!Spec

(* A provider that keeps to its descriptor, and returns only Facts the     *)
(* rule uses and for a match all of them, is never refused at run time:    *)
(* the handshake has compared all that the validation looks at             *)
(* (validateProviderHandshake and Validator).                              *)
THEOREM HonestProviderServed == Binding!HandshakeAssumption => (Binding!Spec => []Binding!HonestIsServed)
<1> SUFFICES ASSUME Binding!HandshakeAssumption PROVE Binding!Spec => []Binding!HonestIsServed
  OBVIOUS
<1>1. BindingInv => Binding!HonestIsServed
  <2> SUFFICES ASSUME BindingInv, phase = "serving", descriptor # Binding!NoDescriptor,
                      NEW values \in Layers,
                      Binding!Fits(values, Binding!ToSet(descriptor.facts)),
                      Binding!Names(values) \subseteq Binding!Names(Binding!OfScope),
                      Scope = "match" => Binding!Names(values) = Binding!Names(Binding!OfScope)
               PROVE  Binding!Validate(values) = "ok"
    BY DEF Binding!HonestIsServed
  <2>1. /\ Binding!ToSet(contract) \subseteq Binding!FactSpecs
        /\ NamedOnce(Binding!ToSet(contract))
        /\ \A s \in Binding!ToSet(contract) : GoodSpec(s)
        /\ NamedOnce(Binding!ToSet(descriptor.facts))
        /\ Binding!OfScope \subseteq Binding!ToSet(descriptor.facts)
    BY ServingFacts
  <2>2. \A e, f \in values : e.name = f.name => e = f
    BY DEF Binding!Fits
  <2>3. ASSUME NEW e \in values PROVE Binding!InvalidEntry(e) = "ok"
    <3>1. PICK s \in Binding!OfScope : s.name = e.name
      BY DEF Binding!Names
    <3>2. PICK t \in Binding!ToSet(descriptor.facts) :
            /\ t.name = e.name /\ t.type = e.type /\ t.scope = Scope
            /\ e.type = "list" => e.count <= t.max
      BY DEF Binding!Fits
    <3>3. s = t
      BY <2>1, <3>1, <3>2 DEF NamedOnce
    <3>4. s \in Binding!ToSet(contract) /\ GoodSpec(s) /\ s \in Binding!FactSpecs
      BY <2>1, <3>1 DEF Binding!OfScope
    <3>5. s.type = e.type /\ s.scope = Scope /\ ~(s.max > 0 /\ e.count > s.max)
      <4>1. e.count \in Nat /\ s.max \in Int
        BY <3>4 DEF Binding!HandshakeAssumption, Binding!FactSpecs
      <4> QED
        BY <3>2, <3>3, <3>4, <4>1 DEF GoodSpec
    <3>6. PICK S : S = Binding!ToSet(contract)
      OBVIOUS
    <3> QED
      BY <2>1, <3>1, <3>4, <3>5, <3>6, EntryOk
  <2> QED
    BY <2>2, <2>3, ValidateOk DEF Accepted
<1> QED
  BY <1>1, BindingInvariant, PTL

(* What reaches the evaluator has the types, the scope and the limits the  *)
(* rule was compiled for, and a Match layer has all its Facts.             *)
THEOREM ServedLayerFits == Binding!HandshakeAssumption => (Binding!Spec => []Binding!ServedFitsRule)
<1> SUFFICES ASSUME Binding!HandshakeAssumption PROVE Binding!Spec => []Binding!ServedFitsRule
  OBVIOUS
<1>1. BindingInv => Binding!ServedFitsRule
  <2> SUFFICES ASSUME BindingInv, phase = "serving", verdict = "ok", layer # {}
               PROVE  /\ Binding!Fits(layer, Binding!ToSet(contract))
                      /\ Scope = "match" => Binding!Names(layer) = Binding!Names(Binding!OfScope)
    BY DEF Binding!ServedFitsRule
  <2>1. /\ Binding!ToSet(contract) \subseteq Binding!FactSpecs
        /\ NamedOnce(Binding!ToSet(contract))
        /\ \A s \in Binding!ToSet(contract) : GoodSpec(s)
    BY ServingFacts
  <2>2. layer \in Layers /\ Accepted(layer)
    BY DEF BindingInv, BindingTyped
  <2>3. PICK values \in Layers : values = layer
    BY <2>2
  <2>4. /\ \A e, f \in values : e.name = f.name => e = f
        /\ \A e \in values : Binding!InvalidEntry(e) = "ok"
        /\ Scope = "match" => Binding!Names(Binding!OfScope) \subseteq Binding!Names(values)
    BY <2>2, <2>3 DEF Accepted
  <2>5. ASSUME NEW e \in values
        PROVE  \E s \in Binding!ToSet(contract) :
                 /\ s.name = e.name /\ s.type = e.type /\ s.scope = Scope
                 /\ e.type = "list" => e.count <= s.max
    <3>1. PICK s \in Binding!ToSet(contract) : s.name = e.name
      BY <2>4, EntryDeclared
    <3>2. PICK S : S = Binding!ToSet(contract)
      OBVIOUS
    <3>3. s.type = e.type /\ s.scope = Scope /\ ~(s.max > 0 /\ e.count > s.max)
      BY <2>1, <2>4, <3>1, <3>2, EntryOk
    <3>4. e.count \in Nat /\ s.max \in Int /\ GoodSpec(s)
      BY <2>1 DEF Binding!HandshakeAssumption, Binding!FactSpecs
    <3> QED
      BY <3>1, <3>3, <3>4 DEF GoodSpec
  <2>6. Binding!Names(values) \subseteq Binding!Names(Binding!OfScope)
    BY <2>5 DEF Binding!Names, Binding!OfScope
  <2> QED
    BY <2>3, <2>4, <2>5, <2>6 DEF Binding!Fits
<1> QED
  BY <1>1, BindingInvariant, PTL

(* No rule runs without a provider for every Fact it uses, declared as the *)
(* rule declares it.                                                       *)
THEOREM FactsHaveProviders == Binding!HandshakeAssumption => (Binding!Spec => []Binding!NoFactUnserved)
<1> SUFFICES ASSUME Binding!HandshakeAssumption PROVE Binding!Spec => []Binding!NoFactUnserved
  OBVIOUS
<1>1. BindingInv => Binding!NoFactUnserved
  BY ServingFacts DEF Binding!NoFactUnserved
<1> QED
  BY <1>1, BindingInvariant, PTL

(* Facts beyond those of the rule are declared well and for the scope of   *)
(* the provider.                                                           *)
THEOREM ExtrasDeclaredWell == Binding!HandshakeAssumption => (Binding!Spec => []Binding!ExtrasWellFormed)
<1> SUFFICES ASSUME Binding!HandshakeAssumption PROVE Binding!Spec => []Binding!ExtrasWellFormed
  OBVIOUS
<1>1. BindingInv => Binding!ExtrasWellFormed
  <2> SUFFICES ASSUME BindingInv, phase = "serving", descriptor # Binding!NoDescriptor
               PROVE  /\ Binding!WellDeclared(descriptor.facts)
                      /\ \A i \in DOMAIN descriptor.facts : descriptor.facts[i].scope = Scope
    BY DEF Binding!ExtrasWellFormed
  <2>1. /\ descriptor.facts \in Seq(Binding!FactSpecs)
        /\ \A i, j \in DOMAIN descriptor.facts :
             descriptor.facts[i].name = descriptor.facts[j].name => i = j
        /\ \A s \in Binding!ToSet(descriptor.facts) : GoodSpec(s) /\ s.scope = Scope
    BY ServingFacts
  <2>2. \A i \in DOMAIN descriptor.facts :
          GoodSpec(descriptor.facts[i]) /\ descriptor.facts[i].scope = Scope
    BY <2>1 DEF Binding!ToSet
  <2> QED
    BY <2>1, <2>2 DEF Binding!WellDeclared, GoodSpec
<1> QED
  BY <1>1, BindingInvariant, PTL

(* A rule that was compiled declares every Fact once, with a type and the  *)
(* limit that goes with it (NewValidator).                                 *)
THEOREM BindingTypeCorrect == Binding!HandshakeAssumption => (Binding!Spec => []Binding!TypeOK)
<1> SUFFICES ASSUME Binding!HandshakeAssumption PROVE Binding!Spec => []Binding!TypeOK
  OBVIOUS
<1>1. BindingInv => Binding!TypeOK
  <2> SUFFICES ASSUME BindingInv PROVE Binding!TypeOK
    OBVIOUS
  <2>1. ASSUME phase \in {"script", "load", "serving"}
        PROVE  Binding!WellDeclared(contract)
    <3>1. contract \in Seq(Binding!FactSpecs) /\ Binding!NewValidator(contract) = "ok"
      BY <2>1 DEF BindingInv, BindingTyped, Binding!HandshakeAssumption
    <3>2. PICK specs \in Seq(Binding!FactSpecs) : specs = contract
      BY <3>1
    <3>3. /\ \A i, j \in DOMAIN specs : specs[i].name = specs[j].name => i = j
          /\ \A i \in DOMAIN specs : GoodSpec(specs[i])
      BY <3>1, <3>2, ValidatorOk
    <3> QED
      BY <3>2, <3>3 DEF Binding!WellDeclared, GoodSpec
  <2> QED
    BY <2>1 DEF Binding!TypeOK, BindingInv, BindingTyped
<1> QED
  BY <1>1, BindingInvariant, PTL
================================================================================
