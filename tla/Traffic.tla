-------------------------------- MODULE Traffic --------------------------------
(***************************************************************************)
(* internal/simulator/traffic.go: the background run that injects tickets  *)
(* and begins rounds, on the wall clock ("realtime") or on a virtual clock *)
(* ("fixed"), beside StopTraffic, ReplaceScenario, Close and clients that  *)
(* add tickets themselves.  Every access to the shared state holds         *)
(* Simulator.mu and is one action; a run keeps its schedule to itself.     *)
(*                                                                         *)
(* A ticket is its TicketID.  What a round matches is left to the core:    *)
(* any pairs of waiting tickets, up to maxMatches.                         *)
(***************************************************************************)
EXTENDS Integers, FiniteSets, Sequences, FiniteSetsExt

CONSTANTS
  Configs,          \* TrafficConfigs, see ConfigType
  LastTicketID,     \* 9007199254740991
  LastTime,         \* MaxInt64, the last millisecond
  ArrivalLimit,     \* 100000, arrivals a fixed step may hold
  Failures,         \* BOOLEAN, or {FALSE} when rounds do not fail
  MaxRuns,          \* bound on the StartTraffic calls
  MaxReplacements,  \* bound on the ReplaceScenario calls
  MaxAdds           \* bound on the tickets clients add

ConfigType ==
  [mode : {"realtime", "fixed"}, first : Nat \ {0}, burst : Nat \ {0},
   delays : SUBSET (Nat \ {0}), interval : Nat \ {0}, maxMatches : Nat \ {0},
   steps : Nat, stepMS : Nat, start : Nat]

TrafficAssumption ==
  /\ \A c \in Configs :
       /\ c \in [mode : {"realtime", "fixed"}, first : Nat \ {0}, burst : Nat \ {0},
                 delays : SUBSET (1..LastTime), interval : Nat \ {0},
                 maxMatches : Nat \ {0}, steps : Nat, stepMS : Nat, start : Nat]
       /\ c.delays # {}
       /\ c.mode = "fixed" =>
            c.steps > 0 /\ c.stepMS > 0 /\ c.start + (c.steps - 1) * c.stepMS <= LastTime
  /\ Failures \subseteq BOOLEAN /\ FALSE \in Failures

VARIABLES
  traffic,    \* Simulator.traffic: the current run, or 0
  status,     \* Simulator.trafficStatus
  runs,       \* the goroutines, one per StartTraffic call, in that order
  runtime,    \* the published runtime, 0..MaxReplacements
  pool,       \* the TicketIDs that wait in it
  closed,
  wall,       \* the wall clock
  adds,       \* bound: client calls so far
  ended,      \* history: runs for which a stop, replacement or Close has returned
  made        \* history: the injected tickets, in order

shared == <<traffic, status, runtime, pool, closed, ended, made>>
vars == <<traffic, status, runs, runtime, pool, closed, wall, adds, ended, made>>

Idle == [state |-> "idle", injected |-> 0, produced |-> 0, rounds |-> 0,
         next |-> 0, step |-> 0, now |-> 0, total |-> 0]

Init ==
  /\ traffic = 0
  /\ status = Idle
  /\ runs = <<>>
  /\ runtime = 0
  /\ pool = {}
  /\ closed = FALSE
  /\ wall = 0
  /\ adds = 0
  /\ ended = {}
  /\ made = <<>>

-------------------------------------------------------------------------------
(* Stopping, starting and the other users of the mutex.                    *)

(* Seeded faults: the sum leaves the range, or wraps around.               *)
Unsaturated(a, b) == a + b
Wrapped(a, b) == (a + b) % (LastTime + 1)

(* int64 addition that stops at the last millisecond.                      *)
Saturated(a, b) == IF a > LastTime - b THEN LastTime ELSE a + b

(* stopTrafficLocked on the pair of traffic and status.                    *)
StopLocked(s, state) ==
  IF s.traffic # 0 THEN [traffic |-> 0, status |-> [s.status EXCEPT !.state = state]] ELSE s

Stop(state) ==
  LET s == StopLocked([traffic |-> traffic, status |-> status], state)
  IN /\ traffic' = s.traffic
     /\ status' = s.status

(* The runs that may not act any more once the caller has its answer.      *)
EndAll == ended' = ended \cup 1..Len(runs)

StopTraffic ==
  /\ traffic # 0
  /\ Stop("stopped")
  /\ EndAll
  /\ UNCHANGED <<runs, runtime, pool, closed, wall, adds, made>>

ReplaceScenario ==
  /\ ~closed
  /\ runtime < MaxReplacements
  /\ Stop("stopped")
  /\ runtime' = runtime + 1
  /\ pool' = {}
  /\ EndAll
  /\ UNCHANGED <<runs, closed, wall, adds, made>>

Close ==
  /\ ~closed
  /\ closed' = TRUE
  /\ Stop("stopped")
  /\ EndAll
  /\ UNCHANGED <<runs, runtime, pool, wall, adds, made>>

(* Seeded fault: a second run may be started.                              *)
MayStartAnyway == ~closed

MayStart == ~closed /\ traffic = 0

(* The first virtual arrival and the first match opportunity; a realtime   *)
(* run has its first round one interval from now.                          *)
StartTraffic(c) ==
  /\ MayStart
  /\ Len(runs) < MaxRuns
  /\ traffic' = Len(runs) + 1
  /\ status' = [Idle EXCEPT !.state = "running", !.next = c.first, !.total = c.steps]
  /\ \E delay \in c.delays :
       LET fixed == c.mode = "fixed"
       IN runs' = Append(runs,
            [config |-> c, runtime |-> runtime, step |-> 1, due |-> <<>>,
             pc |-> IF fixed THEN "top" ELSE "wait",
             now |-> IF fixed THEN c.start ELSE wall,
             nextArrival |-> IF fixed THEN Saturated(c.start, delay) ELSE wall + delay,
             nextMatch |-> IF fixed THEN c.start ELSE wall + c.interval])
  /\ UNCHANGED <<runtime, pool, closed, wall, adds, ended, made>>

ClientAdd(id) ==
  /\ ~closed
  /\ adds < MaxAdds
  /\ id \notin pool
  /\ adds' = adds + 1
  /\ pool' = pool \cup {id}
  /\ UNCHANGED <<traffic, status, runs, runtime, closed, wall, ended, made>>

WallTick ==
  /\ wall < LastTime
  /\ wall' = wall + 1
  /\ UNCHANGED <<traffic, status, runs, runtime, pool, closed, adds, ended, made>>

-------------------------------------------------------------------------------
(* One locked step of a run.                                               *)

(* Seeded fault: a woken run only asks whether the simulator is closed.    *)
MineIfOpen(r) == ~closed

(* The run still is the current one of the published runtime.              *)
Mine(r) == traffic = r /\ runtime = runs[r].runtime /\ ~closed

(* The arrivals that are injected before the first TicketID that is taken  *)
(* or out of range.                                                        *)
Accepted(count) ==
  IF status.next = 0 THEN 0
  ELSE Max({n \in 0..count :
         \A i \in 0..(n - 1) :
            status.next + i <= LastTicketID /\ status.next + i \notin pool})

(* Seeded fault: the next TicketID moves on whether or not it was used.    *)
NextIDOfAll(n, count) ==
  IF status.next + count > LastTicketID /\ n > 0 THEN 0 ELSE status.next + count

NextID(n, count) ==
  IF n > 0 /\ status.next + n > LastTicketID THEN 0 ELSE status.next + n

(* trafficStepAtTimes.  ok: neither an arrival nor the round failed; pairs *)
(* are the tickets the round matched, also when it failed half way.        *)
Matched(waiting, limit) ==
  {s \in SUBSET waiting : Cardinality(s) % 2 = 0 /\ Cardinality(s) \div 2 <= limit}

Step(r, due, now, match) ==
  LET c         == runs[r].config
      count     == Len(due)
      n         == Accepted(count)
      new       == {status.next + i : i \in 0..(n - 1)}
      next      == NextID(n, count)
      arrivedOK == n = count /\ (n > 0 => next # 0)
      injected  == [status EXCEPT !.injected = @ + n, !.next = next,
                                  !.step = IF c.mode = "fixed" THEN runs[r].step ELSE @,
                                  !.now = IF c.mode = "fixed" THEN now ELSE @]
      Commit(s, ok) ==
        LET t == IF ok THEN [traffic |-> traffic, status |-> s]
                 ELSE StopLocked([traffic |-> traffic, status |-> s], "failed")
        IN traffic' = t.traffic /\ status' = t.status
  IN
  /\ made' = made \o [i \in 1..n |-> [run |-> r, id |-> status.next + (i - 1), at |-> due[i]]]
  /\ \/ /\ ~(arrivedOK /\ match)
        /\ pool' = pool \cup new
        /\ Commit(injected, arrivedOK)
     \/ /\ arrivedOK /\ match
        /\ TRUE \in Failures           \* beginRound fails
        /\ pool' = pool \cup new
        /\ Commit(injected, FALSE)
     \/ /\ arrivedOK /\ match
        /\ \E fails \in Failures, gone \in Matched(pool \cup new, c.maxMatches) :
             /\ pool' = (pool \cup new) \ gone
             /\ Commit([injected EXCEPT !.rounds = @ + 1,
                                        !.produced = @ + Cardinality(gone) \div 2], ~fails)

Continue(r, pc) == runs' = [runs EXCEPT ![r].pc = pc]
Exit(r) == Continue(r, "done")
At(r, pc) == runs[r].pc = pc

-------------------------------------------------------------------------------
(* runRealtimeTraffic.                                                     *)

(* The select of a stopped run whose timer has also fired may take either. *)
SeesStop(r) ==
  /\ At(r, "wait")
  /\ traffic # r
  /\ Exit(r)
  /\ UNCHANGED <<shared, wall, adds>>

(* Seeded fault: overdue arrivals are forgotten.                           *)
ArrivalFromNow(r, delay) == wall + delay

ArrivalAfter(r, delay) == runs[r].nextArrival + delay

Deadline(r) == Min({runs[r].nextArrival, runs[r].nextMatch})

RealtimeStep(r) ==
  LET c       == runs[r].config
      arrives == wall >= runs[r].nextArrival
      match   == wall >= runs[r].nextMatch
  IN
  /\ At(r, "wait")
  /\ wall >= Deadline(r)
  /\ IF Mine(r)
     THEN /\ Step(r, IF arrives THEN [i \in 1..c.burst |-> wall] ELSE <<>>, wall, match)
          /\ \E delay \in c.delays :
               runs' = [runs EXCEPT
                 ![r].nextArrival = IF arrives THEN ArrivalAfter(r, delay) ELSE @,
                 ![r].nextMatch = IF match THEN @ + c.interval ELSE @,
                 ![r].pc = IF traffic' = r THEN "wait" ELSE "done"]
          /\ UNCHANGED <<runtime, closed, ended>>
     ELSE Exit(r) /\ UNCHANGED shared
  /\ UNCHANGED <<wall, adds>>

-------------------------------------------------------------------------------
(* runFixedTraffic.                                                        *)

VirtualNow(c, step) == c.start + (step - 1) * c.stepMS

BeginStep(r) ==
  /\ At(r, "top")
  /\ IF traffic # r
     THEN Exit(r)
     ELSE IF runs[r].step > runs[r].config.steps
     THEN Continue(r, "finish")
     ELSE runs' = [runs EXCEPT ![r].pc = "arrive", ![r].due = <<>>,
                     ![r].now = VirtualNow(runs[r].config, runs[r].step)]
  /\ UNCHANGED <<shared, wall, adds>>

(* Seeded fault: an arrival at the virtual instant itself waits for the    *)
(* next step.                                                              *)
DueBefore(r) == runs[r].now > runs[r].nextArrival

Due(r) == runs[r].now >= runs[r].nextArrival

(* One turn of the arrival loop; the last representable time ends it.      *)
Arrive(r) ==
  LET c == runs[r].config
      due == runs[r].due \o [i \in 1..c.burst |-> runs[r].nextArrival]
  IN
  /\ At(r, "arrive")
  /\ Due(r)
  /\ \E delay \in c.delays :
       runs' = [runs EXCEPT
         ![r].due = due,
         ![r].nextArrival = Saturated(@, delay),
         ![r].pc = IF runs[r].nextArrival = LastTime \/ runs[r].nextArrival > LastTime - delay
                   THEN "lock"
                   ELSE IF Len(due) > ArrivalLimit THEN "overflow" ELSE "arrive"]
  /\ UNCHANGED <<shared, wall, adds>>

AllArrived(r) ==
  /\ At(r, "arrive")
  /\ ~Due(r)
  /\ Continue(r, "lock")
  /\ UNCHANGED <<shared, wall, adds>>

TooManyArrivals(r) ==
  /\ At(r, "overflow")
  /\ IF Mine(r) THEN Stop("failed") ELSE UNCHANGED <<traffic, status>>
  /\ Exit(r)
  /\ UNCHANGED <<runtime, pool, closed, wall, adds, ended, made>>

(* Seeded fault: a step without arrivals does not count.                   *)
NextStepIfArrived(r) == IF runs[r].due # <<>> THEN runs[r].step + 1 ELSE runs[r].step

NextStep(r) == runs[r].step + 1

FixedStep(r) ==
  LET c     == runs[r].config
      match == runs[r].now >= runs[r].nextMatch
  IN
  /\ At(r, "lock")
  /\ IF Mine(r)
     THEN /\ Step(r, runs[r].due, runs[r].now, match)
          /\ runs' = [runs EXCEPT
               ![r].nextMatch = IF match THEN Saturated(@, c.interval) ELSE @,
               ![r].step = IF traffic' = r THEN NextStep(r) ELSE @,
               ![r].pc = IF traffic' = r THEN "top" ELSE "done"]
          /\ UNCHANGED <<runtime, closed, ended>>
     ELSE Exit(r) /\ UNCHANGED shared
  /\ UNCHANGED <<wall, adds>>

(* Seeded fault: a run that was replaced since its last step completes.    *)
CompletesAnyway(r) == ~closed

Completes(r) == traffic = r /\ ~closed

Complete(r) ==
  LET c == runs[r].config
  IN
  /\ At(r, "finish")
  /\ IF Completes(r)
     THEN /\ traffic' = 0
          /\ status' = [status EXCEPT !.state = "completed", !.step = c.steps,
                                      !.now = VirtualNow(c, c.steps)]
     ELSE UNCHANGED <<traffic, status>>
  /\ Exit(r)
  /\ UNCHANGED <<runtime, pool, closed, wall, adds, ended, made>>

-------------------------------------------------------------------------------
Goroutine(r) ==
  \/ SeesStop(r) \/ RealtimeStep(r)
  \/ BeginStep(r) \/ Arrive(r) \/ AllArrived(r) \/ TooManyArrivals(r)
  \/ FixedStep(r) \/ Complete(r)

Next ==
  \/ StopTraffic \/ ReplaceScenario \/ Close \/ WallTick
  \/ \E c \in Configs : StartTraffic(c)
  \/ \E id \in 1..LastTicketID : ClientAdd(id)
  \/ \E r \in 1..Len(runs) : Goroutine(r)

(* The wall clock advances and the goroutine of a run is scheduled.        *)
Fairness ==
  /\ WF_vars(WallTick)
  /\ \A r \in 1..MaxRuns : WF_vars(r <= Len(runs) /\ Goroutine(r))

Spec == Init /\ [][Next]_vars /\ Fairness

-------------------------------------------------------------------------------
(* Shapes, and the times of a schedule stay within the int64 range.        *)
TypeOK ==
  /\ traffic \in 0..Len(runs)
  /\ status.state \in {"idle", "running", "stopped", "failed", "completed"}
  /\ (status.state = "running") = (traffic # 0)
  /\ status.next \in 0..(LastTicketID + 1)
  /\ pool \subseteq 1..LastTicketID
  /\ ended \subseteq 1..Len(runs)
  /\ \A r \in 1..Len(runs) :
       /\ runs[r].pc \in {"top", "arrive", "lock", "overflow", "finish", "wait", "done"}
       /\ runs[r].config.mode = "fixed" =>
            {runs[r].now, runs[r].nextArrival, runs[r].nextMatch} \subseteq 0..LastTime

MadeBy(r) == SelectSeq(made, LAMBDA m : m.run = r)

(* "Nothing is injected after a stop has returned", nor after a            *)
(* replacement or Close, whatever point of its step the run had reached;   *)
(* nor does it touch the status of the run that came after it.             *)
StopIsFinal ==
  [][\A r \in 1..MaxRuns :
       r \in ended /\ runs'[r] # runs[r] => UNCHANGED <<made, pool, status, traffic>>]_vars

(* A goroutine that is still alive is the current run, or somebody ended   *)
(* it; no second run acts beside the first.                                *)
OneRun ==
  \A r \in 1..Len(runs) : traffic = r \/ r \in ended \/ At(r, "done")

(* The status of the last run counts exactly the tickets it injected, in   *)
(* the order of their IDs without a hole, also when a step failed half     *)
(* way; 0 stands for an exhausted range.                                   *)
StatusCountsPrefix ==
  runs # <<>> =>
    LET r     == Len(runs)
        mine  == MadeBy(r)
        first == runs[r].config.first
    IN /\ status.injected = Len(mine)
       /\ \A i \in 1..Len(mine) : mine[i].id = first + (i - 1)
       /\ status.next = IF status.injected > 0 /\ first + status.injected > LastTicketID
                        THEN 0
                        ELSE first + status.injected

(* A fixed run that completed has injected exactly the arrivals of its     *)
(* timeline, each with its virtual time, and has begun one round at each   *)
(* step that reached the next boundary of the match interval.              *)
CompletedIsWhole ==
  status.state = "completed" =>
    LET r    == Len(runs)
        c    == runs[r].config
        mine == MadeBy(r)
        last == VirtualNow(c, c.steps)
        delay == CHOOSE d \in c.delays : TRUE
        Time(i) == c.start + ((i - 1) \div c.burst + 1) * delay
    IN Cardinality(c.delays) = 1 /\ last < LastTime - delay =>
         /\ \A i \in 1..Len(mine) : mine[i].at = Time(i) /\ Time(i) <= last
         /\ Time(Len(mine) + 1) > last
         /\ c.interval % c.stepMS = 0 =>
              status.rounds = ((c.steps - 1) * c.stepMS) \div c.interval + 1
         /\ status.step = status.total /\ status.now = last

(* Tickets of a run are created in the order of their times.               *)
CreatedInOrder ==
  \A r \in 1..Len(runs) :
    LET mine == MadeBy(r)
    IN \A i, j \in 1..Len(mine) : i < j => mine[i].at <= mine[j].at

(* A fixed run ends without anybody stopping it.                           *)
FixedRunEnds ==
  \A r \in 1..MaxRuns :
    (traffic = r /\ runs[r].config.mode = "fixed") ~> (traffic # r)

(* A realtime run keeps overdue work: when the clock stands still, it has  *)
(* injected every arrival whose time has come, or it has ended.            *)
RealtimeCatchesUp ==
  \A r \in 1..MaxRuns :
    (traffic = r /\ runs[r].config.mode = "realtime") ~>
      \/ traffic # r
      \/ LET c == runs[r].config
             delay == CHOOSE d \in c.delays : TRUE
         IN Len(MadeBy(r)) = c.burst * ((LastTime - runs[r].now) \div delay)
=============================================================================
