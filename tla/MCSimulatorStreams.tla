-------------------------- MODULE MCSimulatorStreams --------------------------
(***************************************************************************)
(* What runs beside the operations of the Simulator: the batches of        *)
(* tickets that HTTP clients send (the module extended), the readers of    *)
(* its events and the background traffic.  A behaviour picks one of them,  *)
(* with bounds that bring out one of its sides; the others stay in their   *)
(* initial state.                                                          *)
(***************************************************************************)
EXTENDS TicketBatch

VARIABLES
  scenario,
  runtime, total, retired, eClosed, sub, stream, got, seen, connects,
  traffic, status, runs, tRuntime, tPool, tClosed, wall, adds, ended, made

eventVars == <<runtime, total, retired, eClosed, sub, stream, got, seen, connects>>
trafficVars ==
  <<traffic, status, runs, tRuntime, tPool, tClosed, wall, adds, ended, made>>
mcVars == <<scenario, eventVars, trafficVars, vars>>

-------------------------------------------------------------------------------
(* An in-process subscriber across two replacements, and an HTTP client.   *)
Subscriber == INSTANCE EventLog WITH
  MinBuffer <- 2, SubscribeLimit <- 1, PageLimit <- 1, StreamBuffer <- 1,
  MaxEvents <- 4, MaxReplacements <- 2, MaxConnects <- 0, closed <- eClosed

Client == INSTANCE EventLog WITH
  MinBuffer <- 2, SubscribeLimit <- 1, PageLimit <- 2, StreamBuffer <- 1,
  MaxEvents <- 3, MaxReplacements <- 0, MaxConnects <- 2, closed <- eClosed

Config(mode, first, burst, delays, steps, stepMS, start) ==
  [mode |-> mode, first |-> first, burst |-> burst, delays |-> delays,
   interval |-> 2, maxMatches |-> 1, steps |-> steps, stepMS |-> stepMS,
   start |-> start]

(* Constant arrivals, bursts, a step with too many arrivals, and a         *)
(* timeline that ends at LastTime = 5.                                     *)
Fixed == INSTANCE Traffic WITH
  Configs <- {Config("fixed", 1, 1, {1}, 3, 1, 0), Config("fixed", 2, 2, {2}, 2, 2, 0),
              Config("fixed", 1, 2, {1}, 2, 3, 0), Config("fixed", 1, 1, {1, 2}, 3, 1, 3)},
  LastTicketID <- 6, LastTime <- 5, ArrivalLimit <- 2, Failures <- {TRUE, FALSE},
  MaxRuns <- 1, MaxReplacements <- 0, MaxAdds <- 1,
  runtime <- tRuntime, pool <- tPool, closed <- tClosed

Realtime == INSTANCE Traffic WITH
  Configs <- {Config("realtime", 1, 1, {1}, 0, 1, 0), Config("realtime", 3, 2, {2}, 0, 1, 0)},
  LastTicketID <- 5, LastTime <- 4, ArrivalLimit <- 9, Failures <- {FALSE},
  MaxRuns <- 1, MaxReplacements <- 0, MaxAdds <- 1,
  runtime <- tRuntime, pool <- tPool, closed <- tClosed

TwoRuns == INSTANCE Traffic WITH
  Configs <- {Config("fixed", 1, 1, {1}, 2, 1, 0), Config("realtime", 3, 1, {1}, 0, 1, 0)},
  LastTicketID <- 4, LastTime <- 2, ArrivalLimit <- 9, Failures <- {FALSE},
  MaxRuns <- 2, MaxReplacements <- 1, MaxAdds <- 0,
  runtime <- tRuntime, pool <- tPool, closed <- tClosed

(* A batch of one ticket, and one that names a ticket twice, which goes in *)
(* as a whole if a match takes the first in time, and else takes back two. *)
OneAndThree == {<<2>>, <<1, 2, 1>>}

ASSUME Bounds ==
  /\ Subscriber!EventAssumption /\ Client!EventAssumption
  /\ Fixed!TrafficAssumption /\ Realtime!TrafficAssumption /\ TwoRuns!TrafficAssumption

-------------------------------------------------------------------------------
MCInit ==
  /\ scenario \in {"subscriber", "client", "fixed", "realtime", "two runs", "batch"}
  /\ Subscriber!Init /\ Fixed!Init /\ Init

MCNext ==
  \/ /\ UNCHANGED <<scenario, trafficVars, vars>>
     /\ \/ scenario = "subscriber" /\ Subscriber!Next
        \/ scenario = "client" /\ Client!Next
  \/ /\ UNCHANGED <<scenario, eventVars, vars>>
     /\ \/ scenario = "fixed" /\ Fixed!Next
        \/ scenario = "realtime" /\ Realtime!Next
        \/ scenario = "two runs" /\ TwoRuns!Next
  \/ scenario = "batch" /\ Next /\ UNCHANGED <<scenario, eventVars, trafficVars>>

MCFairness ==
  /\ WF_eventVars(scenario = "subscriber" /\ Subscriber!Unsubscribe)
  /\ WF_eventVars(scenario = "subscriber" /\ \E r \in retired : Subscriber!CloseRuntime(r))
  /\ WF_eventVars(scenario = "client" /\ Client!Poll)
  /\ WF_eventVars(scenario = "client" /\ Client!Send)
  /\ WF_eventVars(scenario = "client" /\ Client!Tick)
  /\ WF_eventVars(scenario = "client" /\ Client!Deliver)
  /\ WF_trafficVars(scenario = "realtime" /\ Realtime!WallTick)
  /\ WF_trafficVars(scenario = "fixed" /\ 1 <= Len(runs) /\ Fixed!Goroutine(1))
  /\ WF_trafficVars(scenario = "realtime" /\ 1 <= Len(runs) /\ Realtime!Goroutine(1))
  /\ \A c \in Clients : WF_vars(scenario = "batch" /\ ClientStep(c))

MCSpec == MCInit /\ [][MCNext]_mcVars /\ MCFairness

-------------------------------------------------------------------------------
(* A subscriber gets the events after its cursor in order, none twice and  *)
(* none missing but those that met a full buffer, from a channel that is   *)
(* open as long as appendEvent may send to it; an HTTP client sees every   *)
(* event of the runtime once, over any number of dropped connections.      *)
EventsInOrder ==
  CASE scenario = "subscriber" ->
         Subscriber!TypeOK /\ Subscriber!ChannelSound /\ Subscriber!SubscriberOrder
    [] scenario = "client" ->
         Client!TypeOK /\ Client!SubscriberOrder /\ Client!StreamExactlyOnce
    [] OTHER -> TRUE

(* The status of a traffic run counts exactly the tickets it injected, in  *)
(* the order of their IDs and times; a fixed run that completed injected   *)
(* every arrival of its timeline and began every round; no second run acts *)
(* beside the current one, and nothing is injected and no status touched   *)
(* after a stop, replacement or Close has returned, whatever point of its  *)
(* step the run had reached.                                               *)
TrafficAccounted ==
  /\ [](/\ TypeOK
        /\ CASE scenario = "fixed" ->
                  /\ Fixed!TypeOK /\ Fixed!StatusCountsPrefix
                  /\ Fixed!CompletedIsWhole /\ Fixed!CreatedInOrder
             [] scenario = "realtime" -> Realtime!StatusCountsPrefix
             [] scenario = "two runs" -> TwoRuns!OneRun
             [] OTHER -> TRUE)
  /\ TwoRuns!StopIsFinal

(* A retired runtime closes its subscriptions, a connected client is sent  *)
(* every event, a realtime run injects every arrival that is due, a fixed  *)
(* run ends by itself and every batch is answered.                         *)
NothingLagsForEver ==
  /\ scenario = "subscriber" => Subscriber!RetiredIsClosed
  /\ scenario = "client" => Client!StreamCatchesUp
  /\ scenario = "realtime" => Realtime!RealtimeCatchesUp
  /\ scenario = "fixed" => Fixed!FixedRunEnds
  /\ BatchesEnd
===============================================================================
