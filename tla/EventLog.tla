------------------------------- MODULE EventLog -------------------------------
(***************************************************************************)
(* The events of a Simulator and their two readers: an in-process          *)
(* subscriber (SubscribeEvents in internal/simulator/service.go) and an    *)
(* HTTP client whose stream polls the log (SubscribeEvents in              *)
(* internal/simulatorapi/adapter.go, handleEvents in handler.go).          *)
(*                                                                         *)
(* Every runtime numbers its events from 1.  An event is the pair of the   *)
(* runtime, counted by the scenario replacements before it, and the        *)
(* number; its type and data are left out.                                 *)
(***************************************************************************)
EXTENDS Naturals, Sequences, FiniteSets, SequencesExt

CONSTANTS
  MinBuffer,        \* 16, the least capacity of a subscription
  SubscribeLimit,   \* EventQuery.Limit of the subscriber
  PageLimit,        \* maxPageLimit
  StreamBuffer,     \* 16, the capacity of the poller's channel
  MaxEvents,        \* bound on the events of one runtime
  MaxReplacements,  \* bound on the ReplaceScenario calls
  MaxConnects       \* bound on the connections of the HTTP client

EventAssumption ==
  /\ {MinBuffer, SubscribeLimit, PageLimit, StreamBuffer} \subseteq Nat \ {0}
  /\ {MaxEvents, MaxReplacements, MaxConnects} \subseteq Nat

VARIABLES
  runtime,    \* the published runtime, 0..MaxReplacements
  total,      \* len(runtime.events)
  retired,    \* the replaced runtimes closeRuntime has not reached yet
  closed,     \* Simulator.closed
  sub,        \* the in-process subscription
  stream,     \* the HTTP stream and its poller
  got,        \* history: the events the subscriber has received, in order
  seen,       \* history: the events the HTTP client has received, in order
  connects    \* bound: connections of the HTTP client

vars == <<runtime, total, retired, closed, sub, stream, got, seen, connects>>

Smaller(a, b) == IF a < b THEN a ELSE b
Larger(a, b) == IF a > b THEN a ELSE b
Events(r, first, last) == [i \in 1..((last + 1) - first) |-> <<r, (first + i) - 1>>]

NoSub == [state |-> "none"]
NoStream == [state |-> "off"]

Init ==
  /\ runtime = 0
  /\ total = 0
  /\ retired = {}
  /\ closed = FALSE
  /\ sub = NoSub
  /\ stream = NoStream
  /\ got = <<>>
  /\ seen = <<>>
  /\ connects = 0

-------------------------------------------------------------------------------
(* The log and its in-process subscribers.                                 *)

(* Seeded fault: a full buffer drops its oldest event for the new one.     *)
SentOverOldest(s, event) ==
  IF Len(s.queue) < s.capacity
  THEN [s EXCEPT !.queue = Append(@, event)]
  ELSE [s EXCEPT !.queue = Append(Tail(@), event)]

(* The send of appendEvent: never blocks, drops the event on a full buffer.*)
Sent(s, event) ==
  IF Len(s.queue) < s.capacity
  THEN [s EXCEPT !.queue = Append(@, event)]
  ELSE [s EXCEPT !.overrun = TRUE]

AppendEvent ==
  /\ ~closed
  /\ total < MaxEvents
  /\ total' = total + 1
  /\ sub' = IF sub # NoSub /\ sub.registered /\ sub.runtime = runtime
            THEN Sent(sub, <<runtime, total + 1>>)
            ELSE sub
  /\ UNCHANGED <<runtime, retired, closed, stream, got, seen, connects>>

(* eventSubscription.close, which both closeRuntime and a cancelled        *)
(* subscriber call.                                                        *)
CloseChannel(s) ==
  IF s.closes = 0 THEN [s EXCEPT !.closes = 1] ELSE s

(* A cursor behind the end of the log starts at its end.                   *)
Capacity(history) == Larger(MinBuffer, history + SubscribeLimit)

Subscribe(cursor) ==
  LET start == Smaller(cursor, total)
  IN
  /\ ~closed
  /\ sub = NoSub
  /\ sub' = [state |-> "live", runtime |-> runtime, start |-> start,
             queue |-> Events(runtime, start + 1, total),
             capacity |-> Capacity(total - start), registered |-> TRUE,
             closes |-> 0, overrun |-> FALSE]
  /\ UNCHANGED <<runtime, total, retired, closed, stream, got, seen, connects>>

Receive ==
  /\ sub # NoSub
  /\ sub.queue # <<>>
  /\ got' = Append(got, Head(sub.queue))
  /\ sub' = [sub EXCEPT !.queue = Tail(@)]
  /\ UNCHANGED <<runtime, total, retired, closed, stream, seen, connects>>

CancelSubscriber ==
  /\ sub # NoSub
  /\ sub.state = "live"
  /\ sub' = [sub EXCEPT !.state = "cancelled"]
  /\ UNCHANGED <<runtime, total, retired, closed, stream, got, seen, connects>>

(* Seeded fault: the goroutine closes the channel and stays subscribed.    *)
StillRegistered(s) == s

(* The goroutine of the subscription: it leaves the runtime that is        *)
(* published now, which need not be the one it subscribed to.              *)
Unregistered(s) ==
  IF ~closed /\ s.runtime = runtime THEN [s EXCEPT !.registered = FALSE] ELSE s

Unsubscribe ==
  /\ sub # NoSub
  /\ sub.state = "cancelled"
  /\ sub' = CloseChannel([Unregistered(sub) EXCEPT !.state = "gone"])
  /\ UNCHANGED <<runtime, total, retired, closed, stream, got, seen, connects>>

(* The runtime is swapped under the mutex; closeRuntime follows after it.  *)
ReplaceScenario ==
  /\ ~closed
  /\ runtime < MaxReplacements
  /\ retired' = retired \cup {runtime}
  /\ runtime' = runtime + 1
  /\ total' = 0
  /\ UNCHANGED <<closed, sub, stream, got, seen, connects>>

Close ==
  /\ ~closed
  /\ closed' = TRUE
  /\ retired' = retired \cup {runtime}
  /\ UNCHANGED <<runtime, total, sub, stream, got, seen, connects>>

(* Seeded fault: the subscribers of the published runtime are closed.      *)
SubscribedToPublished(r) == sub # NoSub /\ sub.registered /\ sub.runtime = runtime

SubscribedTo(r) == sub # NoSub /\ sub.registered /\ sub.runtime = r

CloseRuntime(r) ==
  /\ r \in retired
  /\ retired' = retired \ {r}
  /\ sub' = IF SubscribedTo(r)
            THEN CloseChannel([sub EXCEPT !.registered = FALSE])
            ELSE sub
  /\ UNCHANGED <<runtime, total, closed, stream, got, seen, connects>>

-------------------------------------------------------------------------------
(* The HTTP stream.                                                        *)

LastSeen == IF seen = <<>> THEN 0 ELSE Last(seen)[2]

(* The client sends the ID of the last event it has seen.                  *)
Connect ==
  /\ stream.state \in {"off", "ended"}
  /\ connects < MaxConnects
  /\ connects' = connects + 1
  /\ stream' = [state |-> "poll", cursor |-> LastSeen, page |-> <<>>, result |-> <<>>]
  /\ UNCHANGED <<runtime, total, retired, closed, sub, got, seen>>

(* Seeded fault: the page starts one event late.                           *)
PageFromOneAfter(cursor) ==
  LET start == Smaller(cursor + 1, total)
      end   == Smaller(start + PageLimit, total)
  IN Events(runtime, start + 1, end)

(* Simulator.Events: the page after the cursor; only a closed simulator or *)
(* a context that ended makes it fail.                                     *)
PageAfter(cursor) ==
  LET start == Smaller(cursor, total)
      end   == IF start < total /\ PageLimit < total - start
               THEN start + PageLimit
               ELSE total
  IN Events(runtime, start + 1, end)

Poll ==
  /\ stream.state = "poll"
  /\ stream' = IF closed
               THEN [stream EXCEPT !.state = "ended"]
               ELSE [stream EXCEPT !.state = "send", !.page = PageAfter(stream.cursor)]
  /\ UNCHANGED <<runtime, total, retired, closed, sub, got, seen, connects>>

(* The poller also skips items at or before its cursor; a page after the   *)
(* cursor has none.                                                        *)
Send ==
  /\ stream.state = "send"
  /\ stream.page # <<>>
  /\ Len(stream.result) < StreamBuffer
  /\ stream' = [stream EXCEPT !.page = Tail(@), !.cursor = Head(stream.page)[2],
                              !.result = Append(@, Head(stream.page))]
  /\ UNCHANGED <<runtime, total, retired, closed, sub, got, seen, connects>>

(* The timer of the poll interval.                                         *)
Tick ==
  /\ stream.state = "send"
  /\ stream.page = <<>>
  /\ stream' = [stream EXCEPT !.state = "poll"]
  /\ UNCHANGED <<runtime, total, retired, closed, sub, got, seen, connects>>

(* handleEvents writes one event to the response; after the poller ended   *)
(* it still drains the channel.                                            *)
Deliver ==
  /\ stream.state # "off"
  /\ stream.result # <<>>
  /\ seen' = Append(seen, Head(stream.result))
  /\ stream' = [stream EXCEPT !.result = Tail(@)]
  /\ UNCHANGED <<runtime, total, retired, closed, sub, got, connects>>

(* The client or the network drops the connection: the request context     *)
(* ends and with it the handler and the poller.                            *)
Disconnect ==
  /\ stream.state # "off"
  /\ stream' = NoStream
  /\ UNCHANGED <<runtime, total, retired, closed, sub, got, seen, connects>>

-------------------------------------------------------------------------------
Next ==
  \/ AppendEvent \/ Receive \/ CancelSubscriber \/ Unsubscribe
  \/ \E cursor \in 0..MaxEvents : Subscribe(cursor)
  \/ ReplaceScenario \/ Close
  \/ \E r \in retired : CloseRuntime(r)
  \/ Connect \/ Poll \/ Send \/ Tick \/ Deliver \/ Disconnect

(* Goroutines run and the poll timer fires; the HTTP handler writes what   *)
(* the poller sends.  Clients, replacements and events are not obliged.    *)
Fairness ==
  /\ WF_vars(Unsubscribe)
  /\ WF_vars(\E r \in retired : CloseRuntime(r))
  /\ WF_vars(Poll) /\ WF_vars(Send) /\ WF_vars(Tick) /\ WF_vars(Deliver)

Spec == Init /\ [][Next]_vars /\ Fairness

-------------------------------------------------------------------------------
TypeOK ==
  /\ runtime \in 0..MaxReplacements
  /\ total \in 0..MaxEvents
  /\ retired \subseteq 0..MaxReplacements
  /\ closed \in BOOLEAN
  /\ sub # NoSub => sub.state \in {"live", "cancelled", "gone"}
  /\ stream.state \in {"off", "poll", "send", "ended"}
  /\ stream.state # "off" => Len(stream.result) <= StreamBuffer

(* The channel of a subscription holds what SubscribeEvents puts into it   *)
(* with the mutex held, it is closed at most once, and not as long as      *)
(* appendEvent may send to it.                                             *)
ChannelSound ==
  sub # NoSub =>
    /\ Len(sub.queue) <= sub.capacity
    /\ sub.closes <= 1
    /\ ~closed /\ sub.registered /\ sub.runtime = runtime => sub.closes = 0

(* What a subscriber has received or will find in its buffer is the log    *)
(* after its cursor: in order, nothing twice, and nothing missing unless   *)
(* an event met a full buffer.                                             *)
SubscriberOrder ==
  sub # NoSub =>
    LET all == got \o sub.queue
    IN /\ \A i \in 1..Len(all) : all[i][1] = sub.runtime
       /\ \A i, j \in 1..Len(all) : i < j => all[i][2] < all[j][2]
       /\ ~sub.overrun => all = Events(sub.runtime, sub.start + 1, sub.start + Len(all))
       /\ ~sub.overrun /\ sub.registered /\ sub.runtime = runtime =>
            sub.start + Len(all) = total

(* Over any number of dropped connections the HTTP client sees the events  *)
(* of a runtime from the first, each exactly once.  With a scenario        *)
(* replacement the code does not keep this: the cursor stays.              *)
StreamExactlyOnce ==
  \A i \in DOMAIN seen :
    seen[i][2] = Cardinality({j \in 1..i : seen[j][1] = seen[i][1]})

(* A replacement or Close closes the subscriptions of the runtime it       *)
(* retires, as the comment of SubscribeEvents promises, whatever their     *)
(* own cancellation does meanwhile.                                        *)
RetiredIsClosed ==
  (sub # NoSub /\ (closed \/ sub.runtime # runtime)) ~> (sub # NoSub /\ sub.closes = 1)

(* A connected client is sent every event there is, or its connection      *)
(* ends.                                                                   *)
StreamCatchesUp ==
  \A n \in 1..MaxEvents :
    (stream.state = "poll" /\ total >= n) ~>
      (LastSeen >= n \/ stream.state \in {"off", "ended"} \/ total < n)
=============================================================================
