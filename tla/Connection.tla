----------------------------- MODULE Connection -----------------------------
(***************************************************************************)
(* One side of a transport connection (AbstractConnection, its             *)
(* TimeoutScheduler and NettyConnection): the threads that call request(), *)
(* the event loop that reads responses, the timer threads and the thread   *)
(* that closes the connection meet in three concurrent maps.  A step is    *)
(* one access to one of the maps.                                          *)
(***************************************************************************)
EXTENDS Naturals, Sequences

CONSTANT Request   \* the ids IntegerIdGenerator hands out, never the same twice

VARIABLES
  caller,           \* where the thread that sends r stands
  future,           \* the CompletableFuture request() returns
  responseFutures,  \* the ids in AbstractConnection.responseFutures
  requestMap,       \* the ids in AbstractConnection.requestMap
  scheduledMap,     \* the ids in TimeoutScheduler.scheduledMap
  timer,            \* the task of the scheduled executor
  handling,         \* how far handResponse is with r, on each kind of thread
  wire,             \* requests under way to the other side
  inbound,          \* responses under way, in the order they were written
  channelOpen,
  closing,          \* progress of close()
  uncleared,        \* ids responseFutures.clear() has still to visit
  served,           \* history: how often the other side has handled r
  responses,        \* history: how many responses the future of r was given
  overtaken,        \* history: ids cancelled before schedule() had recorded them
  cleared           \* history: ids whose future close() has thrown away

maps == <<responseFutures, requestMap, scheduledMap>>
link == <<wire, inbound, channelOpen, served>>
shut == <<closing, uncleared, cleared>>
past == <<responses, overtaken>>
vars == <<caller, future, maps, timer, handling, link, shut, past>>

Outcome == {"answer", "remoteError", "timeout"}
Thread  == {"loop", "timer"}  \* the event loop; the timer thread of a request
Idle    == [at |-> "none", with |-> "none"]
EventLoopFree == \A r \in Request : handling[r]["loop"] = Idle

Init ==
  /\ caller = [r \in Request |-> "idle"]
  /\ future = [r \in Request |-> "none"]
  /\ responseFutures = {} /\ requestMap = {} /\ scheduledMap = {}
  /\ timer = [r \in Request |-> "off"]
  /\ handling = [r \in Request |-> [t \in Thread |-> Idle]]
  /\ wire = {} /\ inbound = <<>> /\ channelOpen = TRUE
  /\ closing = "open" /\ uncleared = {}
  /\ served = [r \in Request |-> 0] /\ responses = [r \in Request |-> 0]
  /\ overtaken = {} /\ cleared = {}

Move(r, from, to) == caller[r] = from /\ caller' = [caller EXCEPT ![r] = to]

\* CompletableFuture.complete and completeExceptionally.
Complete(r, end) ==
  future' = [future EXCEPT ![r] = IF @ = "pending" THEN end ELSE @]
-----------------------------------------------------------------------------
(* request(), step by step, and send() without a handler.                   *)

Register(r) ==
  /\ Move(r, "idle", "registered")
  /\ future' = [future EXCEPT ![r] = "pending"]
  /\ responseFutures' = responseFutures \cup {r}
  /\ UNCHANGED <<requestMap, scheduledMap, timer, handling, link, shut, past>>

RecordRequest(r) ==
  /\ Move(r, "registered", "recorded")
  /\ requestMap' = requestMap \cup {r}
  /\ UNCHANGED <<future, responseFutures, scheduledMap, timer, handling, link,
                 shut, past>>

\* doSend.  A write to a closed channel fails at once, which await() takes
\* for done: only a write that is not done in time throws.
Write(r) == wire' = IF channelOpen THEN wire \cup {r} ELSE wire

SendRequest(r) ==
  /\ Move(r, "recorded", "sent")
  /\ Write(r)
  /\ UNCHANGED <<future, maps, timer, handling, inbound, channelOpen, served,
                 shut, past>>

\* The write was not done in time, or not at all; it may still arrive.
SendThrows(r) ==
  /\ Move(r, "recorded", "threw")
  /\ Write(r) \/ UNCHANGED wire
  /\ UNCHANGED <<future, maps, timer, handling, inbound, channelOpen, served,
                 shut, past>>

\* The catch of request(): the maps keep what they have.
FailUnsent(r) ==
  /\ Move(r, "threw", "done")
  /\ Complete(r, "unsent")
  /\ UNCHANGED <<maps, timer, handling, link, shut, past>>

\* Deviation: the timeout task is not handed to the executor.
StartNoTimer(r) ==
  /\ Move(r, "sent", "scheduling")
  /\ UNCHANGED <<future, maps, timer, handling, link, shut, past>>

StartTimer(r) ==
  /\ Move(r, "sent", "scheduling")
  /\ timer' = [timer EXCEPT ![r] = "armed"]
  /\ UNCHANGED <<future, maps, handling, link, shut, past>>

RecordTimer(r) ==
  /\ Move(r, "scheduling", "done")
  /\ scheduledMap' = scheduledMap \cup {r}
  /\ UNCHANGED <<future, responseFutures, requestMap, timer, handling, link,
                 shut, past>>

\* send(message): the request has an id, but nobody waits for its response.
SendOnly(r) ==
  /\ Move(r, "idle", "done")
  /\ Write(r) \/ UNCHANGED wire
  /\ UNCHANGED <<future, maps, timer, handling, inbound, channelOpen, served,
                 shut, past>>
-----------------------------------------------------------------------------
(* handResponse: by the event loop for a response that was read, by a timer *)
(* thread for the one TimeoutTask makes up.                                 *)

\* Deviation: the future is looked up, and stays in the map.
TakeFutureAndKeep(r, t, end) ==
  /\ IF r \in responseFutures
     THEN handling' = [handling EXCEPT ![r][t] = [at |-> "taken", with |-> end]]
     ELSE UNCHANGED handling
  /\ UNCHANGED responseFutures

\* Deviation: the made-up response has no exception and no message.
TakeFutureForNothing(r, t, end) ==
  IF r \in responseFutures
  THEN /\ responseFutures' = responseFutures \ {r}
       /\ handling' = [handling EXCEPT ![r][t] = [at |-> "taken", with |-> "none"]]
  ELSE UNCHANGED <<responseFutures, handling>>

\* responseFutures.remove: whoever gets the future goes on, everybody else
\* returns.
TakeFuture(r, t, end) ==
  IF r \in responseFutures
  THEN /\ responseFutures' = responseFutures \ {r}
       /\ handling' = [handling EXCEPT ![r][t] = [at |-> "taken", with |-> end]]
  ELSE UNCHANGED <<responseFutures, handling>>

ReadResponse ==
  /\ EventLoopFree /\ inbound # <<>>
  /\ TakeFuture(Head(inbound).id, "loop", Head(inbound).with)
  /\ inbound' = Tail(inbound)
  /\ UNCHANGED <<caller, future, requestMap, scheduledMap, timer, wire,
                 channelOpen, served, shut, past>>

TimerFires(r) ==
  /\ timer[r] = "armed"
  /\ timer' = [timer EXCEPT ![r] = "fired"]
  /\ TakeFuture(r, "timer", "timeout")
  /\ UNCHANGED <<caller, future, requestMap, scheduledMap, link, shut, past>>

GoOn(r, t, from, to) ==
  /\ handling[r][t].at = from
  /\ handling' = [handling EXCEPT ![r][t].at = to]

\* Deviation: the RequestInfo is looked up and stays in the map.
TakeRequestAndKeep(r, t) ==
  /\ GoOn(r, t, "taken", "recorded")
  /\ UNCHANGED <<caller, future, maps, timer, link, shut, past>>

TakeRequest(r, t) ==
  /\ GoOn(r, t, "taken", "recorded")
  /\ requestMap' = requestMap \ {r}
  /\ UNCHANGED <<caller, future, responseFutures, scheduledMap, timer, link, shut, past>>

\* future.cancel(false), if there is one.
Cancelled(r) ==
  IF r \in scheduledMap /\ timer[r] = "armed" THEN [timer EXCEPT ![r] = "cancelled"] ELSE timer

\* Deviation: the timer is looked up and cancelled, its entry stays.
CancelTimerAndKeep(r, t) ==
  /\ GoOn(r, t, "recorded", "cancelled")
  /\ timer' = Cancelled(r)
  /\ overtaken' = overtaken \cup ({r} \ scheduledMap)
  /\ UNCHANGED <<caller, future, maps, link, shut, responses>>

\* TimeoutScheduler.cancel: a response may be faster than schedule(), and
\* then there is nothing to cancel yet.
CancelTimer(r, t) ==
  /\ GoOn(r, t, "recorded", "cancelled")
  /\ scheduledMap' = scheduledMap \ {r}
  /\ timer' = Cancelled(r)
  /\ overtaken' = overtaken \cup ({r} \ scheduledMap)
  /\ UNCHANGED <<caller, future, responseFutures, requestMap, link, shut, responses>>

CompleteFuture(r, t) ==
  /\ handling[r][t].at = "cancelled"
  /\ handling' = [handling EXCEPT ![r][t] = Idle]
  /\ Complete(r, handling[r][t].with)
  /\ responses' = [responses EXCEPT ![r] = @ + 1]
  /\ UNCHANGED <<caller, maps, timer, link, shut, overtaken>>
-----------------------------------------------------------------------------
(* The other side.                                                          *)

\* handRequest: without a handler, a future or a response there is no answer;
\* when the answer cannot be written in time, an error is written after it.
HandRequest(r) ==
  /\ r \in wire
  /\ wire' = wire \ {r}
  /\ served' = [served EXCEPT ![r] = @ + 1]
  /\ \E answers \in {<<>>, <<"answer">>, <<"remoteError">>,
                     <<"answer", "remoteError">>} :
       inbound' = inbound \o [i \in DOMAIN answers |-> [id |-> r, with |-> answers[i]]]
  /\ UNCHANGED <<caller, future, maps, timer, handling, channelOpen, shut, past>>
-----------------------------------------------------------------------------
(* Closing.                                                                 *)

\* The channel breaks, or the other side closes it: what is under way is lost.
Disconnect ==
  /\ channelOpen
  /\ channelOpen' = FALSE /\ wire' = {} /\ inbound' = <<>>
  /\ UNCHANGED <<caller, future, maps, timer, handling, served, shut, past>>

\* close() of a user or, after channelInactive, of the event loop: only the
\* first call gets past the closed flag.
Close ==
  /\ closing = "open"
  /\ closing' = "clearing" /\ uncleared' = Request
  /\ channelOpen' = FALSE /\ wire' = {} /\ inbound' = <<>>
  /\ UNCHANGED <<caller, future, maps, timer, handling, served, cleared, past>>

\* responseFutures.clear() goes from bin to bin while others use the map.
ClearFuture(r) ==
  /\ closing = "clearing" /\ r \in uncleared
  /\ uncleared' = uncleared \ {r}
  /\ responseFutures' = responseFutures \ {r}
  /\ cleared' = IF r \in responseFutures THEN cleared \cup {r} ELSE cleared
  /\ UNCHANGED <<caller, future, requestMap, scheduledMap, timer, handling, link,
                 closing, past>>

Closed ==
  /\ closing = "clearing" /\ uncleared = {}
  /\ closing' = "closed"
  /\ UNCHANGED <<caller, future, maps, timer, handling, link, uncleared, cleared, past>>
-----------------------------------------------------------------------------
CallerStep(r) ==
  \/ RecordRequest(r) \/ SendRequest(r) \/ SendThrows(r) \/ FailUnsent(r)
  \/ StartTimer(r) \/ RecordTimer(r)

HandlerStep(r, t) == TakeRequest(r, t) \/ CancelTimer(r, t) \/ CompleteFuture(r, t)

CloseStep == Closed \/ \E r \in Request : ClearFuture(r)

Next ==
  \/ \E r \in Request : \/ Register(r) \/ SendOnly(r) \/ CallerStep(r)
                        \/ TimerFires(r) \/ HandRequest(r)
                        \/ \E t \in Thread : HandlerStep(r, t)
  \/ ReadResponse
  \/ Disconnect \/ Close \/ CloseStep

\* Threads that are inside a method go on, and an armed timer fires; neither
\* the other side nor anybody who might call or close owes a step.
Fairness ==
  /\ \A r \in Request : /\ WF_vars(CallerStep(r))
                        /\ WF_vars(TimerFires(r))
                        /\ \A t \in Thread : WF_vars(HandlerStep(r, t))
  /\ WF_vars(CloseStep)

Spec == Init /\ [][Next]_vars /\ Fairness
-----------------------------------------------------------------------------
TypeOK ==
  /\ caller \in [Request -> {"idle", "registered", "recorded", "sent", "threw",
                             "scheduling", "done"}]
  /\ future \in [Request -> {"none", "pending", "unsent"} \cup Outcome]
  /\ {responseFutures, requestMap, scheduledMap, wire, uncleared, overtaken, cleared}
       \subseteq SUBSET Request
  /\ served \in [Request -> Nat] /\ responses \in [Request -> Nat]
  /\ timer \in [Request -> {"off", "armed", "fired", "cancelled"}]
  /\ handling \in [Request -> [Thread -> {Idle} \cup
                     [at : {"taken", "recorded", "cancelled"}, with : Outcome]]]
  /\ inbound \in Seq([id : Request, with : Outcome])
  /\ channelOpen \in BOOLEAN
  /\ closing \in {"open", "clearing", "closed"}

\* handResponse dereferences the RequestInfo of every future it has taken:
\* request() has recorded it by then, and nobody else has taken it.
InfoIsThere ==
  \A r \in Request : \A t \in Thread : handling[r][t].at = "taken" => r \in requestMap

Finished(r) == /\ caller[r] = "done" /\ \A t \in Thread : handling[r][t] = Idle
               /\ future[r] # "pending"

\* What a request that is over leaves in the maps.  In requestMap: one whose
\* write threw (the catch of request() cleans nothing up) or that close() cut
\* off.  In scheduledMap: one that close() cut off, or whose response was
\* handled before schedule() had recorded the timer; and no timer is left
\* armed that has no entry there (handResponse, TimeoutScheduler).
NothingLeftBehind ==
  \A r \in Request :
    /\ Finished(r) /\ r \in requestMap => future[r] = "unsent" \/ r \in cleared
    /\ Finished(r) /\ r \in scheduledMap => r \in overtaken \cup cleared
    /\ caller[r] = "done" /\ timer[r] = "armed" => r \in scheduledMap

Reply == INSTANCE RequestReply
  WITH future <- future, served <- served, responses <- responses

\* Callers see what RequestReply promises: of the threads that come with a
\* response of one request (an answer, the error written after it, the
\* timeout) only one gets to hand it to the future, and no request is carried
\* out twice.
ImplementsRequestReply == Reply!Spec

\* The future request() returns ends, unless close() throws it away: also a
\* request made after close(), which waits for its timer.
EndsUnlessCleared ==
  \A r \in Request :
    caller[r] = "registered" ~> future[r] # "pending" \/ r \in cleared

\* "blocks until a message is returned or it times out": every request made
\* on a connection, closed or not, ends.
EveryRequestEnds ==
  \A r \in Request : caller[r] = "registered" ~> future[r] # "pending"
=============================================================================
