--------------------------- MODULE ConnectionProofs ---------------------------
(***************************************************************************)
(* A connection keeps what RequestReply promises, for any number of        *)
(* requests and in every interleaving of callers, event loop, timers and   *)
(* close; handResponse finds its RequestInfo, and only what is known to be *)
(* left behind is left behind.                                             *)
(***************************************************************************)
EXTENDS Connection, SequenceTheorems, TLAPS

Sent(r) == caller[r] \in {"sent", "threw", "scheduling", "done"}

Response == [id : Request, with : Outcome]

\* The responses the other side may have written.
Genuine == {m \in Response : served[m.id] # 0 /\ m.with \in {"answer", "remoteError"}}

\* The types, and that what is under way to this side answers a request that
\* the other side has carried out.
ShapeOK == TypeOK /\ inbound \in Seq(Genuine)

\* A request nobody has made yet has left no trace.
Untouched(r) ==
  caller[r] = "idle" => future[r] = "none" /\ responses[r] = 0 /\ r \notin responseFutures

\* The other side has only what was sent, and carries it out once.
Delivered(r) ==
  /\ served[r] \in {0, 1}
  /\ r \in wire => Sent(r) /\ served[r] = 0
  /\ served[r] = 1 => Sent(r)

Busy(r, t) == handling[r][t].at # "none"

\* A future that can still be taken, and its RequestInfo.
Waiting(r) ==
  /\ r \in responseFutures =>
       /\ \A t \in Thread : ~Busy(r, t)
       /\ responses[r] = 0 /\ future[r] \in {"pending", "unsent"}
       /\ caller[r] # "registered" => r \in requestMap
  /\ caller[r] = "registered" => r \in responseFutures \cup cleared

\* A response that is being handled: its thread has the future for itself.
Taken(r) ==
  /\ responses[r] \in {0, 1}
  /\ \A t, u \in Thread : Busy(r, t) /\ Busy(r, u) => t = u
  /\ \A t \in Thread :
       /\ Busy(r, t) => Sent(r) /\ responses[r] = 0 /\ future[r] \in {"pending", "unsent"}
       /\ handling[r][t].at = "taken" => r \in requestMap
       /\ handling[r][t].with \in {"answer", "remoteError"} => served[r] = 1

\* Somebody will still cancel the timer of r, or it cannot be helped.
Watched(r) ==
  \/ r \in responseFutures \cup overtaken \cup cleared
  \/ \E t \in Thread : handling[r][t].at \in {"taken", "recorded"}

\* Who will take the RequestInfo out of its map, and the timer out of its.
Owned(r) ==
  /\ r \in requestMap =>
       r \in responseFutures \cup cleared \/ \E t \in Thread : handling[r][t].at = "taken"
  /\ caller[r] \in {"registered", "recorded", "sent", "threw", "scheduling"} => Watched(r)
  /\ r \in scheduledMap => caller[r] = "done" /\ Watched(r)
  /\ future[r] = "unsent" => caller[r] = "done" /\ r \notin scheduledMap
  /\ timer[r] # "off" => caller[r] \in {"scheduling", "done"}
  /\ caller[r] = "done" /\ timer[r] = "armed" => r \in scheduledMap

Good(r) == Untouched(r) /\ Delivered(r) /\ Waiting(r) /\ Taken(r) /\ Owned(r)

IInv == ShapeOK /\ \A r \in Request : Good(r)

LEMMA SeqMono ==
  ASSUME NEW S, NEW T, S \subseteq T, NEW s \in Seq(S)
  PROVE  s \in Seq(T)
  BY SeqDef
-----------------------------------------------------------------------------
(* Types.                                                                   *)

Handling == {Idle} \cup [at : {"taken", "recorded", "cancelled"}, with : Outcome]

\* TypeOK without the responses under way.
PlainOK ==
  /\ caller \in [Request -> {"idle", "registered", "recorded", "sent", "threw",
                             "scheduling", "done"}]
  /\ future \in [Request -> {"none", "pending", "unsent"} \cup Outcome]
  /\ responseFutures \subseteq Request /\ requestMap \subseteq Request
  /\ scheduledMap \subseteq Request /\ wire \subseteq Request
  /\ uncleared \subseteq Request /\ overtaken \subseteq Request /\ cleared \subseteq Request
  /\ served \in [Request -> Nat] /\ responses \in [Request -> Nat]
  /\ timer \in [Request -> {"off", "armed", "fired", "cancelled"}]
  /\ handling \in [Request -> [Thread -> Handling]]
  /\ channelOpen \in BOOLEAN
  /\ closing \in {"open", "clearing", "closed"}

LEMMA Shape == ShapeOK <=> PlainOK /\ inbound \in Seq(Genuine)
<1>1. Genuine \subseteq Response
  BY DEF Genuine
<1>2. inbound \in Seq(Genuine) => inbound \in Seq(Response)
  BY <1>1, SeqMono
<1> QED BY <1>2 DEF ShapeOK, TypeOK, PlainOK, Handling, Response

LEMMA ShapePrimed == ShapeOK' <=> PlainOK' /\ inbound' \in Seq(Genuine')
<1>1. Genuine' \subseteq Response
  BY DEF Genuine
<1>2. inbound' \in Seq(Genuine') => inbound' \in Seq(Response)
  BY <1>1, SeqMono
<1> QED BY <1>2 DEF ShapeOK, TypeOK, PlainOK, Handling, Response

\* A step that leaves the responses under way alone.
LEMMA InboundKept ==
  ASSUME ShapeOK, UNCHANGED inbound, \A r \in Request : served[r] # 0 => served'[r] # 0
  PROVE  inbound' \in Seq(Genuine')
<1>1. Genuine \subseteq Genuine'
  BY DEF Genuine, Response
<1> QED BY <1>1, SeqMono DEF ShapeOK

\* A step of handResponse from one point to the next.
LEMMA GoOnFacts ==
  ASSUME PlainOK, NEW r \in Request, NEW t \in Thread, NEW from, from # "none",
         NEW to \in {"recorded", "cancelled"}, GoOn(r, t, from, to)
  PROVE  /\ handling' \in [Request -> [Thread -> Handling]]
         /\ handling[r][t].at = from /\ handling'[r][t].at = to
         /\ handling'[r][t].with = handling[r][t].with
         /\ \A u \in Thread : u # t => handling'[r][u] = handling[r][u]
         /\ \A q \in Request : q # r => handling'[q] = handling[q]
<1> DEFINE h == handling[r][t]
<1>1. h \in Handling /\ h.at = from
  BY DEF PlainOK, GoOn
<1>2. h \in [at : {"taken", "recorded", "cancelled"}, with : Outcome]
  BY <1>1 DEF Handling, Idle
<1>3. /\ [h EXCEPT !.at = to] \in Handling
      /\ [h EXCEPT !.at = to].at = to /\ [h EXCEPT !.at = to].with = h.with
  BY <1>2 DEF Handling
<1>4. handling' = [handling EXCEPT ![r] = [@ EXCEPT ![t] = [h EXCEPT !.at = to]]]
  BY DEF GoOn
<1> HIDE DEF h
<1>5. /\ handling'[r][t] = [h EXCEPT !.at = to]
      /\ \A u \in Thread : u # t => handling'[r][u] = handling[r][u]
      /\ \A q \in Request : q # r => handling'[q] = handling[q]
      /\ handling' \in [Request -> [Thread -> Handling]]
  BY <1>3, <1>4 DEF PlainOK
<1> QED BY <1>1, <1>3, <1>5 DEF h

\* Who finds the future in the map, and who does not.
LEMMA TakeFacts ==
  ASSUME PlainOK, NEW r \in Request, NEW t \in Thread, NEW end \in Outcome,
         TakeFuture(r, t, end)
  PROVE  /\ handling' \in [Request -> [Thread -> Handling]]
         /\ responseFutures' = responseFutures \ {r}
         /\ \A q \in Request : q # r => handling'[q] = handling[q]
         /\ r \notin responseFutures => handling' = handling
         /\ r \in responseFutures =>
              /\ handling'[r][t] = [at |-> "taken", with |-> end]
              /\ \A u \in Thread : u # t => handling'[r][u] = handling[r][u]
<1>1. CASE r \notin responseFutures
  BY <1>1 DEF TakeFuture, PlainOK
<1>2. CASE r \in responseFutures
  <2> DEFINE h == [at |-> "taken", with |-> end]
  <2>1. h \in Handling
    BY DEF Handling
  <2>2. handling' = [handling EXCEPT ![r] = [@ EXCEPT ![t] = h]]
    BY <1>2 DEF TakeFuture
  <2> HIDE DEF h
  <2>3. /\ handling'[r][t] = h
        /\ \A u \in Thread : u # t => handling'[r][u] = handling[r][u]
        /\ \A q \in Request : q # r => handling'[q] = handling[q]
        /\ handling' \in [Request -> [Thread -> Handling]]
    BY <2>1, <2>2 DEF PlainOK
  <2> QED BY <1>2, <2>3 DEF TakeFuture, h
<1> QED BY <1>1, <1>2

\* The future is given its response, and the thread is free.
LEMMA CompleteFacts ==
  ASSUME PlainOK, NEW r \in Request, NEW t \in Thread, CompleteFuture(r, t)
  PROVE  /\ handling' \in [Request -> [Thread -> Handling]]
         /\ handling[r][t].at = "cancelled" /\ handling'[r][t] = Idle
         /\ handling[r][t].with \in Outcome
         /\ \A u \in Thread : u # t => handling'[r][u] = handling[r][u]
         /\ \A q \in Request : q # r => handling'[q] = handling[q]
<1>1. handling[r][t] \in Handling /\ handling[r][t].at = "cancelled"
  BY DEF PlainOK, CompleteFuture
<1>2. handling[r][t].with \in Outcome /\ Idle \in Handling
  BY <1>1 DEF Handling, Idle
<1>3. handling' = [handling EXCEPT ![r] = [@ EXCEPT ![t] = Idle]]
  BY DEF CompleteFuture
<1>4. /\ handling'[r][t] = Idle
      /\ \A u \in Thread : u # t => handling'[r][u] = handling[r][u]
      /\ \A q \in Request : q # r => handling'[q] = handling[q]
      /\ handling' \in [Request -> [Thread -> Handling]]
  BY <1>2, <1>3 DEF PlainOK
<1> QED BY <1>1, <1>2, <1>4

LEMMA CallerShape ==
  ASSUME ShapeOK, NEW r \in Request, Register(r) \/ SendOnly(r) \/ CallerStep(r)
  PROVE  ShapeOK'
<1>1. UNCHANGED inbound /\ served' = served
  BY DEF Register, SendOnly, CallerStep, RecordRequest, SendRequest, SendThrows,
         FailUnsent, StartTimer, RecordTimer, link
<1>2. PlainOK
  BY Shape
<1>3. PlainOK'
  <2> USE <1>2 DEF PlainOK, Move, maps, link, shut, past
  <2>1. CASE Register(r)
    BY <2>1 DEF Register
  <2>2. CASE SendOnly(r)
    BY <2>2 DEF SendOnly, Write
  <2>3. CASE RecordRequest(r)
    BY <2>3 DEF RecordRequest
  <2>4. CASE SendRequest(r)
    BY <2>4 DEF SendRequest, Write
  <2>5. CASE SendThrows(r)
    BY <2>5 DEF SendThrows, Write
  <2>6. CASE FailUnsent(r)
    BY <2>6 DEF FailUnsent, Complete
  <2>7. CASE StartTimer(r)
    BY <2>7 DEF StartTimer
  <2>8. CASE RecordTimer(r)
    BY <2>8 DEF RecordTimer
  <2> QED BY <2>1, <2>2, <2>3, <2>4, <2>5, <2>6, <2>7, <2>8 DEF CallerStep
<1> QED BY <1>1, <1>3, InboundKept, ShapePrimed

LEMMA HandlerShape ==
  ASSUME ShapeOK, NEW r \in Request, TimerFires(r) \/ \E t \in Thread : HandlerStep(r, t)
  PROVE  ShapeOK'
<1>1. UNCHANGED inbound /\ served' = served
  BY DEF TimerFires, HandlerStep, TakeRequest, CancelTimer, CompleteFuture, link
<1>2. PlainOK
  BY Shape
<1>3. CASE TimerFires(r)
  <2>1. handling' \in [Request -> [Thread -> Handling]] /\ responseFutures' \subseteq Request
    BY <1>2, <1>3, TakeFacts DEF TimerFires, Thread, Outcome, PlainOK
  <2> QED BY <1>1, <1>2, <1>3, <2>1, InboundKept, ShapePrimed
          DEF TimerFires, PlainOK, link, shut, past
<1>4. ASSUME NEW t \in Thread, HandlerStep(r, t) PROVE PlainOK'
  <2> USE <1>2 DEF PlainOK, maps, link, shut, past
  <2>1. CASE TakeRequest(r, t)
    <3>1. handling' \in [Request -> [Thread -> Handling]]
      BY <2>1, GoOnFacts DEF TakeRequest
    <3> QED BY <2>1, <3>1 DEF TakeRequest
  <2>2. CASE CancelTimer(r, t)
    <3>1. handling' \in [Request -> [Thread -> Handling]]
      BY <2>2, GoOnFacts DEF CancelTimer
    <3> QED BY <2>2, <3>1 DEF CancelTimer, Cancelled
  <2>3. CASE CompleteFuture(r, t)
    <3>1. handling' \in [Request -> [Thread -> Handling]] /\ handling[r][t].with \in Outcome
      BY <2>3, CompleteFacts
    <3>2. responses' \in [Request -> Nat]
      BY <2>3 DEF CompleteFuture
    <3> QED BY <2>3, <3>1, <3>2 DEF CompleteFuture, Complete
  <2> QED BY <1>4, <2>1, <2>2, <2>3 DEF HandlerStep
<1> QED BY <1>1, <1>3, <1>4, InboundKept, ShapePrimed

\* The response at the head answers a request the other side has carried out.
LEMMA HeadIsGenuine ==
  ASSUME ShapeOK, inbound # <<>>
  PROVE  /\ Head(inbound).id \in Request /\ served[Head(inbound).id] # 0
         /\ Head(inbound).with \in {"answer", "remoteError"}
         /\ Tail(inbound) \in Seq(Genuine)
<1>1. Head(inbound) \in Genuine /\ Tail(inbound) \in Seq(Genuine)
  BY HeadTailProperties DEF ShapeOK
<1> QED BY <1>1 DEF Genuine, Response

LEMMA OtherShape ==
  ASSUME ShapeOK, \/ ReadResponse \/ Disconnect \/ Close \/ CloseStep
                  \/ \E r \in Request : HandRequest(r)
  PROVE  ShapeOK'
<1> USE DEF maps, link, shut, past
<1>1. PlainOK
  BY Shape
<1>2. CASE ReadResponse
  <2>0. handling' \in [Request -> [Thread -> Handling]] /\ responseFutures' \subseteq Request
    BY <1>1, <1>2, HeadIsGenuine, TakeFacts DEF ReadResponse, Thread, Outcome, PlainOK
  <2>1. PlainOK'
    BY <1>1, <1>2, <2>0 DEF ReadResponse, PlainOK
  <2>2. inbound' \in Seq(Genuine')
    BY <1>2, HeadIsGenuine DEF ReadResponse, Genuine
  <2> QED BY <2>1, <2>2, ShapePrimed
<1>3. ASSUME NEW r \in Request, HandRequest(r) PROVE ShapeOK'
  <2>1. PlainOK'
    BY <1>1, <1>3 DEF HandRequest, PlainOK
  <2>2. PICK answers \in {<<>>, <<"answer">>, <<"remoteError">>, <<"answer", "remoteError">>} :
          inbound' = inbound \o [i \in DOMAIN answers |-> [id |-> r, with |-> answers[i]]]
    BY <1>3 DEF HandRequest
  <2> DEFINE written == [i \in DOMAIN answers |-> [id |-> r, with |-> answers[i]]]
  <2>3. \A i \in DOMAIN answers : answers[i] \in {"answer", "remoteError"}
    BY <2>2
  <2>4. \A i \in DOMAIN answers : [id |-> r, with |-> answers[i]] \in Genuine'
    BY <1>1, <1>3, <2>3 DEF HandRequest, Genuine, Response, Outcome, PlainOK
  <2>5. \E n \in Nat : DOMAIN answers = 1 .. n
    <3>1. answers \in Seq({"answer", "remoteError"})
      <4>1. CASE answers = <<>>
        BY <4>1, EmptySeq
      <4>2. CASE answers = <<"answer">>
        BY <4>2
      <4>3. CASE answers = <<"remoteError">>
        BY <4>3
      <4>4. CASE answers = <<"answer", "remoteError">>
        BY <4>4
      <4> QED BY <2>2, <4>1, <4>2, <4>3, <4>4
    <3> QED BY <3>1, LenProperties
  <2>6. written \in Seq(Genuine')
    BY <2>4, <2>5, SeqDef
  <2>7. inbound \in Seq(Genuine')
    <3>1. Genuine \subseteq Genuine'
      BY <1>1, <1>3 DEF HandRequest, Genuine, Response, PlainOK
    <3> QED BY <3>1, SeqMono DEF ShapeOK
  <2>8. inbound' \in Seq(Genuine')
    BY <2>2, <2>6, <2>7, ConcatProperties
  <2> QED BY <2>1, <2>8, ShapePrimed
<1>4. CASE Disconnect \/ Close
  <2>1. PlainOK'
    BY <1>1, <1>4 DEF Disconnect, Close, PlainOK
  <2>2. inbound' \in Seq(Genuine')
    BY <1>4, EmptySeq DEF Disconnect, Close
  <2> QED BY <2>1, <2>2, ShapePrimed
<1>5. CASE CloseStep
  <2>1. PlainOK' /\ UNCHANGED inbound /\ served' = served
    BY <1>1, <1>5 DEF CloseStep, Closed, ClearFuture, PlainOK
  <2> QED BY <2>1, InboundKept, ShapePrimed
<1> QED BY <1>2, <1>3, <1>4, <1>5

-----------------------------------------------------------------------------
(* The invariant.                                                           *)

LEMMA InvariantInit == Init => IInv
<1> SUFFICES ASSUME Init PROVE IInv
  OBVIOUS
<1>1. PlainOK /\ inbound \in Seq(Genuine)
  BY EmptySeq DEF Init, PlainOK, Handling
<1>2. \A r \in Request : Good(r)
  <2>1. \A r \in Request : \A t \in Thread :
          handling[r][t].at = "none" /\ handling[r][t].with = "none"
    BY DEF Init, Idle
  <2>2. ASSUME NEW r \in Request
        PROVE  /\ caller[r] = "idle" /\ future[r] = "none" /\ timer[r] = "off"
               /\ served[r] = 0 /\ responses[r] = 0
               /\ responseFutures = {} /\ requestMap = {} /\ scheduledMap = {} /\ wire = {}
    BY DEF Init
  <2> SUFFICES ASSUME NEW r \in Request PROVE Good(r)
    OBVIOUS
  <2>3. Untouched(r) /\ Delivered(r) /\ Waiting(r)
    BY <2>2 DEF Untouched, Delivered, Waiting
  <2>4. Taken(r)
    BY <2>1, <2>2 DEF Taken, Busy
  <2>5. Owned(r)
    BY <2>2 DEF Owned
  <2> QED BY <2>3, <2>4, <2>5 DEF Good
<1> QED BY <1>1, <1>2, Shape DEF IInv

LEMMA ShapeStep == ShapeOK /\ [Next]_vars => ShapeOK'
<1> SUFFICES ASSUME ShapeOK, [Next]_vars PROVE ShapeOK'
  OBVIOUS
<1>1. CASE UNCHANGED vars
  <2>1. PlainOK /\ inbound \in Seq(Genuine)
    BY Shape
  <2>2. PlainOK' /\ Genuine' = Genuine
    BY <1>1, <2>1 DEF vars, maps, link, shut, past, PlainOK, Genuine
  <2> QED BY <1>1, <2>1, <2>2, ShapePrimed DEF vars, link
<1> QED BY <1>1, CallerShape, HandlerShape, OtherShape DEF Next

\* A step that leaves alone what is said of request r.
LEMMA Alone ==
  ASSUME NEW r \in Request, Good(r),
         caller'[r] = caller[r], future'[r] = future[r], timer'[r] = timer[r],
         handling'[r] = handling[r], served'[r] = served[r], responses'[r] = responses[r],
         r \in responseFutures' <=> r \in responseFutures,
         r \in requestMap' <=> r \in requestMap,
         r \in scheduledMap' <=> r \in scheduledMap,
         r \in wire' => r \in wire,
         r \in overtaken' <=> r \in overtaken, r \in cleared' <=> r \in cleared
  PROVE  Good(r)'
  BY DEF Good, Untouched, Delivered, Waiting, Taken, Owned, Watched, Busy, Sent

LEMMA CallerGood ==
  ASSUME IInv, NEW q \in Request, Register(q) \/ SendOnly(q) \/ CallerStep(q),
         NEW r \in Request
  PROVE  Good(r)'
<1> USE DEF Move, Write, maps, link, shut, past
<1>1. PlainOK /\ Good(r)
  BY Shape DEF IInv
<1>2. CASE r # q
  <2>1. caller'[r] = caller[r] /\ future'[r] = future[r] /\ timer'[r] = timer[r]
    BY <1>1, <1>2 DEF PlainOK, CallerStep, Register, SendOnly, RecordRequest, SendRequest,
       SendThrows, FailUnsent, StartTimer, RecordTimer, Complete
  <2>2. /\ UNCHANGED <<handling, served, responses, overtaken, cleared>>
        /\ responseFutures' \in {responseFutures, responseFutures \cup {q}}
        /\ requestMap' \in {requestMap, requestMap \cup {q}}
        /\ scheduledMap' \in {scheduledMap, scheduledMap \cup {q}}
        /\ wire' \in {wire, wire \cup {q}}
    BY DEF CallerStep, Register, SendOnly, RecordRequest, SendRequest,
       SendThrows, FailUnsent, StartTimer, RecordTimer
  <2> QED BY <1>1, <1>2, <2>1, <2>2, Alone
<1>3. CASE r = q
  <2> USE <1>1, <1>3 DEF PlainOK, Good, Untouched, Delivered, Waiting, Taken, Owned, Watched,
                          Busy, Sent
  <2>1. CASE Register(r)
    BY <2>1 DEF Register
  <2>2. CASE SendOnly(r)
    BY <2>2 DEF SendOnly
  <2>3. CASE RecordRequest(r)
    BY <2>3 DEF RecordRequest
  <2>4. CASE SendRequest(r)
    BY <2>4 DEF SendRequest
  <2>5. CASE SendThrows(r)
    BY <2>5 DEF SendThrows
  <2>6. CASE FailUnsent(r)
    BY <2>6 DEF FailUnsent, Complete
  <2>7. CASE StartTimer(r)
    BY <2>7 DEF StartTimer
  <2>8. CASE RecordTimer(r)
    BY <2>8 DEF RecordTimer
  <2> QED BY <2>1, <2>2, <2>3, <2>4, <2>5, <2>6, <2>7, <2>8 DEF CallerStep
<1> QED BY <1>2, <1>3

\* Whoever takes the future of a request that has been sent.
LEMMA TakeGood ==
  ASSUME IInv, NEW q \in Request, NEW t \in Thread, NEW end \in Outcome,
         TakeFuture(q, t, end), Sent(q),
         end \in {"answer", "remoteError"} => served[q] = 1,
         UNCHANGED <<caller, future, requestMap, scheduledMap, wire, served, responses,
                     overtaken, cleared>>,
         NEW r \in Request, timer'[r] \in {timer[r], "fired"}, timer[r] = "off" => timer'[r] = "off"
  PROVE  Good(r)'
<1>1. PlainOK /\ Good(r)
  BY Shape DEF IInv
<1>2. CASE r # q \/ r \notin responseFutures
  <2>1. handling'[r] = handling[r] /\ (r \in responseFutures' <=> r \in responseFutures)
    BY <1>1, <1>2, TakeFacts
  <2> QED BY <1>1, <2>1 DEF Good, Untouched, Delivered, Waiting, Taken, Owned, Watched, Busy, Sent
<1>3. CASE r = q /\ r \in responseFutures
  <2>1. /\ handling'[r][t] = [at |-> "taken", with |-> end]
        /\ \A u \in Thread : u # t => handling'[r][u] = handling[r][u]
        /\ r \notin responseFutures'
    BY <1>1, <1>3, TakeFacts
  <2>2. handling'[r][t].at = "taken" /\ handling'[r][t].with = end
    BY <2>1
  <2>3. /\ \A u \in Thread : ~Busy(r, u)
        /\ r \in requestMap /\ responses[r] = 0 /\ future[r] \in {"pending", "unsent"}
    BY <1>1, <1>3 DEF Good, Waiting, Sent
  <2>4. Untouched(r)' /\ Delivered(r)' /\ Waiting(r)'
    BY <1>1, <1>3, <2>1 DEF Good, Untouched, Delivered, Waiting, Sent
  <2>5. Taken(r)'
    BY <1>1, <1>3, <2>1, <2>2, <2>3 DEF Good, Taken, Busy, Sent
  <2>6. Owned(r)'
    BY <1>1, <1>3, <2>1, <2>2, <2>3 DEF Good, Owned, Watched, Busy
  <2> QED BY <2>4, <2>5, <2>6 DEF Good
<1> QED BY <1>2, <1>3

\* A step of handResponse is about the one request whose future it holds.
LEMMA HandlerGood ==
  ASSUME IInv, NEW q \in Request, NEW t \in Thread, HandlerStep(q, t), NEW r \in Request
  PROVE  Good(r)'
<1> USE DEF maps, link, shut, past
<1>1. PlainOK /\ Good(r) /\ Good(q)
  BY Shape DEF IInv
<1>2. /\ UNCHANGED <<caller, responseFutures, wire, served, cleared>>
      /\ requestMap' \in {requestMap, requestMap \ {q}}
      /\ scheduledMap' \in {scheduledMap, scheduledMap \ {q}}
      /\ overtaken' \in {overtaken, overtaken \cup {q}}
  BY DEF HandlerStep, TakeRequest, CancelTimer, CompleteFuture
<1>3. CASE r # q
  <2>1. handling'[r] = handling[r]
    BY <1>1, <1>3, GoOnFacts, CompleteFacts DEF HandlerStep, TakeRequest, CancelTimer
  <2>2. future'[r] = future[r] /\ timer'[r] = timer[r] /\ responses'[r] = responses[r]
    BY <1>1, <1>3 DEF PlainOK, HandlerStep, TakeRequest, CancelTimer, Cancelled, CompleteFuture,
       Complete
  <2> QED BY <1>1, <1>2, <1>3, <2>1, <2>2, Alone
<1>4. CASE r = q
  <2>0. ASSUME Busy(r, t)
        PROVE  /\ \A u \in Thread : u # t => ~Busy(r, u)
               /\ Sent(r) /\ responses[r] = 0 /\ future[r] \in {"pending", "unsent"}
               /\ r \notin responseFutures
    BY <1>1, <2>0 DEF Good, Taken, Waiting
  <2>1. CASE TakeRequest(r, t)
    <3>1. /\ handling[r][t].at = "taken" /\ handling'[r][t].at = "recorded"
          /\ handling'[r][t].with = handling[r][t].with
          /\ \A u \in Thread : u # t => handling'[r][u] = handling[r][u]
      BY <1>1, <2>1, GoOnFacts DEF TakeRequest
    <3>2. UNCHANGED <<future, timer, responses, scheduledMap, overtaken>> /\ r \notin requestMap'
      BY <2>1 DEF TakeRequest
    <3>3. Untouched(r)' /\ Delivered(r)' /\ Waiting(r)'
      BY <1>1, <1>2, <2>0, <3>1, <3>2 DEF Good, Untouched, Delivered, Waiting, Busy, Sent
    <3>4. Taken(r)'
      BY <1>1, <1>2, <2>0, <3>1, <3>2 DEF Good, Taken, Busy, Sent
    <3>5. Owned(r)'
      BY <1>1, <1>2, <2>0, <3>1, <3>2 DEF Good, Owned, Watched, Busy
    <3> QED BY <3>3, <3>4, <3>5 DEF Good
  <2>2. CASE CancelTimer(r, t)
    <3>1. /\ handling[r][t].at = "recorded" /\ handling'[r][t].at = "cancelled"
          /\ handling'[r][t].with = handling[r][t].with
          /\ \A u \in Thread : u # t => handling'[r][u] = handling[r][u]
      BY <1>1, <2>2, GoOnFacts DEF CancelTimer
    <3>2. /\ UNCHANGED <<future, responses, requestMap>> /\ r \notin scheduledMap'
          /\ r \in overtaken' \/ r \in scheduledMap
          /\ timer'[r] = IF r \in scheduledMap /\ timer[r] = "armed" THEN "cancelled" ELSE timer[r]
      BY <1>1, <1>4, <2>2 DEF CancelTimer, Cancelled, PlainOK
    <3>3. Untouched(r)' /\ Delivered(r)' /\ Waiting(r)'
      BY <1>1, <1>2, <2>0, <3>1, <3>2 DEF Good, Untouched, Delivered, Waiting, Busy, Sent
    <3>4. Taken(r)'
      BY <1>1, <1>2, <2>0, <3>1, <3>2 DEF Good, Taken, Busy, Sent
    <3>5. Owned(r)'
      BY <1>1, <1>2, <2>0, <3>1, <3>2 DEF Good, Owned, Watched, Busy
    <3> QED BY <3>3, <3>4, <3>5 DEF Good
  <2>3. CASE CompleteFuture(r, t)
    <3>1. /\ handling[r][t].at = "cancelled" /\ handling'[r][t].at = "none"
          /\ handling'[r][t].with = "none"
          /\ \A u \in Thread : u # t => handling'[r][u] = handling[r][u]
      BY <1>1, <2>3, CompleteFacts DEF Idle
    <3>2. /\ UNCHANGED <<timer, requestMap, scheduledMap, overtaken>>
          /\ responses'[r] = responses[r] + 1
          /\ future'[r] \in {handling[r][t].with, future[r]}
          /\ future'[r] = "unsent" => future[r] = "unsent"
          /\ future'[r] # "none"
      <4>1. handling[r][t].with \in Outcome /\ Busy(r, t)
        BY <1>1, <2>3, <3>1, CompleteFacts DEF Busy
      <4>2. future'[r] = IF future[r] = "pending" THEN handling[r][t].with ELSE future[r]
        BY <1>1, <1>4, <2>3 DEF CompleteFuture, Complete, PlainOK
      <4>3. responses'[r] = responses[r] + 1
        BY <1>1, <1>4, <2>3 DEF CompleteFuture, PlainOK
      <4> QED BY <2>0, <2>3, <4>1, <4>2, <4>3 DEF CompleteFuture, Outcome
    <3>3. Untouched(r)' /\ Delivered(r)' /\ Waiting(r)'
      BY <1>1, <1>2, <2>0, <3>1, <3>2 DEF Good, Untouched, Delivered, Waiting, Busy, Sent
    <3>4. Taken(r)'
      BY <1>1, <1>2, <2>0, <3>1, <3>2 DEF Good, Taken, Busy, Sent
    <3>5. Owned(r)'
      BY <1>1, <1>2, <2>0, <3>1, <3>2 DEF Good, Owned, Watched, Busy
    <3> QED BY <3>3, <3>4, <3>5 DEF Good
  <2> QED BY <1>4, <2>1, <2>2, <2>3 DEF HandlerStep
<1> QED BY <1>3, <1>4

LEMMA OtherGood ==
  ASSUME IInv, \/ ReadResponse \/ Disconnect \/ Close \/ CloseStep
               \/ \E q \in Request : TimerFires(q) \/ HandRequest(q),
         NEW r \in Request
  PROVE  Good(r)'
<1> USE DEF maps, link, shut, past
<1>1. PlainOK /\ ShapeOK /\ Good(r)
  BY Shape DEF IInv
<1>2. CASE ReadResponse
  <2> DEFINE q == Head(inbound).id
             end == Head(inbound).with
  <2>1. q \in Request /\ served[q] # 0 /\ end \in Outcome
    BY <1>1, <1>2, HeadIsGenuine DEF ReadResponse, Outcome
  <2>2. TakeFuture(q, "loop", end) /\ Sent(q) /\ served[q] = 1
    BY <1>2, <2>1 DEF ReadResponse, IInv, Good, Delivered
  <2>3. UNCHANGED <<caller, future, requestMap, scheduledMap, timer, wire, served, responses,
                    overtaken, cleared>>
    BY <1>2 DEF ReadResponse
  <2> HIDE DEF q, end
  <2> QED BY <2>1, <2>2, <2>3, TakeGood DEF Thread
<1>3. ASSUME NEW q \in Request, TimerFires(q) PROVE Good(r)'
  <2>1. Sent(q)
    BY <1>1, <1>3 DEF TimerFires, IInv, Good, Owned, Sent
  <2>2. timer'[r] \in {timer[r], "fired"} /\ (timer[r] = "off" => timer'[r] = "off")
    BY <1>1, <1>3 DEF TimerFires, PlainOK
  <2>3. /\ TakeFuture(q, "timer", "timeout") /\ "timeout" \in Outcome /\ "timer" \in Thread
        /\ UNCHANGED <<caller, future, requestMap, scheduledMap, wire, served, responses,
                       overtaken, cleared>>
    BY <1>3 DEF TimerFires, Outcome, Thread
  <2> QED BY <2>1, <2>2, <2>3, TakeGood
<1>4. ASSUME NEW q \in Request, HandRequest(q) PROVE Good(r)'
  <2>1. /\ UNCHANGED <<caller, future, maps, timer, handling, responses, overtaken, cleared>>
        /\ q \in wire /\ wire' = wire \ {q} /\ served' = [served EXCEPT ![q] = @ + 1]
    BY <1>4 DEF HandRequest
  <2>2. CASE r # q
    BY <1>1, <2>1, <2>2, Alone DEF PlainOK
  <2>3. CASE r = q
    <3>1. served[r] = 0 /\ served'[r] = 1 /\ Sent(r) /\ r \notin wire'
      BY <1>1, <2>1, <2>3 DEF Good, Delivered, PlainOK
    <3>2. /\ \A t \in Thread : handling[r][t].with \notin {"answer", "remoteError"}
          /\ Delivered(r)'
      BY <1>1, <2>1, <3>1 DEF Good, Taken, Delivered, Sent
    <3> QED BY <1>1, <2>1, <3>1, <3>2
            DEF Good, Untouched, Waiting, Taken, Owned, Watched, Busy, Sent
  <2> QED BY <2>2, <2>3
<1>5. CASE Disconnect \/ Close
  BY <1>1, <1>5, Alone DEF Disconnect, Close
<1>6. CASE CloseStep
  <2>1. CASE Closed
    BY <1>1, <2>1, Alone DEF Closed
  <2>2. ASSUME NEW q \in Request, ClearFuture(q) PROVE Good(r)'
    BY <1>1, <2>2 DEF ClearFuture, Good, Untouched, Delivered, Waiting, Taken, Owned, Watched,
       Busy, Sent
  <2> QED BY <1>6, <2>1, <2>2 DEF CloseStep
<1> QED BY <1>2, <1>3, <1>4, <1>5, <1>6

LEMMA InvariantStep == IInv /\ [Next]_vars => IInv'
<1> SUFFICES ASSUME IInv, [Next]_vars PROVE IInv'
  OBVIOUS
<1>1. ShapeOK'
  BY ShapeStep DEF IInv
<1>2. ASSUME NEW r \in Request PROVE Good(r)'
  <2>1. CASE UNCHANGED vars
    BY <2>1, Alone DEF vars, maps, link, shut, past, IInv
  <2> QED BY <2>1, CallerGood, HandlerGood, OtherGood DEF Next
<1> QED BY <1>1, <1>2 DEF IInv

LEMMA Invariant == Spec => []IInv
  BY InvariantInit, InvariantStep, PTL DEF Spec
-----------------------------------------------------------------------------
(* The theorems.                                                            *)

\* The maps, futures, timers and messages of a connection keep their types.
THEOREM Typing == Spec => []TypeOK
<1>1. IInv => TypeOK
  BY DEF IInv, ShapeOK
<1> QED BY <1>1, Invariant, PTL

\* handResponse always finds the RequestInfo it dereferences.
THEOREM InfoSafety == Spec => []InfoIsThere
<1>1. IInv => InfoIsThere
  BY DEF IInv, Good, Taken, InfoIsThere
<1> QED BY <1>1, Invariant, PTL

\* What outlives a finished request: in requestMap one that could not be
\* written or that close() cut off, in scheduledMap one that close() cut off
\* or whose timer was cancelled before it was recorded.
THEOREM LeftBehindSafety == Spec => []NothingLeftBehind
<1>1. IInv => NothingLeftBehind
  <2> SUFFICES ASSUME IInv, NEW r \in Request
               PROVE  /\ Finished(r) /\ r \in requestMap => future[r] = "unsent" \/ r \in cleared
                      /\ Finished(r) /\ r \in scheduledMap => r \in overtaken \cup cleared
                      /\ caller[r] = "done" /\ timer[r] = "armed" => r \in scheduledMap
    BY DEF NothingLeftBehind
  <2>1. Good(r)
    BY DEF IInv
  <2>2. ASSUME Finished(r)
        PROVE  \A t \in Thread : handling[r][t].at = "none"
    BY <2>2 DEF Finished, Idle
  <2>3. Finished(r) /\ r \in responseFutures => future[r] = "unsent" /\ r \notin scheduledMap
    BY <2>1 DEF Good, Waiting, Owned, Finished
  <2> QED BY <2>1, <2>2, <2>3 DEF Good, Waiting, Owned, Watched
<1> QED BY <1>1, Invariant, PTL

LEMMA ReplyStep == IInv /\ [Next]_vars => [Reply!Next]_Reply!vars
<1> SUFFICES ASSUME IInv, [Next]_vars PROVE [Reply!Next]_Reply!vars
  OBVIOUS
<1> USE DEF maps, link, shut, past, Reply!vars
<1>1. PlainOK
  BY Shape DEF IInv
<1>2. ASSUME NEW r \in Request, Register(r) PROVE [Reply!Next]_Reply!vars
  <2>1. Reply!Call(r)
    BY <1>2 DEF Register, Move, IInv, Good, Untouched, Delivered, Sent, Reply!Call
  <2> QED BY <2>1 DEF Reply!Next
<1>3. ASSUME NEW r \in Request, HandRequest(r) PROVE [Reply!Next]_Reply!vars
  <2>1. served[r] = 0
    BY <1>3 DEF HandRequest, IInv, Good, Delivered
  <2>2. Reply!Serve(r)
    BY <1>3, <2>1 DEF HandRequest, Reply!Serve
  <2> QED BY <2>2 DEF Reply!Next
<1>4. ASSUME NEW r \in Request, FailUnsent(r) PROVE [Reply!Next]_Reply!vars
  <2>1. CASE future[r] = "pending"
    <3>1. Reply!Fail(r)
      BY <1>4, <2>1 DEF FailUnsent, Complete, Reply!Fail
    <3> QED BY <3>1 DEF Reply!Next
  <2>2. CASE future[r] # "pending"
    BY <1>1, <1>4, <2>2 DEF FailUnsent, Complete, PlainOK
  <2> QED BY <2>1, <2>2
<1>5. ASSUME NEW r \in Request, NEW t \in Thread, CompleteFuture(r, t)
      PROVE  [Reply!Next]_Reply!vars
  <2> DEFINE end == handling[r][t].with
  <2>1. handling[r][t].at = "cancelled" /\ end \in Outcome
    BY <1>1, <1>5, CompleteFacts
  <2>2. /\ responses[r] = 0 /\ future[r] \in {"pending", "unsent"}
        /\ end \in {"answer", "remoteError"} => served[r] = 1
    BY <2>1 DEF IInv, Good, Taken, Busy
  <2>3. end \in Reply!Response(r)
    BY <2>1, <2>2 DEF Outcome, Reply!Response
  <2>4. /\ responses' = [responses EXCEPT ![r] = 1] /\ UNCHANGED served
        /\ future' = [future EXCEPT ![r] = IF @ = "pending" THEN end ELSE @]
    BY <1>5, <2>2 DEF CompleteFuture, Complete
  <2> HIDE DEF end
  <2>5. Reply!Respond(r)
    BY <2>2, <2>3, <2>4 DEF Reply!Respond
  <2> QED BY <2>5 DEF Reply!Next
<1>6. ASSUME NEW r \in Request,
             \/ SendOnly(r) \/ RecordRequest(r) \/ SendRequest(r) \/ SendThrows(r)
             \/ StartTimer(r) \/ RecordTimer(r) \/ TimerFires(r)
             \/ \E t \in Thread : TakeRequest(r, t) \/ CancelTimer(r, t)
      PROVE  UNCHANGED <<future, served, responses>>
  BY <1>6 DEF SendOnly, RecordRequest, SendRequest, SendThrows, StartTimer, RecordTimer,
     TimerFires, TakeRequest, CancelTimer
<1>7. CASE ReadResponse \/ Disconnect \/ Close \/ CloseStep \/ UNCHANGED vars
  BY <1>7 DEF ReadResponse, Disconnect, Close, CloseStep, Closed, ClearFuture, vars
<1> QED
  BY <1>2, <1>3, <1>4, <1>5, <1>6, <1>7 DEF Next, CallerStep, HandlerStep

\* To its callers a connection is RequestReply: only one of the threads that
\* come with a response hands it to the future, a request is carried out at
\* most once, and an answer only answers a request that was carried out.
THEOREM Refinement == Spec => ImplementsRequestReply
<1>1. Init => Reply!Init
  BY DEF Init, Reply!Init
<1> QED BY <1>1, Invariant, ReplyStep, PTL DEF Spec, ImplementsRequestReply, Reply!Spec
=============================================================================
