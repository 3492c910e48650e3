--------------------------- MODULE GossiperProofs ---------------------------
(***************************************************************************)
(* For any messages and limits of the queue: of the messages about a node  *)
(* the newest stands, only it has transmissions to come, and who has left  *)
(* the queue has been told.                                                *)
(***************************************************************************)
EXTENDS Gossiper, SequenceTheorems, TLAPS

Busy(m)       == caller[m] \in InMonitor
Registered(m) == caller[m] \in {"putting", "waking", "done", "interrupted"}
Accepted(m)   == caller[m] \in {"waking", "done"}

\* The types; the bound on finished needs Counted below.
PlainOK ==
  /\ caller \in [Message -> InMonitor \cup Free \cup {"putting", "waking"}]
  /\ rest \subseteq Message /\ hit \in Message \cup {NoMessage}
  /\ entries \in [Nodes -> SUBSET Message]
  /\ gossiping \in BOOLEAN
  /\ thread \in {"choosing", "taking", "judging", "ending", "ended"}
  /\ next \in Message \cup {NoMessage} /\ current \in Message \cup {NoMessage}
  /\ taken \in 0 .. MaxCount
  /\ invalid \in [Message -> BOOLEAN]
  /\ transmits \in [Message -> 0 .. MaxTransmit + 1]
  /\ finished \in [Message -> Nat]
  /\ latest \in [Nodes -> Message \cup {NoMessage}]

\* A message is put once.
QueueOK ==
  /\ queue \in Seq(Message) /\ Len(queue) <= Capacity
  /\ \A i, j \in DOMAIN queue : queue[i] = queue[j] => i = j
  /\ \A i \in DOMAIN queue : Accepted(queue[i])

\* One GossipThread; what it holds has not left the queue.
ThreadOK ==
  /\ gossiping <=> thread # "ended"
  /\ next # NoMessage => Queued(next)
  /\ thread = "judging" =>
       current \in Message /\ Queued(current) /\ current # next /\ taken < MaxCount

\* One caller in the monitor, one inside gossip() for each node.
MonitorOK ==
  /\ \A x, y \in Message : Busy(x) /\ Busy(y) => x = y
  /\ \A x, y \in Message :
       NodeOf[x] = NodeOf[y] /\ x # y /\ caller[x] \notin Free
       => caller[y] \in Free

\* The older messages the caller in the monitor works on.
ScanOK ==
  /\ \A e \in rest : Registered(e) /\ \E m \in Message : Busy(m) /\ NodeOf[m] = NodeOf[e]
  /\ hit # NoMessage =>
       /\ Registered(hit)
       /\ \E m \in Message : /\ caller[m] \in {"finishing", "invalidating"}
                             /\ NodeOf[m] = NodeOf[hit]
  /\ \A m \in Message :
       /\ caller[m] \in {"finishing", "invalidating"} => hit \in Message
       /\ caller[m] = "finishing" => ~invalid[hit]
       /\ caller[m] = "invalidating" => finished[hit] > 0

NodesOK ==
  \A n \in Nodes :
    /\ \A e \in entries[n] : NodeOf[e] = n /\ Registered(e)
    /\ latest[n] # NoMessage => NodeOf[latest[n]] = n /\ Registered(latest[n])

\* An older message is over, or the caller in the monitor will come to it.
OlderOver ==
  \A x \in Message :
    Registered(x) /\ ~Over(x) =>
      /\ x \in entries[NodeOf[x]]
      /\ \/ x \in rest \/ x = hit
         \/ ~Registering(NodeOf[x]) /\ x = latest[NodeOf[x]]

InvalidOK ==
  \A m \in Message :
    invalid[m] => /\ Registered(m) /\ finished[m] > 0
                  /\ Registering(NodeOf[m]) \/ m # latest[NodeOf[m]]

GoneOK ==
  \A m \in Message :
    Accepted(m) /\ ~Queued(m) =>
      finished[m] > 0 /\ (invalid[m] \/ transmits[m] > MaxTransmit)

\* Who may have finished m: the GossipThread that drops it, a caller that
\* invalidates it.
Dropped(m) == Accepted(m) /\ ~Queued(m)
Cut(m)     == invalid[m] \/ (hit = m /\ \E x \in Message : caller[x] = "invalidating")
Counted ==
  \A m \in Message :
    finished[m] <= (IF Dropped(m) THEN 1 ELSE 0) + (IF Cut(m) THEN 1 ELSE 0)

IInv ==
  /\ PlainOK /\ QueueOK /\ ThreadOK /\ MonitorOK /\ ScanOK
  /\ NodesOK /\ OlderOver /\ InvalidOK /\ GoneOK /\ Counted
-----------------------------------------------------------------------------
(* The queue.                                                               *)

LEMMA RemoveFacts ==
  ASSUME NEW S, NEW q \in Seq(S), NEW i \in 1 .. Len(q)
  PROVE  /\ RemoveAt(q, i) \in Seq(S) /\ Len(RemoveAt(q, i)) = Len(q) - 1
         /\ \A j \in 1 .. Len(q) - 1 :
              RemoveAt(q, i)[j] = IF j < i THEN q[j] ELSE q[j + 1]
<1> DEFINE a == SubSeq(q, 1, i - 1)
           b == SubSeq(q, i + 1, Len(q))
<1>1. /\ a \in Seq(S) /\ Len(a) = i - 1
      /\ \A j \in 1 .. i - 1 : a[j] = q[j]
  BY SubSeqProperties
<1>2. /\ b \in Seq(S) /\ Len(b) = Len(q) - i
      /\ \A j \in 1 .. Len(q) - i : b[j] = q[j + i]
  BY SubSeqProperties
<1>3. RemoveAt(q, i) = a \o b
  BY DEF RemoveAt
<1>0. Len(q) \in Nat /\ i \in Nat /\ i >= 1 /\ i <= Len(q)
  BY LenProperties
<1> HIDE DEF a, b
<1>4. a \o b \in Seq(S) /\ Len(a \o b) = Len(q) - 1
  <2>1. a \in Seq(S) /\ b \in Seq(S)
    BY <1>1, <1>2
  <2>2. a \o b \in Seq(S) /\ Len(a \o b) = Len(a) + Len(b)
    BY <2>1, ConcatProperties
  <2> QED BY <1>0, <1>1, <1>2, <2>2
<1>5. ASSUME NEW j \in 1 .. Len(q) - 1
      PROVE  (a \o b)[j] = IF j < i THEN q[j] ELSE q[j + 1]
  <2>1. (a \o b)[j] = IF j <= Len(a) THEN a[j] ELSE b[j - Len(a)]
    <3>1. j \in 1 .. Len(a) + Len(b)
      BY <1>0, <1>1, <1>2
    <3> QED BY <1>1, <1>2, <3>1, ConcatProperties
  <2>2. CASE j < i
    BY <1>0, <1>1, <2>1, <2>2
  <2>3. CASE ~(j < i)
    BY <1>0, <1>1, <1>2, <2>1, <2>3
  <2> QED BY <2>2, <2>3
<1> QED BY <1>3, <1>4, <1>5

LEMMA PositionFacts ==
  ASSUME QueueOK, NEW m, Queued(m)
  PROVE  /\ Position(m) \in 1 .. Len(queue) /\ queue[Position(m)] = m
         /\ Len(queue) \in Nat /\ DOMAIN queue = 1 .. Len(queue)
<1>1. Len(queue) \in Nat /\ DOMAIN queue = 1 .. Len(queue)
  BY LenProperties DEF QueueOK
<1>2. \E i \in DOMAIN queue : queue[i] = m
  BY DEF Queued, ToSet
<1> QED BY <1>1, <1>2 DEF Position

LEMMA AfterFacts ==
  ASSUME QueueOK, NEW m, Queued(m)
  PROVE  /\ After(m) \in Message \cup {NoMessage}
         /\ After(m) # NoMessage => Queued(After(m)) /\ After(m) # m
<1> DEFINE p == Position(m)
<1>1. p \in 1 .. Len(queue) /\ queue[p] = m /\ Len(queue) \in Nat /\ DOMAIN queue = 1 .. Len(queue)
  BY PositionFacts
<1> HIDE DEF p
<1>2. CASE p < Len(queue)
  <2>1. p + 1 \in DOMAIN queue /\ After(m) = queue[p + 1] /\ p \in DOMAIN queue /\ p + 1 # p
    BY <1>1, <1>2 DEF After, p
  <2>2. queue[p + 1] \in Message /\ Queued(queue[p + 1])
    BY <2>1, ElementOfSeq, <1>1 DEF QueueOK, Queued, ToSet
  <2> QED BY <1>1, <2>1, <2>2 DEF QueueOK
<1>3. CASE ~(p < Len(queue))
  BY <1>3 DEF After, p
<1> QED BY <1>2, <1>3

LEMMA DropFacts ==
  ASSUME QueueOK, NEW m, Queued(m), Drop(m), caller' = caller
  PROVE  /\ QueueOK'
         /\ \A x : Queued(x)' <=> Queued(x) /\ x # m
<1> DEFINE p == Position(m)
           n == Len(queue)
           from(j) == IF j < p THEN j ELSE j + 1
<1>1. /\ queue \in Seq(Message) /\ n \in Nat /\ p \in 1 .. n /\ queue[p] = m
      /\ DOMAIN queue = 1 .. n
  BY PositionFacts DEF QueueOK
<1>2. /\ queue' \in Seq(Message) /\ Len(queue') = n - 1
      /\ \A j \in 1 .. n - 1 : queue'[j] = queue[from(j)]
  BY <1>1, RemoveFacts DEF Drop
<1>3. DOMAIN queue' = 1 .. n - 1
  BY <1>2, LenProperties
<1>4. \A j \in 1 .. n - 1 : from(j) \in 1 .. n /\ from(j) # p
  BY <1>1
<1>5. \A i, j \in 1 .. n - 1 : from(i) = from(j) => i = j
  BY <1>1
<1>6. \A k \in 1 .. n : k # p => \E j \in 1 .. n - 1 : from(j) = k
  <2> SUFFICES ASSUME NEW k \in 1 .. n, k # p
               PROVE  \E j \in 1 .. n - 1 : from(j) = k
    OBVIOUS
  <2>1. CASE k < p
    BY <1>1, <2>1
  <2>2. CASE k > p
    <3>1. k - 1 \in 1 .. n - 1 /\ from(k - 1) = k
      BY <1>1, <2>2
    <3> QED BY <3>1
  <2> QED BY <1>1, <2>1, <2>2
<1> HIDE DEF p, n, from
<1>7. QueueOK'
  <2>1. \A i, j \in DOMAIN queue' : queue'[i] = queue'[j] => i = j
    BY <1>1, <1>2, <1>3, <1>4, <1>5 DEF QueueOK
  <2>2. \A i \in DOMAIN queue' : Accepted(queue[i])'
    BY <1>1, <1>2, <1>3, <1>4 DEF QueueOK, Accepted
  <2>3. Len(queue') <= Capacity
    BY <1>1, <1>2, ConfigAssumption DEF QueueOK, n
  <2> QED BY <1>2, <2>1, <2>2, <2>3 DEF QueueOK
<1>8. ASSUME NEW x, Queued(x)' PROVE Queued(x) /\ x # m
  <2>1. PICK j \in 1 .. n - 1 : queue'[j] = x
    BY <1>3, <1>8 DEF Queued, ToSet
  <2>2. from(j) \in DOMAIN queue /\ queue[from(j)] = x /\ from(j) # p
    BY <1>1, <1>2, <1>4, <2>1
  <2> QED BY <1>1, <2>2 DEF Queued, ToSet, QueueOK
<1>9. ASSUME NEW x, Queued(x), x # m PROVE Queued(x)'
  <2>1. PICK k \in 1 .. n : queue[k] = x /\ k # p
    BY <1>1, <1>9 DEF Queued, ToSet
  <2>2. PICK j \in 1 .. n - 1 : from(j) = k
    BY <1>6, <2>1
  <2> QED BY <1>2, <1>3, <2>1, <2>2 DEF Queued, ToSet
<1> QED BY <1>7, <1>8, <1>9
-----------------------------------------------------------------------------

LEMMA Numbers ==
  /\ MaxTransmit \in Nat /\ MaxCount \in Nat /\ MaxCount > 0
  /\ Capacity \in Nat /\ NoMessage \notin Message
  /\ \A m \in Message : NodeOf[m] \in Nodes
  BY MessageAssumption, ConfigAssumption DEF Nodes

LEMMA InvariantInit == Init => IInv
<1> SUFFICES ASSUME Init PROVE IInv
  OBVIOUS
<1>1. Len(queue) = 0 /\ queue \in Seq(Message) /\ DOMAIN queue = {}
  BY EmptySeq, LenProperties DEF Init
<1>2. QueueOK
  BY <1>1, Numbers DEF QueueOK
<1>6. PlainOK
  <2>1. caller \in [Message -> InMonitor \cup Free \cup {"putting", "waking"}]
    BY DEF Init, Free
  <2>2. 0 \in 0 .. MaxCount /\ 0 \in 0 .. MaxTransmit + 1
    BY Numbers
  <2>3. /\ transmits \in [Message -> 0 .. MaxTransmit + 1]
        /\ finished \in [Message -> Nat]
        /\ invalid \in [Message -> BOOLEAN]
    BY <2>2 DEF Init
  <2>4. entries \in [Nodes -> SUBSET Message] /\ latest \in [Nodes -> Message \cup {NoMessage}]
    BY DEF Init
  <2> QED BY <2>1, <2>2, <2>3, <2>4 DEF Init, PlainOK
<1>3. ThreadOK /\ MonitorOK /\ ScanOK
  BY DEF Init, ThreadOK, MonitorOK, ScanOK, Busy, InMonitor, Free
<1>4. NodesOK /\ OlderOver /\ InvalidOK /\ GoneOK
  BY DEF Init, NodesOK, OlderOver, InvalidOK, GoneOK, Registered, Accepted
<1>5. Counted
  BY DEF Init, Counted, Dropped, Cut, Accepted
<1> QED BY <1>2, <1>3, <1>4, <1>5, <1>6 DEF IInv
-----------------------------------------------------------------------------
(* The GossipThread.                                                        *)

\* What the callers rely on: a message once over stays over.
LEMMA ThreadKeeps ==
  ASSUME IInv, UNCHANGED callerVars, UNCHANGED invalid,
         \A x \in Message : transmits'[x] >= transmits[x] /\ finished'[x] >= finished[x],
         PlainOK', QueueOK', ThreadOK', GoneOK', Counted'
  PROVE  IInv'
<1>0. UNCHANGED <<caller, rest, hit, entries, latest>>
  BY DEF callerVars
<1>1. \A x \in Message : /\ transmits[x] \in Nat /\ transmits'[x] \in Nat
                         /\ finished[x] \in Nat /\ finished'[x] \in Nat
  BY Numbers DEF IInv, PlainOK
<1>2. \A x \in Message : Over(x) => Over(x)'
  BY <1>1, Numbers DEF Over
<1>3. MonitorOK'
  BY <1>0 DEF IInv, MonitorOK, Busy
<1>4. ScanOK'
  <2>1. hit # NoMessage => hit \in Message
    BY DEF IInv, PlainOK
  <2>2. \A m \in Message :
          /\ caller'[m] \in {"finishing", "invalidating"} => hit' \in Message
          /\ caller'[m] = "finishing" => ~invalid'[hit']
          /\ caller'[m] = "invalidating" => finished'[hit'] > 0
    BY <1>0, <1>1 DEF IInv, ScanOK
  <2> QED BY <1>0, <2>2 DEF IInv, ScanOK, Busy, Registered
<1>5. NodesOK'
  BY <1>0 DEF IInv, NodesOK, Registered
<1>6. OlderOver'
  BY <1>0, <1>2 DEF IInv, OlderOver, Registered, Registering
<1>7. InvalidOK'
  BY <1>0, <1>1 DEF IInv, InvalidOK, Registered, Registering
<1> QED BY <1>3, <1>4, <1>5, <1>6, <1>7 DEF IInv

LEMMA ChooseNodesStep ==
  ASSUME IInv, ChooseNodes
  PROVE  IInv'
<1>1. UNCHANGED <<callerVars, current, queue, gossiping, invalid, transmits, finished>>
  BY DEF ChooseNodes
<1>0. UNCHANGED <<caller, rest, hit, entries, latest>>
  BY <1>1 DEF callerVars
<1>2. next' \in Message \cup {NoMessage} /\ (next' # NoMessage => Queued(next'))
  <2>1. queue # <<>> => Head(queue) \in Message /\ Queued(Head(queue))
    <3> SUFFICES ASSUME queue # <<>> PROVE Head(queue) \in Message /\ Queued(Head(queue))
      OBVIOUS
    <3>1. queue \in Seq(Message) /\ Len(queue) \in Nat \ {0} /\ DOMAIN queue = 1 .. Len(queue)
      BY EmptySeq, LenProperties DEF IInv, QueueOK
    <3>2. Head(queue) = queue[1] /\ 1 \in DOMAIN queue
      BY <3>1, HeadTailProperties
    <3> QED BY <3>1, <3>2, ElementOfSeq DEF Queued, ToSet
  <2> QED BY <2>1 DEF ChooseNodes
<1>3. PlainOK'
  BY <1>0, <1>1, <1>2, Numbers DEF ChooseNodes, ThreadAt, IInv, PlainOK
<1>4. ThreadOK' /\ QueueOK' /\ GoneOK' /\ Counted'
  <2>1. thread = "choosing" /\ thread' \in {"taking", "ending"}
    BY DEF ChooseNodes, ThreadAt
  <2>2. ThreadOK'
    BY <1>1, <1>2, <2>1 DEF IInv, ThreadOK, Queued
  <2>3. QueueOK'
    BY <1>0, <1>1 DEF IInv, QueueOK, Accepted
  <2>4. GoneOK'
    BY <1>0, <1>1 DEF IInv, GoneOK, Accepted, Queued
  <2>5. Counted'
    BY <1>0, <1>1 DEF IInv, Counted, Dropped, Cut, Accepted, Queued
  <2> QED BY <2>2, <2>3, <2>4, <2>5
<1>5. \A x \in Message : transmits'[x] >= transmits[x] /\ finished'[x] >= finished[x]
  BY <1>1, Numbers DEF IInv, PlainOK
<1> QED BY <1>1, <1>3, <1>4, <1>5, ThreadKeeps

\* Dropping a message that is over in both senses.
LEMMA GoneAfterDrop ==
  ASSUME IInv, NEW m \in Message, Queued(m), Drop(m), UNCHANGED <<callerVars, invalid>>,
         PlainOK',
         \A x \in Message : transmits'[x] = transmits[x] /\ finished'[x] >= finished[x],
         \A x \in Message \ {m} : finished'[x] = finished[x],
         finished'[m] <= finished[m] + 1,
         finished'[m] > 0 /\ (invalid[m] \/ transmits[m] > MaxTransmit)
  PROVE  QueueOK' /\ GoneOK' /\ Counted' /\ \A x : Queued(x)' <=> Queued(x) /\ x # m
<1>0. UNCHANGED <<caller, rest, hit, entries, latest, invalid>>
  BY DEF callerVars
<1>1. QueueOK' /\ \A x : Queued(x)' <=> Queued(x) /\ x # m
  BY <1>0, DropFacts DEF IInv
<1>2. GoneOK'
  BY <1>0, <1>1 DEF IInv, GoneOK, Accepted
<1>3. Counted'
  <2> SUFFICES ASSUME NEW x \in Message
               PROVE  finished'[x] <= (IF Dropped(x)' THEN 1 ELSE 0) + (IF Cut(x)' THEN 1 ELSE 0)
    BY DEF Counted
  <2>1. finished[x] \in Nat /\ finished'[x] \in Nat
    BY DEF IInv, PlainOK
  <2>2. finished[x] <= (IF Dropped(x) THEN 1 ELSE 0) + (IF Cut(x) THEN 1 ELSE 0)
    BY DEF IInv, Counted
  <2>3. Cut(x)' <=> Cut(x)
    BY <1>0 DEF Cut
  <2>4. CASE x = m
    <3>1. Accepted(m)
      BY DEF IInv, QueueOK, Queued, ToSet
    <3>2. ~Dropped(m) /\ Dropped(m)'
      BY <1>0, <1>1, <3>1 DEF Dropped, Accepted
    <3> QED BY <2>1, <2>2, <2>3, <2>4, <3>2
  <2>5. CASE x # m
    <3>1. Dropped(x)' <=> Dropped(x)
      BY <1>0, <1>1, <2>5 DEF Dropped, Accepted
    <3> QED BY <2>1, <2>2, <2>3, <2>5, <3>1
  <2> QED BY <2>4, <2>5
<1> QED BY <1>1, <1>2, <1>3
LEMMA TakeStep ==
  ASSUME IInv, Take
  PROVE  IInv'
<1>1. /\ UNCHANGED <<callerVars, taken, gossiping, invalid, transmits, finished>>
      /\ thread = "taking" /\ taken < MaxCount /\ next # NoMessage /\ next' = After(next)
  BY DEF Take
<1>2. UNCHANGED <<caller, rest, hit, entries, latest>>
  BY <1>1 DEF callerVars
<1>3. Queued(next) /\ next \in Message
  BY <1>1 DEF IInv, ThreadOK, PlainOK
<1>4. /\ After(next) \in Message \cup {NoMessage}
      /\ After(next) # NoMessage => Queued(After(next)) /\ After(next) # next
  BY <1>3, AfterFacts DEF IInv
<1>5. PlainOK'
  <2>1. current' \in Message \cup {NoMessage} /\ thread' \in {"taking", "judging"}
    BY <1>1, <1>3 DEF Take, ThreadAt, IInv, PlainOK
  <2> QED BY <1>1, <1>2, <1>4, <2>1 DEF IInv, PlainOK
<1>6. \A x \in Message : transmits'[x] = transmits[x] /\ finished'[x] = finished[x]
  BY <1>1
<1>7. \A x \in Message : transmits[x] \in Nat /\ finished[x] \in Nat
  BY Numbers DEF IInv, PlainOK
<1>8. CASE invalid[next]
  <2>1. Drop(next) /\ UNCHANGED <<thread, current>>
    BY <1>8 DEF Take
  <2>2. finished[next] > 0
    BY <1>3, <1>8 DEF IInv, InvalidOK
  <2>3. QueueOK' /\ GoneOK' /\ Counted' /\ \A x : Queued(x)' <=> Queued(x) /\ x # next
    BY <1>1, <1>3, <1>5, <1>6, <1>7, <1>8, <2>1, <2>2, GoneAfterDrop
  <2>4. next' # NoMessage => Queued(next)'
    <3>1. \A x : Queued(x)' <=> x \in ToSet(queue')
      BY DEF Queued
    <3>2. Queued(next)' <=> next' \in ToSet(queue')
      BY DEF Queued
    <3> QED BY <1>1, <1>4, <2>3, <3>1, <3>2
  <2>5. ThreadOK'
    BY <1>1, <2>1, <2>4 DEF IInv, ThreadOK
  <2> QED BY <1>1, <1>5, <1>6, <1>7, <2>3, <2>5, ThreadKeeps
<1>9. CASE ~invalid[next]
  <2>1. current' = next /\ thread' = "judging" /\ UNCHANGED queue
    BY <1>9 DEF Take, ThreadAt
  <2>2. ThreadOK'
    BY <1>1, <1>3, <1>4, <2>1 DEF IInv, ThreadOK, Queued
  <2>3. QueueOK' /\ GoneOK' /\ Counted'
    BY <1>1, <1>2, <2>1
    DEF IInv, QueueOK, GoneOK, Counted, Dropped, Cut, Accepted, Queued
  <2> QED BY <1>1, <1>5, <1>6, <1>7, <2>2, <2>3, ThreadKeeps
<1> QED BY <1>8, <1>9

LEMMA JudgeStep ==
  ASSUME IInv, Judge
  PROVE  IInv'
<1>1. /\ UNCHANGED <<callerVars, next, gossiping, invalid>>
      /\ thread = "judging" /\ thread' = "taking" /\ current' = NoMessage
  BY DEF Judge, ThreadAt
<1>2. UNCHANGED <<caller, rest, hit, entries, latest>>
  BY <1>1 DEF callerVars
<1>3. current \in Message /\ Queued(current) /\ current # next /\ taken < MaxCount
  BY <1>1 DEF IInv, ThreadOK
<1>4. /\ \A x \in Message : transmits[x] \in 0 .. MaxTransmit + 1 /\ finished[x] \in Nat
      /\ transmits \in [Message -> 0 .. MaxTransmit + 1] /\ finished \in [Message -> Nat]
      /\ taken \in 0 .. MaxCount
  BY DEF IInv, PlainOK
<1>5. CASE transmits[current] > MaxTransmit
  <2>1. /\ finished' = [finished EXCEPT ![current] = @ + 1]
        /\ Drop(current) /\ UNCHANGED <<transmits, taken>>
    BY <1>5 DEF Judge
  <2>2. /\ finished' \in [Message -> Nat] /\ finished'[current] = finished[current] + 1
        /\ \A x \in Message \ {current} : finished'[x] = finished[x]
    BY <1>3, <1>4, <2>1
  <2>3. PlainOK'
    BY <1>1, <1>2, <2>1, <2>2 DEF IInv, PlainOK
  <2>4. \A x \in Message : finished'[x] >= finished[x]
    BY <1>4, <2>2
  <2>5. finished'[current] > 0 /\ finished'[current] <= finished[current] + 1
    BY <1>3, <1>4, <2>2
  <2>6. QueueOK' /\ GoneOK' /\ Counted' /\ \A x : Queued(x)' <=> Queued(x) /\ x # current
    BY <1>1, <1>3, <1>5, <2>1, <2>2, <2>3, <2>4, <2>5, GoneAfterDrop
  <2>7. next' # NoMessage => Queued(next)'
    <3>1. next # NoMessage => next \in ToSet(queue')
      BY <1>3, <2>6 DEF IInv, ThreadOK, Queued
    <3> QED BY <1>1, <3>1 DEF Queued
  <2>8. ThreadOK'
    BY <1>1, <2>7 DEF IInv, ThreadOK
  <2>9. \A x \in Message : transmits'[x] >= transmits[x]
    BY <1>4, <2>1, Numbers
  <2> QED BY <1>1, <2>3, <2>4, <2>6, <2>8, <2>9, ThreadKeeps
<1>6. CASE ~(transmits[current] > MaxTransmit)
  <2>1. /\ transmits' = [transmits EXCEPT ![current] = @ + 1]
        /\ taken' = taken + 1 /\ UNCHANGED <<finished, queue>>
    BY <1>6 DEF Judge
  <2>2. transmits[current] + 1 \in 0 .. MaxTransmit + 1 /\ taken + 1 \in 0 .. MaxCount
    BY <1>3, <1>4, <1>6, Numbers
  <2>3. transmits' \in [Message -> 0 .. MaxTransmit + 1]
    BY <1>4, <2>1, <2>2
  <2>4. PlainOK'
    BY <1>1, <1>2, <2>1, <2>2, <2>3 DEF IInv, PlainOK
  <2>5. \A x \in Message : transmits'[x] >= transmits[x]
    BY <1>3, <1>4, <2>1, Numbers
  <2>6. ThreadOK'
    BY <1>1, <2>1 DEF IInv, ThreadOK, Queued
  <2>7. QueueOK' /\ Counted'
    BY <1>1, <1>2, <2>1
    DEF IInv, QueueOK, Counted, Dropped, Cut, Accepted, Queued
  <2>8. GoneOK'
    <3> SUFFICES ASSUME NEW m \in Message, Accepted(m)', ~Queued(m)'
                 PROVE  finished'[m] > 0 /\ (invalid'[m] \/ transmits'[m] > MaxTransmit)
      BY DEF GoneOK
    <3>1. finished[m] > 0 /\ (invalid[m] \/ transmits[m] > MaxTransmit)
      BY <1>2, <2>1 DEF IInv, GoneOK, Accepted, Queued
    <3> QED BY <1>1, <1>4, <2>1, <2>3, <2>5, <3>1, Numbers
  <2>9. \A x \in Message : finished'[x] >= finished[x]
    BY <1>4, <2>1
  <2> QED BY <1>1, <2>4, <2>5, <2>6, <2>7, <2>8, <2>9, ThreadKeeps
<1> QED BY <1>5, <1>6

\* What the steps do that only move the GossipThread.
LEMMA ThreadMoves ==
  ASSUME IInv, UNCHANGED <<callerVars, next, current, taken, queue, invalid, transmits, finished>>,
         thread' \in {"choosing", "ending", "ended"}, gossiping' \in BOOLEAN,
         gossiping' <=> thread' # "ended"
  PROVE  IInv'
<1>1. UNCHANGED <<caller, rest, hit, entries, latest>>
  BY DEF callerVars
<1>2. PlainOK'
  BY <1>1 DEF IInv, PlainOK
<1>3. ThreadOK'
  BY DEF IInv, ThreadOK, Queued
<1>4. QueueOK' /\ GoneOK' /\ Counted'
  BY <1>1 DEF IInv, QueueOK, GoneOK, Counted, Dropped, Cut, Accepted, Queued
<1>5. \A x \in Message : transmits'[x] >= transmits[x] /\ finished'[x] >= finished[x]
  BY Numbers DEF IInv, PlainOK
<1> QED BY <1>2, <1>3, <1>4, <1>5, ThreadKeeps

LEMMA ThreadStep ==
  ASSUME IInv, Thread
  PROVE  IInv'
<1>1. ASSUME EndRound PROVE IInv'
  <2>1. thread' \in {"choosing", "ending"} /\ UNCHANGED gossiping /\ thread = "taking"
    BY <1>1 DEF EndRound, ThreadAt
  <2>2. gossiping' \in BOOLEAN /\ (gossiping' <=> thread' # "ended")
    BY <2>1 DEF IInv, PlainOK, ThreadOK
  <2> QED BY <1>1, <2>1, <2>2, ThreadMoves DEF EndRound
<1>2. ASSUME EndThread PROVE IInv'
  BY <1>2, ThreadMoves DEF EndThread, ThreadAt
<1> QED BY <1>1, <1>2, ChooseNodesStep, TakeStep, JudgeStep DEF Thread
-----------------------------------------------------------------------------
(* The callers.                                                             *)

Step == InMonitor \cup Free \cup {"putting", "waking"}

LEMMA Moved ==
  ASSUME IInv, NEW m \in Message, NEW step \in Step, GoTo(m, step)
  PROVE  /\ caller' \in [Message -> Step] /\ caller'[m] = step
         /\ \A x \in Message : x # m => caller'[x] = caller[x]
BY DEF GoTo, IInv, PlainOK, Step

\* Who is in the monitor is alone there.
LEMMA Alone ==
  ASSUME IInv, NEW m \in Message, Busy(m)
  PROVE  /\ \A x \in Message : Busy(x) => x = m
         /\ \A e \in rest : NodeOf[e] = NodeOf[m]
         /\ hit # NoMessage => NodeOf[hit] = NodeOf[m] /\ caller[m] # "scanning"
         /\ \A n : Registering(n) <=> n = NodeOf[m]
<1>1. \A x \in Message : Busy(x) => x = m
  BY DEF IInv, MonitorOK
<1>2. \A e \in rest : NodeOf[e] = NodeOf[m]
  BY <1>1 DEF IInv, ScanOK
<1>3. hit # NoMessage => NodeOf[hit] = NodeOf[m] /\ caller[m] # "scanning"
  BY <1>1 DEF IInv, ScanOK, Busy, InMonitor, Free
<1>4. \A n : Registering(n) <=> n = NodeOf[m]
  BY <1>1 DEF Registering, Busy
<1> QED BY <1>1, <1>2, <1>3, <1>4

\* What does not depend on the caller's place in the monitor.
LEMMA MonitorKeeps ==
  ASSUME IInv, UNCHANGED <<threadVars, queue, gossiping, transmits>>,
         \A x \in Message : Registered(x) => Registered(x)',
         \A x \in Message : Accepted(x)' <=> Accepted(x),
         \A x \in Message : invalid[x] => invalid'[x],
         \A x \in Message : finished'[x] >= finished[x],
         finished' \in [Message -> Nat]
  PROVE  QueueOK' /\ ThreadOK' /\ GoneOK' /\ \A x \in Message : Dropped(x)' <=> Dropped(x)
<1>1. UNCHANGED <<thread, next, current, taken, queue, gossiping, transmits>>
  BY DEF threadVars
<1>2. QueueOK'
  <2>1. queue \in Seq(Message) /\ \A i \in DOMAIN queue : queue[i] \in Message
    BY ElementOfSeq, LenProperties DEF IInv, QueueOK
  <2>2. \A i \in DOMAIN queue : Accepted(queue[i])'
    BY <1>1, <2>1 DEF IInv, QueueOK, Accepted
  <2> QED BY <1>1, <2>2 DEF IInv, QueueOK, Accepted
<1>3. ThreadOK'
  BY <1>1 DEF IInv, ThreadOK, Queued
<1>4. \A x \in Message : Queued(x)' <=> Queued(x)
  BY <1>1 DEF Queued
<1>5. GoneOK'
  <2> SUFFICES ASSUME NEW x \in Message, Accepted(x)', ~Queued(x)'
               PROVE  finished'[x] > 0 /\ (invalid'[x] \/ transmits'[x] > MaxTransmit)
    BY DEF GoneOK
  <2>1. finished[x] > 0 /\ (invalid[x] \/ transmits[x] > MaxTransmit)
    BY <1>4 DEF IInv, GoneOK
  <2>2. finished[x] \in Nat /\ finished'[x] \in Nat /\ finished'[x] >= finished[x]
    BY DEF IInv, PlainOK
  <2> QED BY <1>1, <2>1, <2>2
<1> QED BY <1>2, <1>3, <1>4, <1>5 DEF Dropped

LEMMA EnterStep ==
  ASSUME IInv, NEW m \in Message, Enter(m)
  PROVE  IInv'
<1>1. /\ caller[m] = "new"
      /\ \A x \in Message : ~Busy(x)
      /\ \A x \in Message : NodeOf[x] = NodeOf[m] => caller[x] \in Free
  BY DEF Enter, Busy
<1>2. /\ GoTo(m, "scanning") /\ rest' = entries[NodeOf[m]]
      /\ UNCHANGED <<hit, entries, latest, threadVars, queue, gossiping, invalid,
                     transmits, finished>>
  BY DEF Enter
<1>3. /\ caller' \in [Message -> Step] /\ caller'[m] = "scanning"
      /\ \A x \in Message : x # m => caller'[x] = caller[x]
  BY <1>2, Moved DEF Step, InMonitor, Free
<1>4. rest = {} /\ hit = NoMessage /\ \A n : ~Registering(n)
  <2>1. \A x \in Message : caller[x] \notin InMonitor
    BY <1>1 DEF Busy
  <2>2. rest = {}
    BY <1>1 DEF IInv, ScanOK
  <2>3. hit = NoMessage
    BY <2>1 DEF IInv, ScanOK, InMonitor, Free
  <2> QED BY <2>1, <2>2, <2>3 DEF Registering
<1>5. /\ Busy(m)' /\ \A x \in Message : Busy(x)' => x = m
      /\ \A n : Registering(n)' <=> n = NodeOf[m]
  <2>1. \A x \in Message : caller'[x] \in InMonitor <=> x = m
    BY <1>1, <1>3 DEF Busy, InMonitor, Free
  <2> QED BY <2>1 DEF Busy, Registering
<1>6. \A x \in Message : (Registered(x)' <=> Registered(x)) /\ (Accepted(x)' <=> Accepted(x))
  BY <1>1, <1>3 DEF Registered, Accepted
<1>7. PlainOK'
  <2>1. rest' \subseteq Message
    BY <1>2, Numbers DEF IInv, PlainOK
  <2> QED BY <1>2, <1>3, <2>1 DEF IInv, PlainOK, threadVars, Step
<1>8. /\ QueueOK' /\ ThreadOK' /\ GoneOK'
      /\ \A x \in Message : Dropped(x)' <=> Dropped(x)
  <2>1. \A x \in Message : finished'[x] >= finished[x]
    BY <1>2 DEF IInv, PlainOK
  <2> QED BY <1>2, <1>6, <1>7, <2>1, MonitorKeeps DEF PlainOK
<1>9. MonitorOK'
  BY <1>1, <1>3, <1>5 DEF IInv, MonitorOK
<1>10. ScanOK'
  <2>1. \A e \in rest' : Registered(e)' /\ NodeOf[e] = NodeOf[m]
    BY <1>2, <1>6, <1>7, Numbers DEF IInv, NodesOK, PlainOK
  <2>2. \A x \in Message : caller'[x] \notin {"finishing", "invalidating"}
    BY <1>3, <1>5 DEF Busy, InMonitor, Free
  <2> QED BY <1>2, <1>4, <1>5, <2>1, <2>2 DEF ScanOK
<1>11. NodesOK'
  BY <1>2, <1>6 DEF IInv, PlainOK, NodesOK
<1>12. OlderOver'
  <2> SUFFICES ASSUME NEW x \in Message, Registered(x)', ~Over(x)'
               PROVE  /\ x \in entries'[NodeOf[x]]
                      /\ \/ x \in rest' \/ x = hit'
                         \/ ~Registering(NodeOf[x])' /\ x = latest'[NodeOf[x]]
    BY DEF OlderOver
  <2>1. x \in entries[NodeOf[x]] /\ x = latest[NodeOf[x]]
    BY <1>2, <1>4, <1>6, Numbers DEF IInv, OlderOver, Over
  <2> QED BY <1>2, <1>5, <2>1
<1>13. InvalidOK'
  BY <1>2, <1>4, <1>6 DEF IInv, InvalidOK
<1>14. Counted'
  <2>1. \A x \in Message : Cut(x)' <=> Cut(x)
    BY <1>2, <1>4, Numbers DEF Cut
  <2> QED BY <1>2, <1>8, <2>1 DEF IInv, Counted
<1> QED BY <1>7, <1>8, <1>9, <1>10, <1>11, <1>12, <1>13, <1>14 DEF IInv

LEMMA ScanStep ==
  ASSUME IInv, NEW m \in Message, NEW e \in rest, Scan(m, e)
  PROVE  IInv'
<1>1. /\ caller[m] = "scanning" /\ Busy(m) /\ rest' = rest \ {e}
      /\ UNCHANGED <<latest, threadVars, queue, gossiping, invalid, transmits, finished>>
  BY DEF Scan, Busy, InMonitor, Free
<1>2. /\ \A x \in Message : Busy(x) => x = m
      /\ \A x \in rest : NodeOf[x] = NodeOf[m]
      /\ hit = NoMessage /\ \A n : Registering(n) <=> n = NodeOf[m]
  BY <1>1, Alone
<1>3. e \in Message /\ Registered(e) /\ NodeOf[e] = NodeOf[m] /\ NodeOf[m] \in Nodes
  BY <1>2, Numbers DEF IInv, PlainOK, ScanOK
<1>4. \A x \in Message : finished'[x] >= finished[x]
  BY <1>1 DEF IInv, PlainOK
<1>5. CASE Over(e)
  <2>1. /\ entries' = [entries EXCEPT ![NodeOf[m]] = @ \ {e}]
        /\ UNCHANGED <<caller, hit>>
    BY <1>5 DEF Scan
  <2>2. PlainOK'
    <3>1. entries' \in [Nodes -> SUBSET Message]
      BY <1>3, <2>1 DEF IInv, PlainOK
    <3> QED BY <1>1, <2>1, <3>1 DEF IInv, PlainOK, threadVars
  <2>3. /\ QueueOK' /\ ThreadOK' /\ GoneOK'
        /\ \A x \in Message : Dropped(x)' <=> Dropped(x)
    <3>1. \A x \in Message : (Registered(x)' <=> Registered(x)) /\ (Accepted(x)' <=> Accepted(x))
      BY <2>1 DEF Registered, Accepted
    <3> QED BY <1>1, <1>4, <2>2, <3>1, MonitorKeeps DEF PlainOK
  <2>4. MonitorOK' /\ ScanOK'
    BY <1>1, <2>1 DEF IInv, MonitorOK, ScanOK, Busy, Registered
  <2>5. \A n \in Nodes : entries'[n] = IF n = NodeOf[m] THEN entries[n] \ {e} ELSE entries[n]
    BY <2>1 DEF IInv, PlainOK
  <2>6. NodesOK'
    BY <1>1, <2>1, <2>5 DEF IInv, NodesOK, Registered
  <2>7. OlderOver'
    <3> SUFFICES ASSUME NEW x \in Message, Registered(x)', ~Over(x)'
                 PROVE  /\ x \in entries'[NodeOf[x]]
                        /\ \/ x \in rest' \/ x = hit'
                           \/ ~Registering(NodeOf[x])' /\ x = latest'[NodeOf[x]]
      BY DEF OlderOver
    <3>1. Registered(x) /\ ~Over(x) /\ x # e
      BY <1>1, <1>5, <2>1 DEF Registered, Over
    <3>2. /\ x \in entries[NodeOf[x]]
          /\ \/ x \in rest \/ x = hit
             \/ ~Registering(NodeOf[x]) /\ x = latest[NodeOf[x]]
      BY <3>1 DEF IInv, OlderOver
    <3> QED BY <1>1, <2>1, <2>5, <3>1, <3>2, Numbers DEF Registering
  <2>8. InvalidOK'
    BY <1>1, <2>1 DEF IInv, InvalidOK, Registered, Registering
  <2>9. Counted'
    BY <1>1, <2>1, <2>3 DEF IInv, Counted, Cut
  <2> QED BY <2>2, <2>3, <2>4, <2>6, <2>7, <2>8, <2>9 DEF IInv
<1>6. CASE ~Over(e)
  <2>1. hit' = e /\ GoTo(m, "finishing") /\ UNCHANGED entries
    BY <1>6 DEF Scan
  <2>2. /\ caller' \in [Message -> Step] /\ caller'[m] = "finishing"
        /\ \A x \in Message : x # m => caller'[x] = caller[x]
    BY <2>1, Moved DEF Step, InMonitor, Free
  <2>3. \A x \in Message : /\ Registered(x)' <=> Registered(x)
                           /\ Accepted(x)' <=> Accepted(x)
                           /\ Busy(x)' <=> Busy(x)
    BY <1>1, <2>2 DEF Registered, Accepted, Busy, InMonitor, Free
  <2>4. \A n : Registering(n)' <=> Registering(n)
    BY <2>3 DEF Registering, Busy
  <2>5. PlainOK'
    BY <1>1, <1>3, <2>1, <2>2 DEF IInv, PlainOK, threadVars, Step
  <2>6. /\ QueueOK' /\ ThreadOK' /\ GoneOK'
        /\ \A x \in Message : Dropped(x)' <=> Dropped(x)
    BY <1>1, <1>4, <2>3, <2>5, MonitorKeeps DEF PlainOK
  <2>7. MonitorOK'
    <3>1. \A x \in Message : caller'[x] \in Free <=> caller[x] \in Free
      BY <1>1, <2>2 DEF Free
    <3> QED BY <2>3, <3>1 DEF IInv, MonitorOK
  <2>8. ScanOK'
    <3>1. \A x \in Message : caller'[x] \in {"finishing", "invalidating"} => x = m
      BY <1>2, <2>2, <2>3 DEF Busy, InMonitor, Free
    <3>2. ~invalid'[e]
      BY <1>1, <1>6 DEF Over
    <3>3. \A x \in rest' : Registered(x)' /\ \E y \in Message : Busy(y)' /\ NodeOf[y] = NodeOf[x]
      BY <1>1, <2>3 DEF IInv, ScanOK, PlainOK
    <3>4. /\ Registered(hit)'
          /\ \E y \in Message : /\ caller'[y] \in {"finishing", "invalidating"}
                                /\ NodeOf[y] = NodeOf[hit']
      <4>1. Registered(e)'
        BY <1>3, <2>3
      <4>2. Registered(hit)'
        BY <2>1, <4>1 DEF Registered
      <4> QED BY <1>3, <2>1, <2>2, <4>2
    <3> QED BY <1>3, <2>1, <2>2, <3>1, <3>2, <3>3, <3>4 DEF ScanOK
  <2>9. NodesOK'
    BY <1>1, <2>1, <2>3 DEF IInv, PlainOK, NodesOK, Registered
  <2>10. OlderOver'
    <3>1. \A x : x \in rest => x \in rest' \/ x = hit'
      BY <1>1, <2>1
    <3> QED BY <1>1, <1>2, <2>1, <2>3, <2>4, <3>1, Numbers DEF IInv, OlderOver, Over
  <2>11. InvalidOK'
    BY <1>1, <2>3, <2>4 DEF IInv, InvalidOK
  <2>12. Counted'
    <3>1. \A x \in Message : caller'[x] # "invalidating"
      BY <1>2, <2>2, <2>3 DEF Busy, InMonitor, Free
    <3>2. \A x \in Message : Cut(x)' <=> Cut(x)
      BY <1>1, <1>2, <3>1, Numbers DEF Cut
    <3> QED BY <1>1, <2>6, <3>2 DEF IInv, Counted
  <2> QED BY <2>5, <2>6, <2>7, <2>8, <2>9, <2>10, <2>11, <2>12 DEF IInv
<1> QED BY <1>5, <1>6

LEMMA FinishOlderStep ==
  ASSUME IInv, NEW m \in Message, FinishOlder(m)
  PROVE  IInv'
<1>1. /\ caller[m] = "finishing" /\ Busy(m) /\ GoTo(m, "invalidating")
      /\ finished' = [finished EXCEPT ![hit] = @ + 1]
      /\ UNCHANGED <<rest, hit, entries, latest, threadVars, queue, gossiping,
                     invalid, transmits>>
  BY DEF FinishOlder, Busy, InMonitor, Free
<1>2. /\ \A x \in Message : Busy(x) => x = m
      /\ hit \in Message /\ ~invalid[hit] /\ NodeOf[hit] = NodeOf[m] /\ Registered(hit)
  BY <1>1, Alone, Numbers DEF IInv, ScanOK
<1>3. /\ caller' \in [Message -> Step] /\ caller'[m] = "invalidating"
      /\ \A x \in Message : x # m => caller'[x] = caller[x]
  BY <1>1, Moved DEF Step, InMonitor, Free
<1>4. \A x \in Message : /\ Registered(x)' <=> Registered(x)
                         /\ Accepted(x)' <=> Accepted(x)
                         /\ Busy(x)' <=> Busy(x)
                         /\ caller'[x] \in Free <=> caller[x] \in Free
                         /\ caller'[x] \in {"finishing", "invalidating"} => x = m
  BY <1>1, <1>2, <1>3 DEF Registered, Accepted, Busy, InMonitor, Free
<1>5. \A n : Registering(n)' <=> Registering(n)
  BY <1>4 DEF Registering, Busy
<1>6. /\ finished' \in [Message -> Nat] /\ finished'[hit] = finished[hit] + 1
      /\ \A x \in Message : finished[x] \in Nat /\ (x # hit => finished'[x] = finished[x])
  BY <1>1, <1>2 DEF IInv, PlainOK
<1>7. \A x \in Message : finished'[x] >= finished[x] /\ finished'[x] \in Nat
  BY <1>2, <1>6
<1>8. PlainOK'
  BY <1>1, <1>3, <1>6 DEF IInv, PlainOK, threadVars, Step
<1>9. /\ QueueOK' /\ ThreadOK' /\ GoneOK'
      /\ \A x \in Message : Dropped(x)' <=> Dropped(x)
  BY <1>1, <1>4, <1>6, <1>7, MonitorKeeps
<1>10. MonitorOK'
  BY <1>4 DEF IInv, MonitorOK
<1>11. ScanOK'
  <2>1. finished'[hit'] > 0
    BY <1>1, <1>2, <1>6
  <2>2. \A x \in rest' : Registered(x)' /\ \E y \in Message : Busy(y)' /\ NodeOf[y] = NodeOf[x]
    BY <1>1, <1>4 DEF IInv, ScanOK, PlainOK
  <2>3. Registered(hit)'
    BY <1>1, <1>2, <1>4 DEF Registered
  <2> QED BY <1>1, <1>2, <1>3, <1>4, <2>1, <2>2, <2>3 DEF ScanOK
<1>12. NodesOK'
  BY <1>1, <1>4 DEF IInv, PlainOK, NodesOK, Registered
<1>13. OlderOver'
  BY <1>1, <1>4, <1>5 DEF IInv, OlderOver, Over
<1>14. InvalidOK'
  <2>1. \A x \in Message : finished[x] > 0 => finished'[x] > 0
    BY <1>6, <1>7
  <2> QED BY <1>1, <1>4, <1>5, <2>1 DEF IInv, InvalidOK
<1>15. Counted'
  <2> SUFFICES ASSUME NEW x \in Message
               PROVE  finished'[x] <= (IF Dropped(x)' THEN 1 ELSE 0) + (IF Cut(x)' THEN 1 ELSE 0)
    BY DEF Counted
  <2>1. finished[x] <= (IF Dropped(x) THEN 1 ELSE 0) + (IF Cut(x) THEN 1 ELSE 0)
    BY DEF IInv, Counted
  <2>2. CASE x = hit
    <3>1. ~Cut(x)
      <4>1. \A y \in Message : caller[y] # "invalidating"
        BY <1>1, <1>2 DEF Busy, InMonitor, Free
      <4> QED BY <1>2, <2>2, <4>1 DEF Cut
    <3>2. Cut(x)'
      BY <1>1, <1>3, <2>2 DEF Cut
    <3> QED BY <1>6, <1>9, <2>1, <2>2, <3>1, <3>2
  <2>3. CASE x # hit
    <3>1. Cut(x)' <=> Cut(x)
      BY <1>1, <2>3 DEF Cut
    <3> QED BY <1>6, <1>9, <2>1, <2>3, <3>1
  <2> QED BY <2>2, <2>3
<1> QED BY <1>8, <1>9, <1>10, <1>11, <1>12, <1>13, <1>14, <1>15 DEF IInv

LEMMA InvalidateOlderStep ==
  ASSUME IInv, NEW m \in Message, InvalidateOlder(m)
  PROVE  IInv'
<1>1. /\ caller[m] = "invalidating" /\ Busy(m) /\ GoTo(m, "scanning")
      /\ invalid' = [invalid EXCEPT ![hit] = TRUE] /\ hit' = NoMessage
      /\ UNCHANGED <<rest, entries, latest, threadVars, queue, gossiping,
                     transmits, finished>>
  BY DEF InvalidateOlder, Busy, InMonitor, Free
<1>2. /\ \A x \in Message : Busy(x) => x = m
      /\ \A n : Registering(n) <=> n = NodeOf[m]
      /\ hit \in Message /\ finished[hit] > 0 /\ NodeOf[hit] = NodeOf[m] /\ Registered(hit)
  BY <1>1, Alone, Numbers DEF IInv, ScanOK
<1>3. /\ caller' \in [Message -> Step] /\ caller'[m] = "scanning"
      /\ \A x \in Message : x # m => caller'[x] = caller[x]
  BY <1>1, Moved DEF Step, InMonitor, Free
<1>4. \A x \in Message : /\ Registered(x)' <=> Registered(x)
                         /\ Accepted(x)' <=> Accepted(x)
                         /\ Busy(x)' <=> Busy(x)
                         /\ caller'[x] \in Free <=> caller[x] \in Free
                         /\ caller'[x] \notin {"finishing", "invalidating"}
  BY <1>1, <1>2, <1>3 DEF Registered, Accepted, Busy, InMonitor, Free
<1>5. \A n : Registering(n)' <=> Registering(n)
  BY <1>4 DEF Registering, Busy
<1>6. /\ invalid' \in [Message -> BOOLEAN] /\ invalid'[hit]
      /\ \A x \in Message : x # hit => invalid'[x] = invalid[x]
  BY <1>1, <1>2 DEF IInv, PlainOK
<1>7. \A x \in Message : invalid[x] => invalid'[x]
  BY <1>6
<1>8. PlainOK'
  BY <1>1, <1>3, <1>6 DEF IInv, PlainOK, threadVars, Step
<1>9. /\ QueueOK' /\ ThreadOK' /\ GoneOK'
      /\ \A x \in Message : Dropped(x)' <=> Dropped(x)
  <2>1. \A x \in Message : finished'[x] >= finished[x]
    BY <1>1 DEF IInv, PlainOK
  <2> QED BY <1>1, <1>4, <1>7, <1>8, <2>1, MonitorKeeps DEF PlainOK
<1>10. MonitorOK'
  BY <1>4 DEF IInv, MonitorOK
<1>11. ScanOK'
  <2>1. \A x \in rest' : Registered(x)' /\ \E y \in Message : Busy(y)' /\ NodeOf[y] = NodeOf[x]
    BY <1>1, <1>4 DEF IInv, ScanOK, PlainOK
  <2> QED BY <1>1, <1>4, <2>1 DEF ScanOK
<1>12. NodesOK'
  BY <1>1, <1>4 DEF IInv, PlainOK, NodesOK, Registered
<1>13. OlderOver'
  <2> SUFFICES ASSUME NEW x \in Message, Registered(x)', ~Over(x)'
               PROVE  /\ x \in entries'[NodeOf[x]]
                      /\ \/ x \in rest' \/ x = hit'
                         \/ ~Registering(NodeOf[x])' /\ x = latest'[NodeOf[x]]
    BY DEF OlderOver
  <2>1. x # hit /\ ~Over(x) /\ Registered(x)
    BY <1>1, <1>4, <1>6 DEF Over
  <2>2. /\ x \in entries[NodeOf[x]]
        /\ x \in rest \/ (~Registering(NodeOf[x]) /\ x = latest[NodeOf[x]])
    BY <2>1 DEF IInv, OlderOver
  <2> QED BY <1>1, <1>5, <2>2
<1>14. InvalidOK'
  <2> SUFFICES ASSUME NEW x \in Message, invalid'[x]
               PROVE  /\ Registered(x)' /\ finished'[x] > 0
                      /\ Registering(NodeOf[x])' \/ x # latest'[NodeOf[x]]
    BY DEF InvalidOK
  <2>1. CASE x = hit
    BY <1>1, <1>2, <1>4, <1>5, <2>1
  <2>2. CASE x # hit
    BY <1>1, <1>4, <1>5, <1>6, <2>2 DEF IInv, InvalidOK
  <2> QED BY <2>1, <2>2
<1>15. Counted'
  <2>1. \A x \in Message : Cut(x)' <=> Cut(x)
    <3> SUFFICES ASSUME NEW x \in Message PROVE Cut(x)' <=> Cut(x)
      OBVIOUS
    <3>1. CASE x = hit
      <4>1. Cut(x)
        BY <1>1, <3>1 DEF Cut
      <4>2. Cut(x)'
        BY <1>6, <3>1 DEF Cut
      <4> QED BY <4>1, <4>2
    <3>2. CASE x # hit
      BY <1>1, <1>6, <3>2, Numbers DEF Cut
    <3> QED BY <3>1, <3>2
  <2> QED BY <1>1, <1>9, <2>1 DEF IInv, Counted
<1> QED BY <1>8, <1>9, <1>10, <1>11, <1>12, <1>13, <1>14, <1>15 DEF IInv

LEMMA RegisterStep ==
  ASSUME IInv, NEW m \in Message, Register(m)
  PROVE  IInv'
<1>1. /\ caller[m] = "scanning" /\ rest = {} /\ Busy(m) /\ GoTo(m, "putting")
      /\ entries' = [entries EXCEPT ![NodeOf[m]] = @ \cup {m}]
      /\ latest' = [latest EXCEPT ![NodeOf[m]] = m]
      /\ UNCHANGED <<rest, hit, threadVars, queue, gossiping, invalid, transmits, finished>>
  BY DEF Register, Busy, InMonitor, Free
<1>2. /\ \A x \in Message : Busy(x) => x = m
      /\ \A n : Registering(n) <=> n = NodeOf[m]
      /\ hit = NoMessage /\ ~Registered(m) /\ NodeOf[m] \in Nodes
  BY <1>1, Alone, Numbers DEF Registered
<1>3. /\ caller' \in [Message -> Step] /\ caller'[m] = "putting"
      /\ \A x \in Message : x # m => caller'[x] = caller[x]
  BY <1>1, Moved DEF Step, InMonitor, Free
<1>4. \A x \in Message : /\ Registered(x)' <=> Registered(x) \/ x = m
                         /\ Accepted(x)' <=> Accepted(x)
                         /\ ~Busy(x)'
                         /\ caller'[x] \in Free <=> caller[x] \in Free
  BY <1>1, <1>2, <1>3 DEF Registered, Accepted, Busy, InMonitor, Free
<1>5. \A n : ~Registering(n)'
  BY <1>4 DEF Registering, Busy
<1>6. /\ entries' \in [Nodes -> SUBSET Message]
      /\ latest' \in [Nodes -> Message \cup {NoMessage}]
      /\ \A n \in Nodes :
           /\ entries'[n] = IF n = NodeOf[m] THEN entries[n] \cup {m} ELSE entries[n]
           /\ latest'[n] = IF n = NodeOf[m] THEN m ELSE latest[n]
  BY <1>1, <1>2 DEF IInv, PlainOK
<1>7. PlainOK'
  BY <1>1, <1>3, <1>6 DEF IInv, PlainOK, threadVars, Step
<1>8. /\ QueueOK' /\ ThreadOK' /\ GoneOK'
      /\ \A x \in Message : Dropped(x)' <=> Dropped(x)
  <2>1. \A x \in Message : finished'[x] >= finished[x]
    BY <1>1 DEF IInv, PlainOK
  <2> QED BY <1>1, <1>4, <1>7, <2>1, MonitorKeeps DEF PlainOK
<1>9. MonitorOK'
  BY <1>1, <1>4 DEF IInv, MonitorOK
<1>10. ScanOK'
  <2>1. \A x \in Message : caller'[x] \notin {"finishing", "invalidating"}
    BY <1>4 DEF Busy, InMonitor, Free
  <2> QED BY <1>1, <1>2, <2>1 DEF ScanOK
<1>11. NodesOK'
  <2> SUFFICES ASSUME NEW n \in Nodes
               PROVE  /\ \A e \in entries'[n] : NodeOf[e] = n /\ Registered(e)'
                      /\ latest'[n] # NoMessage =>
                           NodeOf[latest'[n]] = n /\ Registered(latest[n])'
    BY DEF NodesOK
  <2>1. \A e \in entries'[n] : NodeOf[e] = n /\ Registered(e)'
    BY <1>4, <1>6, <1>7 DEF IInv, NodesOK, PlainOK
  <2>2. \A x \in Message : caller'[x] \in {"putting", "waking", "done", "interrupted"}
                             <=> Registered(x) \/ x = m
    BY <1>4 DEF Registered
  <2>3. latest'[n] # NoMessage =>
          /\ NodeOf[latest'[n]] = n
          /\ caller'[latest'[n]] \in {"putting", "waking", "done", "interrupted"}
    BY <1>6, <2>2 DEF IInv, NodesOK
  <2> QED BY <2>1, <2>3 DEF Registered
<1>12. OlderOver'
  <2> SUFFICES ASSUME NEW x \in Message, Registered(x)', ~Over(x)'
               PROVE  /\ x \in entries'[NodeOf[x]]
                      /\ ~Registering(NodeOf[x])' /\ x = latest'[NodeOf[x]]
    BY DEF OlderOver
  <2>1. CASE x = m
    BY <1>2, <1>5, <1>6, <2>1
  <2>2. CASE x # m
    <3>1. /\ x \in entries[NodeOf[x]]
          /\ ~Registering(NodeOf[x]) /\ x = latest[NodeOf[x]]
      BY <1>1, <1>2, <1>4, <2>2, Numbers DEF IInv, OlderOver, Over
    <3> QED BY <1>2, <1>5, <1>6, <3>1, Numbers
  <2> QED BY <2>1, <2>2
<1>13. InvalidOK'
  <2> SUFFICES ASSUME NEW x \in Message, invalid'[x]
               PROVE  /\ Registered(x)' /\ finished'[x] > 0 /\ x # latest'[NodeOf[x]]
    BY DEF InvalidOK
  <2>1. /\ Registered(x) /\ finished[x] > 0
        /\ Registering(NodeOf[x]) \/ x # latest[NodeOf[x]]
    BY <1>1 DEF IInv, InvalidOK
  <2>2. x # m
    BY <1>2, <2>1
  <2> QED BY <1>1, <1>2, <1>4, <1>6, <2>1, <2>2, Numbers
<1>14. Counted'
  <2>1. \A x \in Message : Cut(x)' <=> Cut(x)
    BY <1>1, <1>2, Numbers DEF Cut
  <2> QED BY <1>1, <1>8, <2>1 DEF IInv, Counted
<1> QED BY <1>7, <1>8, <1>9, <1>10, <1>11, <1>12, <1>13, <1>14 DEF IInv

\* The callers outside the monitor.
LEMMA OutsideKeeps ==
  ASSUME IInv, UNCHANGED <<rest, hit, entries, latest, invalid, transmits, finished>>,
         \A x \in Message : /\ caller[x] \notin InMonitor => caller'[x] \notin InMonitor
                            /\ caller[x] \in InMonitor => caller'[x] = caller[x]
                            /\ Registered(x)' <=> Registered(x)
                            /\ caller[x] \in Free => caller'[x] \in Free,
         PlainOK', QueueOK', ThreadOK',
         \A x \in Message : Dropped(x)' <=> Dropped(x)
  PROVE  IInv'
<1>1. /\ \A x \in Message : Busy(x)' <=> Busy(x)
      /\ \A n : Registering(n)' <=> Registering(n)
  BY DEF Busy, Registering
<1>2. MonitorOK'
  BY <1>1 DEF IInv, MonitorOK
<1>3. \A x \in Message : /\ caller'[x] = "finishing" <=> caller[x] = "finishing"
                         /\ caller'[x] = "invalidating" <=> caller[x] = "invalidating"
  BY DEF InMonitor, Free
<1>4. ScanOK'
  <2>1. hit # NoMessage => Registered(hit)'
    <3>1. hit # NoMessage => hit \in Message /\ Registered(hit)
      BY DEF IInv, PlainOK, ScanOK
    <3>2. hit # NoMessage => caller'[hit] \in {"putting", "waking", "done", "interrupted"}
      BY <3>1 DEF Registered
    <3> QED BY <3>2 DEF Registered
  <2>2. \A x \in rest' : Registered(x)' /\ \E y \in Message : Busy(y)' /\ NodeOf[y] = NodeOf[x]
    BY <1>1 DEF IInv, ScanOK, PlainOK
  <2>3. \A x \in Message :
          /\ caller'[x] \in {"finishing", "invalidating"} => hit' \in Message
          /\ caller'[x] = "finishing" => ~invalid'[hit']
          /\ caller'[x] = "invalidating" => finished'[hit'] > 0
    BY <1>3 DEF IInv, ScanOK
  <2>4. hit' # NoMessage =>
          \E x \in Message : /\ caller'[x] \in {"finishing", "invalidating"}
                             /\ NodeOf[x] = NodeOf[hit']
    BY <1>3 DEF IInv, ScanOK
  <2> QED BY <2>1, <2>2, <2>3, <2>4 DEF ScanOK
<1>5. NodesOK'
  <2>1. \A x \in Message :
          Registered(x) => caller'[x] \in {"putting", "waking", "done", "interrupted"}
    BY DEF Registered
  <2> QED BY <2>1 DEF IInv, PlainOK, NodesOK, Registered
<1>6. OlderOver'
  BY <1>1 DEF IInv, OlderOver, Over
<1>7. InvalidOK'
  BY <1>1 DEF IInv, InvalidOK
<1>8. GoneOK'
  BY DEF IInv, GoneOK, Dropped
<1>9. Counted'
  <2>1. \A x \in Message : Cut(x)' <=> Cut(x)
    BY <1>3 DEF Cut
  <2> QED BY <2>1 DEF IInv, Counted
<1> QED BY <1>2, <1>4, <1>5, <1>6, <1>7, <1>8, <1>9 DEF IInv

LEMMA PutStep ==
  ASSUME IInv, NEW m \in Message, Put(m)
  PROVE  IInv'
<1>1. /\ caller[m] = "putting" /\ Len(queue) < Capacity
      /\ queue' = Append(queue, m) /\ GoTo(m, "waking")
      /\ UNCHANGED <<rest, hit, entries, latest, threadVars, gossiping, invalid,
                     transmits, finished>>
  BY DEF Put
<1>2. /\ caller' \in [Message -> Step] /\ caller'[m] = "waking"
      /\ \A x \in Message : x # m => caller'[x] = caller[x]
  BY <1>1, Moved DEF Step
<1>3. \A x \in Message : /\ caller[x] \notin InMonitor => caller'[x] \notin InMonitor
                         /\ caller[x] \in InMonitor => caller'[x] = caller[x]
                         /\ Registered(x)' <=> Registered(x)
                         /\ caller[x] \in Free => caller'[x] \in Free
                         /\ Accepted(x)' <=> Accepted(x) \/ x = m
  BY <1>1, <1>2 DEF InMonitor, Free, Registered, Accepted
<1>4. PlainOK'
  BY <1>1, <1>2 DEF IInv, PlainOK, threadVars, Step
<1> DEFINE n == Len(queue)
<1>5. /\ queue \in Seq(Message) /\ n \in Nat /\ DOMAIN queue = 1 .. n
      /\ \A i \in 1 .. n : queue[i] \in Message
  BY LenProperties, ElementOfSeq DEF IInv, QueueOK
<1>6. /\ queue' \in Seq(Message) /\ Len(queue') = n + 1
      /\ \A i \in 1 .. n : queue'[i] = queue[i]
      /\ queue'[n + 1] = m
  BY <1>1, <1>5, AppendProperties
<1>7. DOMAIN queue' = 1 .. n + 1
  BY <1>6, LenProperties
<1>8. \A i \in 1 .. n : queue[i] # m
  BY <1>1, <1>5 DEF IInv, QueueOK, Accepted
<1> HIDE DEF n
<1>9. QueueOK'
  <2>1. \A i, j \in DOMAIN queue' : queue'[i] = queue'[j] => i = j
    <3> SUFFICES ASSUME NEW i \in 1 .. n + 1, NEW j \in 1 .. n + 1, queue'[i] = queue'[j]
                 PROVE  i = j
      BY <1>7
    <3>1. CASE i \in 1 .. n /\ j \in 1 .. n
      BY <1>5, <1>6, <3>1 DEF IInv, QueueOK
    <3>2. CASE i = n + 1 \/ j = n + 1
      BY <1>5, <1>6, <1>8, <3>2
    <3> QED BY <1>5, <3>1, <3>2
  <2>2. \A i \in DOMAIN queue' : Accepted(queue[i])'
    <3> SUFFICES ASSUME NEW i \in 1 .. n + 1 PROVE Accepted(queue[i])'
      BY <1>7
    <3>1. CASE i \in 1 .. n
      <4>1. queue[i] \in Message /\ Accepted(queue[i])
        BY <1>5, <3>1 DEF IInv, QueueOK
      <4>2. caller'[queue[i]] \in {"waking", "done"}
        BY <1>3, <4>1 DEF Accepted
      <4> QED BY <1>6, <3>1, <4>2 DEF Accepted
    <3>2. CASE i = n + 1
      BY <1>2, <1>6, <3>2 DEF Accepted
    <3> QED BY <1>5, <3>1, <3>2
  <2>3. Len(queue') <= Capacity
    BY <1>1, <1>5, <1>6, Numbers DEF n
  <2> QED BY <1>6, <2>1, <2>2, <2>3 DEF QueueOK
<1>10. \A x : x \in ToSet(queue') <=> x \in ToSet(queue) \/ x = m
  BY <1>5, <1>6, <1>7 DEF ToSet
<1>11. ThreadOK'
  BY <1>1, <1>10 DEF IInv, ThreadOK, Queued, threadVars
<1>12. \A x \in Message : Dropped(x)' <=> Dropped(x)
  <2> SUFFICES ASSUME NEW x \in Message PROVE Dropped(x)' <=> Dropped(x)
    OBVIOUS
  <2>1. Queued(x)' <=> Queued(x) \/ x = m
    BY <1>10 DEF Queued
  <2>2. CASE x = m
    BY <1>1, <2>1, <2>2 DEF Dropped, Accepted
  <2>3. CASE x # m
    BY <1>3, <2>1, <2>3 DEF Dropped
  <2> QED BY <2>2, <2>3
<1>13. UNCHANGED <<rest, hit, entries, latest, invalid, transmits, finished>>
  BY <1>1
<1> QED BY <1>3, <1>4, <1>9, <1>11, <1>12, <1>13, OutsideKeeps

LEMMA WakeUpStep ==
  ASSUME IInv, NEW m \in Message, WakeUp(m)
  PROVE  IInv'
<1>1. /\ caller[m] = "waking" /\ GoTo(m, "done")
      /\ UNCHANGED <<rest, hit, entries, latest, next, current, taken, queue, invalid,
                     transmits, finished>>
  BY DEF WakeUp
<1>2. \/ UNCHANGED <<gossiping, thread>>
      \/ gossiping' = TRUE /\ thread' = "choosing" /\ ~gossiping
  BY DEF WakeUp
<1>3. /\ caller' \in [Message -> Step] /\ caller'[m] = "done"
      /\ \A x \in Message : x # m => caller'[x] = caller[x]
  BY <1>1, Moved DEF Step, Free
<1>4. \A x \in Message : /\ caller[x] \notin InMonitor => caller'[x] \notin InMonitor
                         /\ caller[x] \in InMonitor => caller'[x] = caller[x]
                         /\ Registered(x)' <=> Registered(x)
                         /\ caller[x] \in Free => caller'[x] \in Free
                         /\ Accepted(x)' <=> Accepted(x)
  BY <1>1, <1>3 DEF InMonitor, Free, Registered, Accepted
<1>5. PlainOK'
  <2>1. gossiping' \in BOOLEAN /\ thread' \in {"choosing", "taking", "judging", "ending", "ended"}
    BY <1>2 DEF IInv, PlainOK
  <2> QED BY <1>1, <1>3, <2>1 DEF IInv, PlainOK, Step
<1>6. QueueOK'
  <2>1. \A i \in DOMAIN queue : queue[i] \in Message /\ Accepted(queue[i])
    BY LenProperties, ElementOfSeq DEF IInv, QueueOK
  <2>2. \A i \in DOMAIN queue : caller'[queue[i]] \in {"waking", "done"}
    BY <1>4, <2>1 DEF Accepted
  <2> QED BY <1>1, <2>2 DEF IInv, QueueOK, Accepted
<1>7. ThreadOK'
  BY <1>1, <1>2 DEF IInv, ThreadOK, Queued
<1>8. \A x \in Message : Dropped(x)' <=> Dropped(x)
  BY <1>1, <1>4 DEF Dropped, Queued
<1>9. UNCHANGED <<rest, hit, entries, latest, invalid, transmits, finished>>
  BY <1>1
<1> QED BY <1>4, <1>5, <1>6, <1>7, <1>8, <1>9, OutsideKeeps

LEMMA PutInterruptedStep ==
  ASSUME IInv, NEW m \in Message, PutInterrupted(m)
  PROVE  IInv'
<1>1. /\ caller[m] = "putting" /\ GoTo(m, "interrupted")
      /\ UNCHANGED <<rest, hit, entries, latest, threadVars, queue, gossiping, invalid,
                     transmits, finished>>
  BY DEF PutInterrupted
<1>2. /\ caller' \in [Message -> Step] /\ caller'[m] = "interrupted"
      /\ \A x \in Message : x # m => caller'[x] = caller[x]
  BY <1>1, Moved DEF Step, Free
<1>3. \A x \in Message : /\ caller[x] \notin InMonitor => caller'[x] \notin InMonitor
                         /\ caller[x] \in InMonitor => caller'[x] = caller[x]
                         /\ Registered(x)' <=> Registered(x)
                         /\ caller[x] \in Free => caller'[x] \in Free
                         /\ Accepted(x)' <=> Accepted(x)
  BY <1>1, <1>2 DEF InMonitor, Free, Registered, Accepted
<1>4. PlainOK'
  BY <1>1, <1>2 DEF IInv, PlainOK, threadVars, Step
<1>5. QueueOK'
  <2>1. \A i \in DOMAIN queue : queue[i] \in Message /\ Accepted(queue[i])
    BY LenProperties, ElementOfSeq DEF IInv, QueueOK
  <2>2. \A i \in DOMAIN queue : caller'[queue[i]] \in {"waking", "done"}
    BY <1>3, <2>1 DEF Accepted
  <2> QED BY <1>1, <2>2 DEF IInv, QueueOK, Accepted
<1>6. ThreadOK'
  BY <1>1 DEF IInv, ThreadOK, Queued, threadVars
<1>7. \A x \in Message : Dropped(x)' <=> Dropped(x)
  BY <1>1, <1>3 DEF Dropped, Queued
<1>8. UNCHANGED <<rest, hit, entries, latest, invalid, transmits, finished>>
  BY <1>1
<1> QED BY <1>3, <1>4, <1>5, <1>6, <1>7, <1>8, OutsideKeeps
-----------------------------------------------------------------------------

LEMMA InvariantStep == IInv /\ [Next]_vars => IInv'
<1> SUFFICES ASSUME IInv, [Next]_vars PROVE IInv'
  OBVIOUS
<1>1. ASSUME NEW m \in Message, Call(m) \/ PutInterrupted(m) PROVE IInv'
  BY <1>1, EnterStep, FinishOlderStep, InvalidateOlderStep, RegisterStep, PutStep,
     PutInterruptedStep, WakeUpStep, ScanStep
  DEF Call
<1>2. CASE UNCHANGED vars
  <2>1. UNCHANGED <<callerVars, threadVars, queue, gossiping, invalid, transmits, finished>>
    BY <1>2 DEF vars
  <2>2. PlainOK' /\ QueueOK' /\ ThreadOK' /\ GoneOK' /\ Counted'
    BY <2>1
    DEF callerVars, threadVars, IInv, PlainOK, QueueOK, ThreadOK, GoneOK, Counted, Dropped,
        Cut, Accepted, Queued
  <2>3. \A x \in Message : transmits'[x] >= transmits[x] /\ finished'[x] >= finished[x]
    BY <2>1, Numbers DEF IInv, PlainOK
  <2> QED BY <2>1, <2>2, <2>3, ThreadKeeps
<1> QED BY <1>1, <1>2, ThreadStep DEF Next

LEMMA Invariant == Spec => []IInv
BY InvariantInit, InvariantStep, PTL DEF Spec

\* The type of every variable: at most Capacity messages are queued, and one
\* is finished twice at most, by the GossipThread and by a caller.
THEOREM Typing == Spec => []TypeOK
<1>1. IInv => TypeOK
  <2> SUFFICES ASSUME IInv PROVE TypeOK
    OBVIOUS
  <2>1. ToSet(queue) \subseteq Message /\ Len(queue) <= Capacity
    BY LenProperties, ElementOfSeq DEF IInv, QueueOK, ToSet
  <2>2. finished \in [Message -> 0 .. 2]
    <3>1. \A m \in Message : finished[m] \in 0 .. 2
      BY DEF IInv, PlainOK, Counted
    <3> QED BY <3>1 DEF IInv, PlainOK
  <2> QED BY <2>1, <2>2 DEF IInv, PlainOK, TypeOK
<1> QED BY <1>1, Invariant, PTL

\* Until a newer one is being registered, the last message about a node is
\* valid, and in the queue or on its way there until it was sent often enough
\* and its notifier has been told, unless its caller was interrupted in put.
THEOREM NewestSafety == Spec => []NewestStands
<1>1. IInv => NewestStands
  <2> SUFFICES ASSUME IInv, NEW n \in Nodes, latest[n] # NoMessage, ~Registering(n)
               PROVE  /\ ~invalid[latest[n]]
                      /\ \/ caller[latest[n]] \in {"putting", "interrupted"}
                         \/ Queued(latest[n])
                         \/ /\ transmits[latest[n]] >= MaxTransmit
                            /\ finished[latest[n]] > 0
    BY DEF NewestStands
  <2>1. latest[n] \in Message /\ NodeOf[latest[n]] = n /\ Registered(latest[n])
    BY DEF IInv, PlainOK, NodesOK
  <2>2. ~invalid[latest[n]]
    BY <2>1 DEF IInv, InvalidOK
  <2>3. transmits[latest[n]] \in Nat
    BY <2>1, Numbers DEF IInv, PlainOK
  <2> QED BY <2>1, <2>2, <2>3, Numbers DEF IInv, GoneOK, Registered, Accepted
<1> QED BY <1>1, Invariant, PTL

\* One message about a node at most has transmissions to come.
THEOREM OneLiveSafety == Spec => []OneLiveMessage
<1>1. IInv => OneLiveMessage
  <2> SUFFICES ASSUME IInv, NEW x \in Message, NEW y \in Message,
                      NodeOf[x] = NodeOf[y],
                      {caller[x], caller[y]} \subseteq {"putting", "waking", "done"},
                      \A m \in {x, y} : ~invalid[m] /\ transmits[m] <= MaxTransmit,
                      ~Registering(NodeOf[x])
               PROVE  x = y
    BY DEF OneLiveMessage
  <2>1. \A m \in Message : transmits[m] \in Nat
    BY Numbers DEF IInv, PlainOK
  <2>2. Registered(x) /\ Registered(y) /\ ~Over(x) /\ ~Over(y)
    BY <2>1, Numbers DEF Registered, Over
  <2>3. \A e \in rest \cup {hit} : e \in Message => Registering(NodeOf[e])
    <3>1. ASSUME NEW e \in Message, NEW m \in Message, Busy(m), NodeOf[m] = NodeOf[e]
          PROVE  Registering(NodeOf[e])
      BY <3>1 DEF Busy, Registering
    <3> QED BY <3>1, Numbers DEF IInv, ScanOK, Busy, InMonitor, Free
  <2> QED BY <2>2, <2>3 DEF IInv, OlderOver
<1> QED BY <1>1, Invariant, PTL

\* A message that has left the queue has been finished.
THEOREM EndedSafety == Spec => []EndedIsFinished
<1>1. IInv => EndedIsFinished
  BY DEF IInv, GoneOK, EndedIsFinished, Accepted
<1> QED BY <1>1, Invariant, PTL
=============================================================================
