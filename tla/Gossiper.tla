------------------------------ MODULE Gossiper ------------------------------
(***************************************************************************)
(* MessageGossiper: the queue between the handlers of the discovery module *)
(* and the thread that gossips.  gossip() runs on the threads that handle  *)
(* messages, doGossip() on a GossipThread that a caller starts when none   *)
(* runs and that ends when it finds nothing to do.  A message is told when *)
(* its gossip is over (onGossipFinish): it was sent often enough, or a     *)
(* newer message about the same node has taken its place.                  *)
(***************************************************************************)
EXTENDS Integers, FiniteSets, SequencesExt

CONSTANTS
  Message,      \* the messages handed to gossip(), each of them once
  NoMessage,
  NodeOf,       \* the node a message is about
  Capacity,     \* DiscoveryConfig.gossipQueueSize
  MaxTransmit,  \* DiscoveryConfig.maxGossipTimes
  MaxCount,     \* DiscoveryConfig.maxGossipMessageCount
  FindsNodes    \* what randomNodes may come to: TRUE, some other nodes

ASSUME MessageAssumption ==
  NoMessage \notin Message /\ DOMAIN NodeOf = Message /\ IsFiniteSet(Message)
ASSUME ConfigAssumption ==
  /\ Capacity \in Nat \ {0} /\ MaxCount \in Nat \ {0} /\ MaxTransmit \in Nat
  /\ FindsNodes \subseteq BOOLEAN

VARIABLES
  caller,    \* where the thread that gossips a message is
  rest,      \* older messages the caller in the monitor has not looked at
  hit,       \* the older message it is about to finish and invalidate
  entries,   \* nodeMessages
  queue,     \* messages
  gossiping,
  thread,    \* where the GossipThread is
  next,      \* the message its iterator returns next
  current,   \* the message it has found valid
  taken,     \* how many messages it has taken in this round
  invalid,
  transmits,
  finished,  \* history: how often onGossipFinish was called
  latest     \* history: the last message put into nodeMessages for a node

callerVars == <<caller, rest, hit, entries, latest>>
threadVars == <<thread, next, current, taken>>
vars == <<callerVars, threadVars, queue, gossiping, invalid, transmits, finished>>

Nodes == {NodeOf[m] : m \in Message}
InMonitor == {"scanning", "finishing", "invalidating"}
Free      == {"new", "done", "interrupted"}   \* not inside gossip()
Queued(m) == m \in ToSet(queue)

Init ==
  /\ caller = [m \in Message |-> "new"]
  /\ rest = {} /\ hit = NoMessage
  /\ entries = [n \in Nodes |-> {}]
  /\ queue = <<>> /\ gossiping = FALSE
  /\ thread = "ended" /\ next = NoMessage /\ current = NoMessage /\ taken = 0
  /\ invalid = [m \in Message |-> FALSE]
  /\ transmits = [m \in Message |-> 0]
  /\ finished = [m \in Message |-> 0]
  /\ latest = [n \in Nodes |-> NoMessage]

GoTo(m, step) == caller' = [caller EXCEPT ![m] = step]
-----------------------------------------------------------------------------
(* gossip(message), called with the lock of the node the message is about. *)

\* Deviation: the message is put into nodeMessages before the scan.
EnterRegistered(m) ==
  /\ caller[m] = "new"
  /\ \A x \in Message : /\ caller[x] \notin InMonitor
                        /\ NodeOf[x] = NodeOf[m] => caller[x] \in Free
  /\ GoTo(m, "scanning")
  /\ rest' = entries[NodeOf[m]] \cup {m}
  /\ UNCHANGED <<hit, entries, latest, threadVars, queue, gossiping, invalid,
                 transmits, finished>>

Enter(m) ==
  /\ caller[m] = "new"
  /\ \A x \in Message : /\ caller[x] \notin InMonitor
                        /\ NodeOf[x] = NodeOf[m] => caller[x] \in Free
  /\ GoTo(m, "scanning")
  /\ rest' = entries[NodeOf[m]]
  /\ UNCHANGED <<hit, entries, latest, threadVars, queue, gossiping, invalid,
                 transmits, finished>>

\* Deviation: a message with one transmission left passes for sent.
OverTooEarly(e) == invalid[e] \/ transmits[e] >= MaxTransmit

Over(e) == invalid[e] \/ transmits[e] > MaxTransmit

\* An older message that is over is forgotten; the others, found so now, are
\* invalidated in the two steps of MemberMessage.invalidate.
Scan(m, e) ==
  /\ caller[m] = "scanning" /\ e \in rest
  /\ rest' = rest \ {e}
  /\ IF Over(e)
     THEN /\ entries' = [entries EXCEPT ![NodeOf[m]] = @ \ {e}]
          /\ UNCHANGED <<caller, hit>>
     ELSE /\ hit' = e /\ GoTo(m, "finishing")
          /\ UNCHANGED entries
  /\ UNCHANGED <<latest, threadVars, queue, gossiping, invalid, transmits, finished>>

FinishOlder(m) ==
  /\ caller[m] = "finishing"
  /\ finished' = [finished EXCEPT ![hit] = @ + 1]
  /\ GoTo(m, "invalidating")
  /\ UNCHANGED <<rest, hit, entries, latest, threadVars, queue, gossiping,
                 invalid, transmits>>

InvalidateOlder(m) ==
  /\ caller[m] = "invalidating"
  /\ invalid' = [invalid EXCEPT ![hit] = TRUE]
  /\ hit' = NoMessage /\ GoTo(m, "scanning")
  /\ UNCHANGED <<rest, entries, latest, threadVars, queue, gossiping,
                 transmits, finished>>

Register(m) ==
  /\ caller[m] = "scanning" /\ rest = {}
  /\ entries' = [entries EXCEPT ![NodeOf[m]] = @ \cup {m}]
  /\ latest' = [latest EXCEPT ![NodeOf[m]] = m]
  /\ GoTo(m, "putting")
  /\ UNCHANGED <<rest, hit, threadVars, queue, gossiping, invalid, transmits,
                 finished>>

\* Deviation: the queue has no limit.
PutAnyway(m) ==
  /\ caller[m] = "putting"
  /\ queue' = Append(queue, m)
  /\ GoTo(m, "waking")
  /\ UNCHANGED <<rest, hit, entries, latest, threadVars, gossiping, invalid,
                 transmits, finished>>

\* messages.put waits for room, outside the monitor.
Put(m) ==
  /\ caller[m] = "putting" /\ Len(queue) < Capacity
  /\ queue' = Append(queue, m)
  /\ GoTo(m, "waking")
  /\ UNCHANGED <<rest, hit, entries, latest, threadVars, gossiping, invalid,
                 transmits, finished>>

\* The thread is interrupted in put: the message stays in nodeMessages, in the
\* place of the older ones, but is not queued, and gossip() returns false.
PutInterrupted(m) ==
  /\ caller[m] = "putting"
  /\ GoTo(m, "interrupted")
  /\ UNCHANGED <<rest, hit, entries, latest, threadVars, queue, gossiping, invalid,
                 transmits, finished>>

WakeUp(m) ==
  /\ caller[m] = "waking"
  /\ GoTo(m, "done")
  /\ IF gossiping THEN UNCHANGED <<gossiping, thread>>
                  ELSE gossiping' = TRUE /\ thread' = "choosing"
  /\ UNCHANGED <<rest, hit, entries, latest, next, current, taken, queue, invalid,
                 transmits, finished>>
-----------------------------------------------------------------------------
(* doGossip and getMessage, on the GossipThread.                            *)

ThreadAt(step) == thread' = step

\* randomNodes, and the iterator over the queue if it has found a node.
ChooseNodes ==
  /\ thread = "choosing"
  /\ \E found \in FindsNodes :
       /\ ThreadAt(IF found THEN "taking" ELSE "ending")
       /\ next' = IF found /\ queue # <<>> THEN Head(queue) ELSE NoMessage
  /\ taken' = 0
  /\ UNCHANGED <<callerVars, current, queue, gossiping, invalid, transmits, finished>>

\* The iterator fixes the message it returns next when it returns one, so it
\* misses what is put after it has reached the end.
Position(m) == CHOOSE i \in DOMAIN queue : queue[i] = m

After(m) ==
  IF Position(m) < Len(queue) THEN queue[Position(m) + 1] ELSE NoMessage

\* Iterator.remove.
Drop(m) == queue' = RemoveAt(queue, Position(m))

\* An invalidated message is dropped.
Take ==
  /\ thread = "taking" /\ taken < MaxCount /\ next # NoMessage
  /\ next' = After(next)
  /\ IF invalid[next]
     THEN Drop(next) /\ UNCHANGED <<thread, current>>
     ELSE current' = next /\ ThreadAt("judging") /\ UNCHANGED queue
  /\ UNCHANGED <<callerVars, taken, gossiping, invalid, transmits, finished>>

\* Deviation: a message sent often enough is dropped without a word.
JudgeSilently ==
  /\ thread = "judging" /\ ThreadAt("taking")
  /\ IF transmits[current] > MaxTransmit
     THEN /\ Drop(current)
          /\ UNCHANGED <<transmits, taken, finished>>
     ELSE /\ transmits' = [transmits EXCEPT ![current] = @ + 1]
          /\ taken' = taken + 1
          /\ UNCHANGED <<finished, queue>>
  /\ current' = NoMessage
  /\ UNCHANGED <<callerVars, next, gossiping, invalid>>

\* Deviation: the transmissions are not counted.
JudgeWithoutCount ==
  /\ thread = "judging" /\ ThreadAt("taking")
  /\ IF transmits[current] > MaxTransmit
     THEN /\ finished' = [finished EXCEPT ![current] = @ + 1]
          /\ Drop(current)
          /\ UNCHANGED <<transmits, taken>>
     ELSE taken' = taken + 1 /\ UNCHANGED <<transmits, finished, queue>>
  /\ current' = NoMessage
  /\ UNCHANGED <<callerVars, next, gossiping, invalid>>

\* One sent often enough is finished and dropped, another one is taken: each
\* is sent MaxTransmit + 1 times before it is dropped.
Judge ==
  /\ thread = "judging" /\ ThreadAt("taking")
  /\ IF transmits[current] > MaxTransmit
     THEN /\ finished' = [finished EXCEPT ![current] = @ + 1]
          /\ Drop(current)
          /\ UNCHANGED <<transmits, taken>>
     ELSE /\ transmits' = [transmits EXCEPT ![current] = @ + 1]
          /\ taken' = taken + 1
          /\ UNCHANGED <<finished, queue>>
  /\ current' = NoMessage
  /\ UNCHANGED <<callerVars, next, gossiping, invalid>>

\* What was taken is sent, as far as there are connections; a round that has
\* taken nothing is the last one of this thread.
EndRound ==
  /\ thread = "taking" /\ (taken = MaxCount \/ next = NoMessage)
  /\ ThreadAt(IF taken = 0 THEN "ending" ELSE "choosing")
  /\ UNCHANGED <<callerVars, next, current, taken, queue, gossiping, invalid,
                 transmits, finished>>

\* The finally block.
EndThread ==
  /\ thread = "ending" /\ ThreadAt("ended")
  /\ gossiping' = FALSE
  /\ UNCHANGED <<callerVars, next, current, taken, queue, invalid, transmits, finished>>

Call(m) ==
  \/ Enter(m) \/ FinishOlder(m) \/ InvalidateOlder(m)
  \/ Register(m) \/ Put(m) \/ WakeUp(m)
  \/ \E e \in rest : Scan(m, e)

Thread == ChooseNodes \/ Take \/ Judge \/ EndRound \/ EndThread

Next == Thread \/ \E m \in Message : Call(m) \/ PutInterrupted(m)

\* A thread that can go on does; nothing makes a handler call gossip(), and no
\* interrupt has to come.
Fairness ==
  /\ WF_vars(Thread)
  /\ \A m \in Message : WF_vars(Call(m) /\ caller[m] # "new")

Spec == Init /\ [][Next]_vars /\ Fairness
-----------------------------------------------------------------------------
\* The type of every variable.  At most Capacity messages are queued, and one
\* may be finished twice: by the GossipThread that has sent it often enough,
\* and by a caller that found it unfinished before.
TypeOK ==
  /\ caller \in [Message -> InMonitor \cup Free \cup {"putting", "waking"}]
  /\ rest \subseteq Message /\ hit \in Message \cup {NoMessage}
  /\ entries \in [Nodes -> SUBSET Message]
  /\ ToSet(queue) \subseteq Message /\ Len(queue) <= Capacity
  /\ gossiping \in BOOLEAN
  /\ thread \in {"choosing", "taking", "judging", "ending", "ended"}
  /\ {next, current} \subseteq Message \cup {NoMessage}
  /\ taken \in 0 .. MaxCount
  /\ invalid \in [Message -> BOOLEAN]
  /\ transmits \in [Message -> Nat]
  /\ finished \in [Message -> 0 .. 2]
  /\ latest \in [Nodes -> Message \cup {NoMessage}]

Registering(n) == \E m \in Message : NodeOf[m] = n /\ caller[m] \in InMonitor

\* The last message about a node is not lost to an older one, whatever the
\* GossipThread does to both: until a newer one is being registered, it is
\* valid, and queued (or about to be) until it has been sent at least
\* MaxTransmit times and its notifier was told.  It is lost in one case only,
\* when its caller was interrupted in put.
NewestStands ==
  \A n \in Nodes :
    LET m == latest[n] IN
    m # NoMessage /\ ~Registering(n) =>
      /\ ~invalid[m]
      /\ \/ caller[m] \in {"putting", "interrupted"} \/ Queued(m)
         \/ transmits[m] >= MaxTransmit /\ finished[m] > 0

\* gossip() leaves one message about a node that still has transmissions to
\* come, although the GossipThread counts them outside the monitor.
OneLiveMessage ==
  \A x, y \in Message :
    /\ NodeOf[x] = NodeOf[y]
    /\ {caller[x], caller[y]} \subseteq {"putting", "waking", "done"}
    /\ \A m \in {x, y} : ~invalid[m] /\ transmits[m] <= MaxTransmit
    /\ ~Registering(NodeOf[x])
    => x = y

\* Who waits for onGossipFinish of a message that gossip() has queued, and that
\* is not queued any more, has been told.
EndedIsFinished ==
  \A m \in Message :
    caller[m] \in {"waking", "done"} /\ ~Queued(m) => finished[m] > 0

\* The GossipThread does not spin: it ends, unless messages keep coming.
ThreadEnds == thread # "ended" ~> thread = "ended"

\* "When a GossipMessage has been sent its GossipFinishNotifier is called":
\* every message accepted by gossip() is finished at some time.
FinishIsNotified ==
  \A m \in Message : caller[m] = "done" ~> finished[m] > 0
=============================================================================
