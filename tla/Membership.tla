----------------------------- MODULE Membership -----------------------------
(***************************************************************************)
(* The discovery cluster: who a server takes for alive, suspect or dead.   *)
(* GossipMessageServiceImpl handles the alive, suspect and dead messages   *)
(* that gossip and push-pull bring, ProbeTask and SuspectTask make new     *)
(* ones out of failed pings and of suspicions that nobody has refuted.     *)
(* What a server thinks of one node is independent of what it thinks of    *)
(* others, so only the nodes in Subject are tracked.                       *)
(***************************************************************************)
EXTENDS Integers, FiniteSets

CONSTANTS
  Server,
  Subject,         \* the servers whose membership is tracked
  MaxIncarnation,  \* bound: no server refutes or leaves beyond it
  Crashing,        \* bound: the servers that may crash
  MaxCrashes       \* bound: crashes in all

ASSUME SubjectAssumption == Subject \subseteq Server /\ Crashing \subseteq Server
ASSUME IncarnationAssumption == MaxIncarnation \in Nat \ {0} /\ MaxCrashes \in Nat

VARIABLES
  up,       \* "down", "listening" before doStart is through, "running"
  own,      \* incarnation of DiscoveryServerImpl.localNode, not that in nodes
  view,     \* view[o][n]: the Node of n in o's Nodes, and the map it is in
  task,     \* o's SuspectTask of n: "armed", "running" once cancel is too late
  local,    \* messages a task of a server has built and not handed in yet
  net,      \* messages gossiped or pushed; they arrive late, twice or never
  crashes,
  issued,   \* history: the incarnations n has given itself
  accused,  \* history: <<n, i>> if a probe of n failed at incarnation i, or n
            \* has pushed itself as dead
  early     \* history: the servers that have heard of themselves as alive
            \* in this life before they were running

vars == <<up, own, view, task, local, net, crashes, issued, accused, early>>

Incarnation == 0 .. MaxIncarnation
Status      == {"ALIVE", "SUSPECT", "DEAD"}
NoNode      == [inc |-> 0, status |-> "ABSENT", map |-> "none"]
Known(o, n) == view[o][n].status # "ABSENT"

Message(kind, n, i) == [kind |-> kind, node |-> n, inc |-> i]
Gossip(kind, n, i)  == net' = net \cup {Message(kind, n, i)}
Issue(n, i)            == issued' = [issued EXCEPT ![n] = @ \cup {i}]
SetView(o, n, v)       == view' = [view EXCEPT ![o][n] = v]
SetTask(o, n, t)       == task' = [task EXCEPT ![o][n] = t]

Init ==
  /\ up = [s \in Server |-> "down"]
  /\ own = [s \in Server |-> 0]
  /\ view = [o \in Server |-> [n \in Subject |-> NoNode]]
  /\ task = [o \in Server |-> [n \in Subject |-> "none"]]
  /\ local = {} /\ net = {}
  /\ crashes = 0
  /\ issued = [n \in Subject |-> {}]
  /\ accused = {}
  /\ early = {}
-----------------------------------------------------------------------------
(* The three handlers, each under the lock of the node.                     *)

\* Deviation: the refuting incarnation is one too far.
RefuteTwoAhead(n, v, i) ==
  /\ i < MaxIncarnation
  /\ SetView(n, n, [v EXCEPT !.inc = i + 2])
  /\ Gossip("alive", n, i + 2)
  /\ Issue(n, i + 2)
  /\ UNCHANGED task

\* refute: n answers a message about itself with a newer incarnation.
Refute(n, v, i) ==
  /\ i < MaxIncarnation
  /\ SetView(n, n, [v EXCEPT !.inc = i + 1])
  /\ Gossip("alive", n, i + 1)
  /\ Issue(n, i + 1)
  /\ UNCHANGED task

Ignore == UNCHANGED <<view, task, net, issued>>

\* The node addIfAbsent finds or adds.
Added(o, n) ==
  IF Known(o, n) THEN view[o][n] ELSE [inc |-> 0, status |-> "DEAD", map |-> "none"]

StaleAlive(o, n, i, connected) ==
  IF o = n THEN i < Added(o, n).inc
           ELSE ~connected \/ i <= Added(o, n).inc

\* aliveNode.  A node already known is put into the map of the alive nodes,
\* but it is the discarded new Node whose status and incarnation are set.
AliveNode(o, n, i, bootstrap) ==
  LET v == Added(o, n) IN
  \E connected \in BOOLEAN :   \* there is a connection, or one can be made
    \/ /\ \/ StaleAlive(o, n, i, connected)
          \/ o = n /\ ~bootstrap /\ i = v.inc
       /\ SetView(o, n, v)
       /\ UNCHANGED <<task, net, issued>>
    \/ /\ ~StaleAlive(o, n, i, connected)
       /\ o = n /\ ~bootstrap /\ i # v.inc
       /\ Refute(n, v, i)
    \/ /\ ~StaleAlive(o, n, i, connected)
       /\ o # n \/ bootstrap
       /\ SetView(o, n, IF Known(o, n)
                        THEN [v EXCEPT !.map = "alive"]
                        ELSE [inc |-> i, status |-> "ALIVE", map |-> "alive"])
       /\ IF task[o][n] = "armed" THEN SetTask(o, n, "none") ELSE UNCHANGED task
       /\ Gossip("alive", n, i)
       /\ IF o = n THEN Issue(n, i) ELSE UNCHANGED issued

\* Deviation: a server believes what it hears about itself.
SuspectAnyNode(o, n, i) ==
  IF ~Known(o, n) \/ i < view[o][n].inc \/ view[o][n].status # "ALIVE"
  THEN Ignore
  ELSE /\ Gossip("suspect", n, i)
       /\ SetView(o, n, [inc |-> i, status |-> "SUSPECT", map |-> "suspect"])
       /\ SetTask(o, n, "armed")
       /\ UNCHANGED issued

\* Deviation: the suspicion has no timeout.
SuspectWithoutTask(o, n, i) ==
  IF ~Known(o, n) \/ i < view[o][n].inc \/ view[o][n].status # "ALIVE"
  THEN Ignore
  ELSE IF o = n THEN Refute(n, view[o][n], i)
  ELSE /\ Gossip("suspect", n, i)
       /\ SetView(o, n, [inc |-> i, status |-> "SUSPECT", map |-> "suspect"])
       /\ UNCHANGED <<task, issued>>

\* suspectNode, with the SuspectTask it schedules.
SuspectNode(o, n, i) ==
  IF ~Known(o, n) \/ i < view[o][n].inc \/ view[o][n].status # "ALIVE"
  THEN Ignore
  ELSE IF o = n THEN Refute(n, view[o][n], i)
  ELSE /\ Gossip("suspect", n, i)
       /\ SetView(o, n, [inc |-> i, status |-> "SUSPECT", map |-> "suspect"])
       /\ SetTask(o, n, "armed")
       /\ UNCHANGED issued

\* Deviation: the incarnation of the dead message is not compared.
DeadAtAnyIncarnation(o, n, i) ==
  IF ~Known(o, n) \/ view[o][n].status = "DEAD"
  THEN Ignore
  ELSE IF o = n THEN Refute(n, view[o][n], i)
  ELSE /\ Gossip("dead", n, i)
       /\ SetView(o, n, [inc |-> i, status |-> "DEAD", map |-> "dead"])
       /\ SetTask(o, n, "none")
       /\ UNCHANGED issued

\* Deviation: the node is moved to the dead ones, its status is left.
DeadNodeInMapOnly(o, n, i) ==
  IF ~Known(o, n) \/ i < view[o][n].inc \/ view[o][n].status = "DEAD"
  THEN Ignore
  ELSE IF o = n THEN Refute(n, view[o][n], i)
  ELSE /\ Gossip("dead", n, i)
       /\ SetView(o, n, [view[o][n] EXCEPT !.inc = i, !.map = "dead"])
       /\ SetTask(o, n, "none")
       /\ UNCHANGED issued

\* deadNode.  A SuspectTask still scheduled finds the status changed and does
\* nothing, so it is dropped here.
DeadNode(o, n, i) ==
  IF ~Known(o, n) \/ i < view[o][n].inc \/ view[o][n].status = "DEAD"
  THEN Ignore
  ELSE IF o = n THEN Refute(n, view[o][n], i)
  ELSE /\ Gossip("dead", n, i)
       /\ SetView(o, n, [inc |-> i, status |-> "DEAD", map |-> "dead"])
       /\ SetTask(o, n, "none")
       /\ UNCHANGED issued

Handle(o, m) ==
  \/ m.kind = "alive"   /\ AliveNode(o, m.node, m.inc, FALSE)
  \/ m.kind = "suspect" /\ SuspectNode(o, m.node, m.inc)
  \/ m.kind = "dead"    /\ DeadNode(o, m.node, m.inc)
-----------------------------------------------------------------------------
(* What makes a server call a handler.                                      *)

\* handle(GossipRequest) and mergeRemoteState.  What a server has sent may
\* come back to it by way of others.
Receive(o, m) ==
  /\ up[o] # "down" /\ m \in net
  /\ Handle(o, m)
  /\ early' = IF up[o] = "listening" /\ m.node = o /\ m.kind = "alive"
              THEN early \cup {o} ELSE early
  /\ UNCHANGED <<up, own, local, crashes, accused>>

\* The states a server pushes or returns on a pull: a dead node is pushed as
\* a suspect one.
Push(o, n) ==
  /\ up[o] # "down" /\ Known(o, n)
  /\ Gossip(IF view[o][n].status = "ALIVE" THEN "alive" ELSE "suspect",
            n, view[o][n].inc)
  /\ accused' = IF o = n /\ view[n][n].status # "ALIVE"
                THEN accused \cup {<<n, view[n][n].inc>>} ELSE accused
  /\ UNCHANGED <<up, own, view, task, local, crashes, issued, early>>

\* ProbeTask.probe when the ping and the redirected ping fail, as they may at
\* any time; the incarnation is read before the lock is taken.
ProbeFails(o, n) ==
  /\ up[o] = "running" /\ o # n /\ view[o][n].status \in {"ALIVE", "SUSPECT"}
  /\ local' = local \cup {<<o, Message("suspect", n, view[o][n].inc)>>}
  /\ accused' = accused \cup {<<n, view[o][n].inc>>}
  /\ UNCHANGED <<up, own, view, task, net, crashes, issued, early>>

StartSuspectTask(o, n) ==
  /\ task[o][n] = "armed"
  /\ SetTask(o, n, "running")
  /\ UNCHANGED <<up, own, view, local, net, crashes, issued, accused, early>>

\* Deviation: the accuser takes a new incarnation of its own.
RunSuspectTaskAhead(o, n) ==
  /\ task[o][n] = "running" /\ view[o][n].inc < MaxIncarnation
  /\ SetTask(o, n, "none")
  /\ local' = IF view[o][n].status = "SUSPECT"
              THEN local \cup {<<o, Message("dead", n, view[o][n].inc + 1)>>} ELSE local
  /\ UNCHANGED <<up, own, view, net, crashes, issued, accused, early>>

\* SuspectTask.run: status and incarnation are read without the lock.
RunSuspectTask(o, n) ==
  /\ task[o][n] = "running"
  /\ SetTask(o, n, "none")
  /\ local' = IF view[o][n].status = "SUSPECT"
              THEN local \cup {<<o, Message("dead", n, view[o][n].inc)>>} ELSE local
  /\ UNCHANGED <<up, own, view, net, crashes, issued, accused, early>>

HandIn(o, m) ==
  /\ <<o, m>> \in local
  /\ local' = local \ {<<o, m>>}
  /\ Handle(o, m)
  /\ UNCHANGED <<up, own, crashes, accused, early>>

\* ProbeTask at the end of a round.
RemoveDeadNodes(o) ==
  /\ up[o] = "running"
  /\ \E n \in Subject : view[o][n].map = "dead"
  /\ view' = [view EXCEPT ![o] = [n \in Subject |->
                IF view[o][n].map = "dead" THEN NoNode ELSE view[o][n]]]
  /\ UNCHANGED <<up, own, task, local, net, crashes, issued, accused, early>>
-----------------------------------------------------------------------------
(* Starting, leaving and crashing.                                          *)

\* doStart opens the port and registers the handlers ...
Listen(s) ==
  /\ up[s] = "down"
  /\ up' = [up EXCEPT ![s] = "listening"]
  /\ UNCHANGED <<own, view, task, local, net, crashes, issued, accused, early>>

\* ... before the server has added itself to its nodes.
Bootstrap(s) ==
  /\ up[s] = "listening"
  /\ up' = [up EXCEPT ![s] = "running"]
  /\ own' = [own EXCEPT ![s] = @ + 1]
  /\ IF s \in Subject THEN AliveNode(s, s, own[s] + 1, TRUE)
                      ELSE Ignore
  /\ UNCHANGED <<local, crashes, accused, early>>

\* left(): the dead message a server sends about itself is refuted by itself;
\* the notifier that would close the server is dropped with it.
Leave(n) ==
  /\ up[n] = "running" /\ own[n] < MaxIncarnation
  /\ own' = [own EXCEPT ![n] = @ + 1]
  /\ DeadNode(n, n, own[n] + 1)
  /\ UNCHANGED <<up, local, crashes, accused, early>>

\* Nothing of a server is kept on disk.
Crash(s) ==
  /\ up[s] # "down" /\ s \in Crashing /\ crashes < MaxCrashes
  /\ crashes' = crashes + 1
  /\ up' = [up EXCEPT ![s] = "down"]
  /\ own' = [own EXCEPT ![s] = 0]
  /\ view' = [view EXCEPT ![s] = [n \in Subject |-> NoNode]]
  /\ task' = [task EXCEPT ![s] = [n \in Subject |-> "none"]]
  /\ local' = {l \in local : l[1] # s}
  /\ early' = early \ {s}
  /\ UNCHANGED <<net, issued, accused>>

Next ==
  \/ \E s \in Server : Listen(s) \/ Bootstrap(s) \/ Crash(s) \/ RemoveDeadNodes(s)
  \/ \E n \in Subject : Leave(n)
  \/ \E o \in Server, n \in Subject :
       Push(o, n) \/ ProbeFails(o, n) \/ StartSuspectTask(o, n) \/ RunSuspectTask(o, n)
  \/ \E o \in Server, m \in net : Receive(o, m)
  \/ \E l \in local : HandIn(l[1], l[2])

\* The threads of the scheduled pool run the tasks handed to them.
Fairness ==
  \A o \in Server, n \in Subject :
    /\ WF_vars(StartSuspectTask(o, n))
    /\ WF_vars(RunSuspectTask(o, n))
    /\ WF_vars(\E i \in Incarnation : HandIn(o, Message("dead", n, i)))

Spec == Init /\ [][Next]_vars /\ Fairness
-----------------------------------------------------------------------------
Node == [inc : Incarnation, status : Status, map : {"none", "alive", "suspect", "dead"}]

Messages == [kind : {"alive", "suspect", "dead"}, node : Subject, inc : Incarnation]

TypeOK ==
  /\ up \in [Server -> {"down", "listening", "running"}]
  /\ own \in [Server -> Incarnation]
  /\ view \in [Server -> [Subject -> Node \cup {NoNode}]]
  /\ task \in [Server -> [Subject -> {"none", "armed", "running"}]]
  /\ local \subseteq Server \X Messages /\ net \subseteq Messages
  /\ crashes \in 0 .. MaxCrashes
  /\ issued \in [Subject -> SUBSET Incarnation]
  /\ accused \subseteq Subject \X Incarnation
  /\ early \subseteq Server

\* Only a node itself gives itself a new incarnation (refute and doStart):
\* whatever others say or believe about it carries one it has given itself,
\* or the 0 of a node nobody could connect to.
IncarnationIsOwned ==
  /\ \A m \in net : m.inc \in issued[m.node] \cup {0}
  /\ \A o \in Server, n \in Subject : view[o][n].inc \in issued[n] \cup {0}

\* aliveNode has put n back among o's alive nodes for a newer incarnation that
\* o has not recorded: the Node keeps its incarnation and status.
Refuted(o, n) ==
  view[o][n].map = "alive" /\ \E i \in issued[n] : i > view[o][n].inc

\* The status of a node and the map Nodes keeps it in agree but for the nodes
\* that aliveNode has put back among the alive ones without telling them: such
\* a node has given itself an incarnation newer than the one o knows.
MapsAgree ==
  \A o \in Server, n \in Subject :
    LET v == view[o][n] IN
    /\ v.map = "suspect" => v.status = "SUSPECT"
    /\ v.map = "dead" => v.status = "DEAD"
    /\ v.map = "none" => v.status \in {"ABSENT", "DEAD"}
    /\ v.map = "alive" => v.status = "ALIVE" \/ Refuted(o, n)

\* Whatever order the messages about it, its restarts and left() come in, a
\* server never lists itself as suspect or dead, and a running one is alive to
\* itself.  Exactly the servers that have heard of themselves as alive between
\* Listen and Bootstrap are not: they keep status DEAD, in none of the maps.
SelfNeverDoubted ==
  \A n \in Subject :
    LET v == view[n][n] IN
    IF n \in early THEN v.status = "DEAD" /\ v.map = "none"
    ELSE IF up[n] = "running" THEN v.status = "ALIVE" /\ v.map = "alive"
    ELSE v = NoNode

\* A node is only declared dead at an incarnation at which somebody's probe
\* of it has failed, or which it pushed itself: a server that hears of itself
\* between Listen and Bootstrap keeps itself as a dead node from then on.
DeadWasAccused ==
  \A o \in Server, n \in Subject :
    view[o][n].map = "dead" => <<n, view[o][n].inc>> \in accused

\* What a server knows of a node's incarnation never goes back while it
\* knows the node (the comparisons of the three handlers).
IncarnationGrows ==
  [][\A o \in Server, n \in Subject :
       Known(o, n) /\ Known(o, n)' => view'[o][n].inc >= view[o][n].inc]_vars

\* A suspicion ends with the death of the node (or the crash of the server
\* that holds it) or is refuted: no order of cancelling and running tasks
\* strands a suspect.  A refuted one may keep status SUSPECT for ever, since
\* aliveNode cancels the task and sets the status of the Node it discards.
SuspicionEnds ==
  \A o \in Server, n \in Subject :
    view[o][n].status = "SUSPECT" ~> view[o][n].status # "SUSPECT" \/ Refuted(o, n)
=============================================================================
