--------------------------- MODULE MembershipProofs ---------------------------
(***************************************************************************)
(* For any number of servers, incarnations and crashes: incarnations are   *)
(* given by their own node only, knowledge of them never goes back, a      *)
(* server never doubts itself, and nobody is dead without an accusation.   *)
(***************************************************************************)
EXTENDS Membership, TLAPS

Issued(n, i)  == i \in issued[n] \cup {0}
Accused(n, i) == i = 0 \/ <<n, i>> \in accused

\* What is true of v, what o knows about n.  A node that is only known by name
\* has incarnation 0, and so nobody suspects it.
NodeOK(o, n, v) ==
  /\ v \in Node \cup {NoNode} /\ Issued(n, v.inc)
  /\ v.status \in {"ALIVE", "SUSPECT"} => v.inc > 0
  /\ v.map = "suspect" => v.status = "SUSPECT"
  /\ v.map = "dead" => v.status = "DEAD" /\ v.inc > 0
  /\ v.map = "none" => v.status \in {"ABSENT", "DEAD"}
  /\ v.map = "alive" => v.status = "ALIVE" \/ \E i \in issued[n] : i > v.inc
  /\ o = n => v.map = "none" \/ (v.map = "alive" /\ v.status = "ALIVE")
  /\ o # n /\ v.status \in {"SUSPECT", "DEAD"} => Accused(n, v.inc)

MessageOK(m) ==
  /\ m \in Messages /\ Issued(m.node, m.inc)
  /\ IF m.kind = "alive" THEN m.inc > 0 ELSE Accused(m.node, m.inc)

\* The variables whose type is all there is to say about them; a server that
\* does not run has no incarnation.
PlainOK ==
  /\ up \in [Server -> {"down", "listening", "running"}]
  /\ own \in [Server -> Incarnation]
  /\ \A s \in Server : up[s] # "running" => own[s] = 0
  /\ task \in [Server -> [Subject -> {"none", "armed", "running"}]]
  /\ crashes \in 0 .. MaxCrashes
  /\ issued \in [Subject -> SUBSET Incarnation]
  /\ accused \subseteq Subject \X Incarnation
  /\ early \subseteq Server

ViewOK ==
  /\ view \in [Server -> [Subject -> Node \cup {NoNode}]]
  /\ \A o \in Server, n \in Subject : NodeOK(o, n, view[o][n])

\* A task makes suspect and dead messages only.
TaskMessageOK(l) == l \in Server \X Messages /\ MessageOK(l[2]) /\ l[2].kind # "alive"

MessagesOK ==
  /\ \A m \in net : MessageOK(m)
  /\ \A l \in local : TaskMessageOK(l)

IInv == PlainOK /\ ViewOK /\ MessagesOK

\* What a server knows of itself.  One that has heard of itself too early has
\* refuted that, and so its Bootstrap comes with an older incarnation.
SelfOK(n) ==
  /\ n \in early => /\ up[n] # "down" /\ view[n][n].inc > 1
                    /\ view[n][n].status = "DEAD" /\ view[n][n].map = "none"
  /\ n \notin early /\ up[n] = "running" =>
       view[n][n].status = "ALIVE" /\ view[n][n].map = "alive"
  /\ n \notin early /\ up[n] # "running" => ~Known(n, n)

LEMMA Basics ==
  /\ Subject \subseteq Server /\ MaxIncarnation \in Nat /\ MaxCrashes \in Nat
  /\ 0 \in Incarnation /\ 1 \in Incarnation /\ Incarnation \subseteq Nat
  BY SubjectAssumption, IncarnationAssumption DEF Incarnation

LEMMA InvariantInit == Init => IInv
<1> SUFFICES ASSUME Init PROVE IInv
  OBVIOUS
<1>1. PlainOK /\ MessagesOK
  BY Basics DEF Init, PlainOK, MessagesOK
<1>2. ViewOK
  BY DEF Init, ViewOK, NodeOK, NoNode, Issued
<1> QED BY <1>1, <1>2 DEF IInv
-----------------------------------------------------------------------------
(* What a handler does, whatever it is called for.                          *)

\* History only grows.
Grows == /\ \A n \in Subject : issued[n] \subseteq issued'[n]
         /\ accused \subseteq accused'

\* v is what o knows about n from now on.
Learns(o, n, v) ==
  /\ view' = [view EXCEPT ![o][n] = v] /\ NodeOK(o, n, v)'
  /\ Known(o, n) => v.inc >= view[o][n].inc

Spreads ==
  /\ \A m \in net' : m \in net \/ MessageOK(m)'
  /\ task' \in [Server -> [Subject -> {"none", "armed", "running"}]]
  /\ issued' \in [Subject -> SUBSET Incarnation]
  /\ Grows

Handles(o, n) == Spreads /\ \E v \in Node \cup {NoNode} : Learns(o, n, v)

LEMMA IncIsNat ==
  ASSUME NEW v \in Node \cup {NoNode}
  PROVE  v.inc \in Nat
<1>1. CASE v \in Node
  BY <1>1, Basics DEF Node
<1>2. CASE v = NoNode
  BY <1>2 DEF NoNode
<1> QED BY <1>1, <1>2

LEMMA IgnoreHandles ==
  ASSUME IInv, NEW o \in Server, NEW n \in Subject, Ignore, UNCHANGED accused
  PROVE  Handles(o, n)
<1>1. Spreads
  BY DEF Ignore, IInv, PlainOK, Spreads, Grows
<1>2. view[o][n] \in Node \cup {NoNode} /\ Learns(o, n, view[o][n])
  <2>1. view' = [view EXCEPT ![o][n] = view[o][n]]
    BY DEF Ignore, IInv, ViewOK
  <2>2. NodeOK(o, n, view[o][n])'
    BY DEF Ignore, IInv, ViewOK, NodeOK, Issued, Accused
  <2>3. PICK v \in Node \cup {NoNode} : v = view[o][n]
    BY DEF IInv, ViewOK
  <2>4. v.inc \in Int
    BY IncIsNat
  <2>5. v.inc >= view[o][n].inc
    BY <2>3, <2>4
  <2> QED BY <2>1, <2>2, <2>3, <2>5 DEF Learns
<1> QED BY <1>1, <1>2 DEF Handles

LEMMA RefuteHandles ==
  ASSUME IInv, UNCHANGED accused, NEW n \in Subject, NEW i \in Incarnation, NEW v \in Node,
         NodeOK(n, n, v), Known(n, n) => v = view[n][n], i >= v.inc, Refute(n, v, i)
  PROVE  Handles(n, n)
<1>1. i + 1 \in Incarnation /\ i + 1 > 0 /\ i + 1 >= v.inc /\ v.inc \in Int
  BY Basics DEF Refute, Incarnation, Node
<1>2. issued' = [issued EXCEPT ![n] = @ \cup {i + 1}]
      /\ net' = net \cup {Message("alive", n, i + 1)}
  BY DEF Refute, Issue, Gossip
<1>3. MessageOK(Message("alive", n, i + 1))'
  BY <1>1, <1>2 DEF MessageOK, Message, Messages, Issued, IInv, PlainOK
<1>4. Spreads
  BY <1>1, <1>2, <1>3 DEF Refute, Spreads, Grows, IInv, PlainOK
<1> DEFINE w == [v EXCEPT !.inc = i + 1]
<1>5. w \in Node /\ w.inc = i + 1 /\ w.status = v.status /\ w.map = v.map
  BY <1>1 DEF Node
<1>6. NodeOK(n, n, w)'
  <2>1. Issued(n, w.inc)'
    BY <1>2, <1>5 DEF Issued, IInv, PlainOK
  <2> HIDE DEF w
  <2> QED BY <1>1, <1>5, <2>1 DEF NodeOK
<1>7. view' = [view EXCEPT ![n][n] = w]
  BY DEF Refute, SetView
<1> HIDE DEF w
<1>8. Learns(n, n, w)
  BY <1>1, <1>5, <1>6, <1>7 DEF Learns
<1> QED BY <1>4, <1>5, <1>8 DEF Handles

\* The node a handler works on.
LEMMA AddedOK ==
  ASSUME IInv, NEW o \in Server, NEW n \in Subject
  PROVE  /\ Added(o, n) \in Node /\ NodeOK(o, n, Added(o, n))
         /\ Known(o, n) => Added(o, n) = view[o][n]
<1>1. CASE Known(o, n)
  BY <1>1 DEF Added, Known, IInv, ViewOK, NodeOK, NoNode
<1>2. CASE ~Known(o, n)
  BY <1>2, Basics DEF Added, NodeOK, Node, Status, Issued, Accused
<1> QED BY <1>1, <1>2

LEMMA KnownIsNode ==
  ASSUME IInv, NEW o \in Server, NEW n \in Subject, Known(o, n)
  PROVE  view[o][n] \in Node /\ NodeOK(o, n, view[o][n])
  BY DEF Known, IInv, ViewOK, NoNode

LEMMA AliveHandles ==
  ASSUME IInv, UNCHANGED accused, NEW o \in Server, NEW n \in Subject, NEW i \in Incarnation,
         NEW b \in BOOLEAN, o # n => Issued(n, i), AliveNode(o, n, i, b),
         b => o = n /\ i > 0 /\ (Known(o, n) => i < view[o][n].inc)
  PROVE  Handles(o, n)
<1>0. PICK v \in Node : v = Added(o, n)
  BY AddedOK
<1>1. NodeOK(o, n, v) /\ (Known(o, n) => v = view[o][n]) /\ v.inc \in Nat
  BY <1>0, AddedOK, IncIsNat
<1>2. PICK connected \in BOOLEAN :
        \/ SetView(o, n, v) /\ UNCHANGED <<task, net, issued>>
        \/ /\ ~StaleAlive(o, n, i, connected) /\ o = n /\ Refute(n, v, i)
        \/ /\ ~StaleAlive(o, n, i, connected)
           /\ SetView(o, n, IF Known(o, n)
                            THEN [v EXCEPT !.map = "alive"]
                            ELSE [inc |-> i, status |-> "ALIVE", map |-> "alive"])
           /\ IF task[o][n] = "armed" THEN SetTask(o, n, "none") ELSE UNCHANGED task
           /\ Gossip("alive", n, i)
           /\ IF o = n THEN Issue(n, i) ELSE UNCHANGED issued
           /\ o # n \/ b
  BY <1>0 DEF AliveNode
<1>3. CASE SetView(o, n, v) /\ UNCHANGED <<task, net, issued>>
  <2>1. Spreads
    BY <1>3 DEF IInv, PlainOK, Spreads, Grows
  <2>2. NodeOK(o, n, v)'
    BY <1>1, <1>3 DEF NodeOK, Issued, Accused
  <2>3. Learns(o, n, v)
    BY <1>1, <1>3, <2>2 DEF Learns, SetView
  <2> QED BY <1>1, <2>1, <2>3 DEF Handles
<1>4. CASE ~StaleAlive(o, n, i, connected) /\ o = n /\ Refute(n, v, i)
  <2>1. i >= v.inc
    BY <1>0, <1>1, <1>4, Basics DEF StaleAlive, Incarnation
  <2> QED BY <1>1, <1>4, <2>1, RefuteHandles
<1>5. CASE /\ ~StaleAlive(o, n, i, connected)
           /\ SetView(o, n, IF Known(o, n)
                            THEN [v EXCEPT !.map = "alive"]
                            ELSE [inc |-> i, status |-> "ALIVE", map |-> "alive"])
           /\ IF task[o][n] = "armed" THEN SetTask(o, n, "none") ELSE UNCHANGED task
           /\ Gossip("alive", n, i)
           /\ IF o = n THEN Issue(n, i) ELSE UNCHANGED issued
           /\ o # n \/ b
  <2>1. i > 0
    BY <1>0, <1>1, <1>5, Basics DEF StaleAlive, Incarnation
  <2>2. /\ issued' \in [Subject -> SUBSET Incarnation] /\ Grows
        /\ Issued(n, i)'
    <3>1. issued \in [Subject -> SUBSET Incarnation]
      BY DEF IInv, PlainOK
    <3>2. CASE o = n
      <4>1. issued' = [issued EXCEPT ![n] = @ \cup {i}]
        BY <1>5, <3>2 DEF Issue
      <4> QED BY <3>1, <4>1 DEF Grows, Issued
    <3>3. CASE o # n
      BY <1>5, <3>1, <3>3 DEF Grows, Issued
    <3> QED BY <3>2, <3>3
  <2>3. MessageOK(Message("alive", n, i))'
    BY <2>1, <2>2 DEF MessageOK, Message, Messages, Issued
  <2>4. Spreads
    <3>1. task' \in [Server -> [Subject -> {"none", "armed", "running"}]]
      BY <1>5 DEF SetTask, IInv, PlainOK
    <3>2. \A m \in net' : m \in net \/ MessageOK(m)'
      BY <1>5, <2>3 DEF Gossip
    <3> QED BY <2>2, <3>1, <3>2 DEF Spreads
  <2>5. CASE Known(o, n)
    <3>0. PICK w \in Node : w = [v EXCEPT !.map = "alive"]
      BY DEF Node
    <3>1. w.inc = v.inc /\ w.status = v.status /\ w.map = "alive"
      BY <3>0 DEF Node
    <3>2. view' = [view EXCEPT ![o][n] = w]
      BY <1>5, <2>5, <3>0 DEF SetView
    <3>3. i > v.inc /\ o # n
      BY <1>0, <1>1, <1>5, <2>5, Basics DEF StaleAlive, Incarnation
    <3>4. \E j \in issued'[n] : j > v.inc
      BY <1>5, <2>1, <3>3 DEF Issued
    <3>5. NodeOK(o, n, w)'
      BY <1>1, <2>2, <3>1, <3>3, <3>4 DEF NodeOK, Issued, Accused, Grows
    <3>6. Learns(o, n, w)
      BY <1>1, <3>1, <3>2, <3>5 DEF Learns
    <3> QED BY <2>4, <3>1, <3>6 DEF Handles
  <2>6. CASE ~Known(o, n)
    <3>0. PICK w \in Node : w = [inc |-> i, status |-> "ALIVE", map |-> "alive"]
      BY DEF Node, Status
    <3>1. view' = [view EXCEPT ![o][n] = w] /\ w.inc = i /\ w.status = "ALIVE" /\ w.map = "alive"
      BY <1>5, <2>6, <3>0 DEF SetView
    <3>2. NodeOK(o, n, w)'
      BY <2>1, <2>2, <3>1 DEF NodeOK, Issued
    <3>3. Learns(o, n, w)
      BY <2>6, <3>1, <3>2 DEF Learns
    <3> QED BY <2>4, <3>1, <3>3 DEF Handles
  <2> QED BY <2>5, <2>6
<1> QED BY <1>2, <1>3, <1>4, <1>5

LEMMA SuspectHandles ==
  ASSUME IInv, UNCHANGED accused, NEW o \in Server, NEW n \in Subject, NEW i \in Incarnation,
         o # n => Issued(n, i) /\ Accused(n, i), SuspectNode(o, n, i)
  PROVE  Handles(o, n)
<1>1. CASE ~Known(o, n) \/ i < view[o][n].inc \/ view[o][n].status # "ALIVE"
  BY <1>1, IgnoreHandles DEF SuspectNode
<1>2. CASE Known(o, n) /\ ~(i < view[o][n].inc) /\ view[o][n].status = "ALIVE"
  <2>1. PICK v \in Node : v = view[o][n] /\ NodeOK(o, n, v)
    BY <1>2, KnownIsNode
  <2>2. v.inc > 0 /\ v.inc \in Nat /\ i >= v.inc /\ i > 0
    BY <1>2, <2>1, IncIsNat, Basics DEF NodeOK
  <2>3. CASE o = n
    BY <1>2, <2>1, <2>2, <2>3, RefuteHandles DEF SuspectNode
  <2>4. CASE o # n
    <3>1. PICK w \in Node : w = [inc |-> i, status |-> "SUSPECT", map |-> "suspect"]
      BY DEF Node, Status
    <3>2. /\ view' = [view EXCEPT ![o][n] = w] /\ w.inc = i
          /\ w.status = "SUSPECT" /\ w.map = "suspect"
      BY <1>2, <2>4, <3>1 DEF SuspectNode, SetView
    <3>3. issued' = issued /\ Gossip("suspect", n, i) /\ SetTask(o, n, "armed")
      BY <1>2, <2>4 DEF SuspectNode
    <3>4. MessageOK(Message("suspect", n, i))'
      BY <2>4, <3>3 DEF MessageOK, Message, Messages, Issued, Accused
    <3>5. Spreads
      BY <3>3, <3>4 DEF Spreads, Grows, Gossip, SetTask, IInv, PlainOK
    <3>6. NodeOK(o, n, w)'
      BY <2>2, <2>4, <3>2, <3>3 DEF NodeOK, Issued, Accused
    <3> QED BY <2>1, <2>2, <3>2, <3>5, <3>6 DEF Handles, Learns
  <2> QED BY <2>3, <2>4
<1> QED BY <1>1, <1>2

LEMMA DeadHandles ==
  ASSUME IInv, UNCHANGED accused, NEW o \in Server, NEW n \in Subject, NEW i \in Incarnation,
         o # n => Issued(n, i) /\ Accused(n, i), DeadNode(o, n, i)
  PROVE  Handles(o, n)
<1>1. CASE ~Known(o, n) \/ i < view[o][n].inc \/ view[o][n].status = "DEAD"
  BY <1>1, IgnoreHandles DEF DeadNode
<1>2. CASE Known(o, n) /\ ~(i < view[o][n].inc) /\ view[o][n].status # "DEAD"
  <2>1. PICK v \in Node : v = view[o][n] /\ NodeOK(o, n, v)
    BY <1>2, KnownIsNode
  <2>2. v.status \in {"ALIVE", "SUSPECT"}
    BY <1>2, <2>1 DEF Node, Status
  <2>3. v.inc > 0 /\ v.inc \in Nat /\ i >= v.inc /\ i > 0
    BY <1>2, <2>1, <2>2, IncIsNat, Basics DEF NodeOK
  <2>4. CASE o = n
    BY <1>2, <2>1, <2>3, <2>4, RefuteHandles DEF DeadNode
  <2>5. CASE o # n
    <3>1. PICK w \in Node : w = [inc |-> i, status |-> "DEAD", map |-> "dead"]
      BY DEF Node, Status
    <3>2. /\ view' = [view EXCEPT ![o][n] = w] /\ w.inc = i
          /\ w.status = "DEAD" /\ w.map = "dead"
      BY <1>2, <2>5, <3>1 DEF DeadNode, SetView
    <3>3. issued' = issued /\ Gossip("dead", n, i) /\ SetTask(o, n, "none")
      BY <1>2, <2>5 DEF DeadNode
    <3>4. MessageOK(Message("dead", n, i))'
      BY <2>5, <3>3 DEF MessageOK, Message, Messages, Issued, Accused
    <3>5. Spreads
      BY <3>3, <3>4 DEF Spreads, Grows, Gossip, SetTask, IInv, PlainOK
    <3>6. NodeOK(o, n, w)'
      BY <2>3, <2>5, <3>2, <3>3 DEF NodeOK, Issued, Accused
    <3> QED BY <2>1, <2>3, <3>2, <3>5, <3>6 DEF Handles, Learns
  <2> QED BY <2>4, <2>5
<1> QED BY <1>1, <1>2

LEMMA HandleHandles ==
  ASSUME IInv, UNCHANGED accused, NEW o \in Server, NEW m, MessageOK(m), Handle(o, m)
  PROVE  m.node \in Subject /\ Handles(o, m.node)
<1>1. m.node \in Subject /\ m.inc \in Incarnation /\ Issued(m.node, m.inc)
  BY DEF MessageOK, Messages
<1>2. CASE m.kind = "alive" /\ AliveNode(o, m.node, m.inc, FALSE)
  BY <1>1, <1>2, AliveHandles
<1>3. CASE m.kind = "suspect" /\ SuspectNode(o, m.node, m.inc)
  BY <1>1, <1>3, SuspectHandles DEF MessageOK
<1>4. CASE m.kind = "dead" /\ DeadNode(o, m.node, m.inc)
  BY <1>1, <1>4, DeadHandles DEF MessageOK
<1> QED BY <1>1, <1>2, <1>3, <1>4 DEF Handle
-----------------------------------------------------------------------------
(* One step.                                                                *)

\* What [Next]_vars keeps of every node: the action of IncarnationGrows.
NeverBack ==
  \A o \in Server, n \in Subject :
    Known(o, n) /\ Known(o, n)' => view'[o][n].inc >= view[o][n].inc

LEMMA StillOK ==
  ASSUME Grows
  PROVE  /\ \A o \in Server, n \in Subject, v \in Node \cup {NoNode} :
              NodeOK(o, n, v) => NodeOK(o, n, v)'
         /\ \A m : MessageOK(m) => MessageOK(m)'
<1>1. \A o \in Server, n \in Subject, v \in Node \cup {NoNode} : NodeOK(o, n, v) => NodeOK(o, n, v)'
  BY DEF Grows, NodeOK, Issued, Accused
<1>2. \A m : MessageOK(m) => MessageOK(m)'
  <2> TAKE m
  <2> HAVE MessageOK(m)
  <2>1. m \in Messages /\ m.node \in Subject
    BY DEF MessageOK, Messages
  <2> QED BY <2>1 DEF Grows, MessageOK, Issued, Accused
<1> QED BY <1>1, <1>2

\* A step keeps the invariant if it keeps the plain variables in their types
\* and what it adds is right.
LEMMA StepKeeps ==
  ASSUME IInv, Grows, PlainOK',
         view' \in [Server -> [Subject -> Node \cup {NoNode}]],
         \A o \in Server, n \in Subject :
           view'[o][n] \in {view[o][n], NoNode} \/ NodeOK(o, n, view[o][n])',
         \A m \in net' : m \in net \/ MessageOK(m)',
         \A l \in local' : l \in local \/ TaskMessageOK(l)'
  PROVE  IInv'
<1>1. ViewOK'
  <2> SUFFICES ASSUME NEW o \in Server, NEW n \in Subject
               PROVE  NodeOK(o, n, view[o][n])'
    BY DEF ViewOK
  <2>1. CASE view'[o][n] = view[o][n]
    <3>1. PICK v \in Node \cup {NoNode} : v = view[o][n] /\ NodeOK(o, n, v)
      BY DEF IInv, ViewOK
    <3>2. NodeOK(o, n, v)'
      BY <3>1, StillOK
    <3> QED BY <2>1, <3>1, <3>2 DEF NodeOK
  <2>2. CASE view'[o][n] = NoNode
    BY <2>2 DEF NodeOK, NoNode, Issued
  <2> QED BY <2>1, <2>2
<1>2. MessagesOK'
  BY StillOK DEF IInv, MessagesOK, TaskMessageOK
<1> QED BY <1>1, <1>2 DEF IInv

LEMMA HandlesKeep ==
  ASSUME IInv, NEW o \in Server, NEW n \in Subject, Handles(o, n),
         up' \in [Server -> {"down", "listening", "running"}],
         own' \in [Server -> Incarnation],
         \A s \in Server : up'[s] # "running" => own'[s] = 0,
         UNCHANGED <<crashes, accused>>, early' \subseteq Server, local' \subseteq local
  PROVE  IInv' /\ NeverBack
<1>1. PICK v \in Node \cup {NoNode} : Learns(o, n, v)
  BY DEF Handles
<1>2. Spreads /\ Grows
  BY DEF Handles, Spreads
<1>3. PlainOK'
  BY <1>2 DEF Spreads, IInv, PlainOK
<1>4. /\ view' \in [Server -> [Subject -> Node \cup {NoNode}]]
      /\ \A p \in Server, q \in Subject :
           view'[p][q] = IF p = o /\ q = n THEN v ELSE view[p][q]
  BY <1>1 DEF Learns, IInv, ViewOK
<1>5. NodeOK(o, n, view[o][n])'
  BY <1>1, <1>4 DEF Learns, NodeOK
<1>6. IInv'
  BY <1>2, <1>3, <1>4, <1>5, StepKeeps DEF Spreads
<1>7. NeverBack
  <2> SUFFICES ASSUME NEW p \in Server, NEW q \in Subject, Known(p, q)
               PROVE  view'[p][q].inc >= view[p][q].inc
    BY DEF NeverBack
  <2>1. CASE p = o /\ q = n
    BY <1>1, <1>4, <2>1 DEF Learns
  <2>2. CASE ~(p = o /\ q = n)
    <3>1. view[p][q].inc \in Nat
      BY IncIsNat DEF IInv, ViewOK
    <3> QED BY <1>4, <2>2, <3>1
  <2> QED BY <2>1, <2>2
<1> QED BY <1>6, <1>7

\* The steps that leave what is known alone.
LEMMA ViewStays ==
  ASSUME IInv, UNCHANGED view
  PROVE  /\ view' \in [Server -> [Subject -> Node \cup {NoNode}]]
         /\ \A o \in Server, n \in Subject : view'[o][n] = view[o][n]
         /\ NeverBack
<1>1. \A o \in Server, n \in Subject : view[o][n].inc \in Nat
  BY IncIsNat DEF IInv, ViewOK
<1> QED BY <1>1 DEF IInv, ViewOK, NeverBack

LEMMA ReceiveStep ==
  ASSUME IInv, NEW o \in Server, NEW m \in net, Receive(o, m)
  PROVE  IInv' /\ NeverBack
<1>1. MessageOK(m) /\ Handle(o, m) /\ UNCHANGED <<up, own, local, crashes, accused>>
      /\ early' \subseteq Server
  BY DEF Receive, IInv, PlainOK, MessagesOK
<1>2. m.node \in Subject /\ Handles(o, m.node)
  BY <1>1, HandleHandles
<1> QED BY <1>1, <1>2, HandlesKeep DEF IInv, PlainOK

LEMMA HandInStep ==
  ASSUME IInv, NEW l \in local, HandIn(l[1], l[2])
  PROVE  IInv' /\ NeverBack
<1>1. l[1] \in Server /\ MessageOK(l[2])
  BY DEF IInv, MessagesOK, TaskMessageOK
<1>2. /\ Handle(l[1], l[2]) /\ UNCHANGED <<up, own, crashes, accused, early>>
      /\ local' \subseteq local
  BY DEF HandIn
<1>3. l[2].node \in Subject /\ Handles(l[1], l[2].node)
  BY <1>1, <1>2, HandleHandles
<1> QED BY <1>1, <1>2, <1>3, HandlesKeep DEF IInv, PlainOK

LEMMA BootstrapStep ==
  ASSUME IInv, \A n \in Subject : SelfOK(n), NEW s \in Server, Bootstrap(s)
  PROVE  IInv' /\ NeverBack
<1>0. /\ up[s] = "listening" /\ up' = [up EXCEPT ![s] = "running"]
      /\ own' = [own EXCEPT ![s] = own[s] + 1]
      /\ s \in Subject => AliveNode(s, s, own[s] + 1, TRUE)
      /\ s \notin Subject => Ignore
  BY DEF Bootstrap
<1>1. own[s] = 0 /\ own[s] + 1 = 1
  BY <1>0 DEF IInv, PlainOK
<1>2. /\ up' \in [Server -> {"down", "listening", "running"}]
      /\ own' \in [Server -> Incarnation]
      /\ \A t \in Server : up'[t] # "running" => own'[t] = 0
  BY <1>0, <1>1, Basics DEF IInv, PlainOK
<1>3. UNCHANGED <<local, crashes, accused, early>>
  BY DEF Bootstrap
<1>4. CASE s \in Subject
  <2>0. AliveNode(s, s, own[s] + 1, TRUE)
    BY <1>0, <1>4
  <2>1. own[s] + 1 \in Incarnation /\ own[s] + 1 > 0
    BY <1>1, Basics
  <2>2. Known(s, s) => own[s] + 1 < view[s][s].inc
    BY <1>0, <1>1, <1>4 DEF SelfOK
  <2>3. Handles(s, s)
    BY <1>3, <1>4, <2>0, <2>1, <2>2, AliveHandles
  <2> QED BY <1>2, <1>3, <1>4, <2>3, HandlesKeep DEF IInv, PlainOK
<1>5. CASE s \notin Subject
  <2>1. UNCHANGED <<view, task, net, issued>>
    BY <1>0, <1>5 DEF Ignore
  <2>2. PlainOK' /\ Grows
    BY <1>2, <1>3, <2>1 DEF IInv, PlainOK, Grows
  <2> QED BY <1>3, <2>1, <2>2, ViewStays, StepKeeps
<1> QED BY <1>4, <1>5

LEMMA LeaveStep ==
  ASSUME IInv, NEW n \in Subject, Leave(n)
  PROVE  IInv' /\ NeverBack
<1>1. n \in Server /\ own[n] + 1 \in Incarnation
  BY Basics DEF Leave, Incarnation, IInv, PlainOK
<1>2. /\ own' \in [Server -> Incarnation]
      /\ \A t \in Server : up'[t] # "running" => own'[t] = 0
  BY <1>1 DEF Leave, IInv, PlainOK
<1>3. DeadNode(n, n, own[n] + 1) /\ UNCHANGED <<up, local, crashes, accused, early>>
  BY DEF Leave
<1>4. Handles(n, n)
  BY <1>1, <1>3, DeadHandles
<1> QED BY <1>1, <1>2, <1>3, <1>4, HandlesKeep DEF IInv, PlainOK

LEMMA PushStep ==
  ASSUME IInv, NEW o \in Server, NEW n \in Subject, Push(o, n)
  PROVE  IInv' /\ NeverBack
<1>1. PICK v \in Node : v = view[o][n] /\ NodeOK(o, n, v)
  BY KnownIsNode DEF Push
<1>2. /\ UNCHANGED <<up, own, view, task, local, crashes, issued, early>>
      /\ v.inc \in Incarnation
  BY DEF Push, Node
<1>3. PICK kind \in {"alive", "suspect"} :
        /\ net' = net \cup {Message(kind, n, v.inc)}
        /\ IF kind = "suspect" THEN v.status # "ALIVE" ELSE v.inc > 0
  BY <1>1 DEF Push, Gossip, NodeOK
<1>4. accused' \in {accused, accused \cup {<<n, v.inc>>}}
  BY <1>1 DEF Push
<1>5. v.status # "ALIVE" => Accused(n, v.inc)'
  <2> SUFFICES ASSUME v.status # "ALIVE" PROVE Accused(n, v.inc)'
    OBVIOUS
  <2>1. CASE o = n
    BY <1>1, <2>1 DEF Push, Accused
  <2>2. CASE o # n
    <3>1. v.status \in {"SUSPECT", "DEAD"}
      BY DEF Node, Status
    <3> QED BY <1>1, <1>4, <2>2, <3>1 DEF NodeOK, Accused
  <2> QED BY <2>1, <2>2
<1>6. MessageOK(Message(kind, n, v.inc))'
  BY <1>1, <1>2, <1>3, <1>5 DEF MessageOK, Message, Messages, NodeOK, Issued
<1>7. Grows /\ PlainOK'
  BY <1>2, <1>4 DEF Grows, IInv, PlainOK
<1> QED BY <1>2, <1>3, <1>6, <1>7, ViewStays, StepKeeps

LEMMA ProbeFailsStep ==
  ASSUME IInv, NEW o \in Server, NEW n \in Subject, ProbeFails(o, n)
  PROVE  IInv' /\ NeverBack
<1>1. PICK v \in Node : v = view[o][n] /\ NodeOK(o, n, v)
  BY KnownIsNode DEF ProbeFails, Known
<1>2. /\ UNCHANGED <<up, own, view, task, net, crashes, issued, early>>
      /\ v.inc \in Incarnation
  BY DEF ProbeFails, Node
<1>3. /\ local' = local \cup {<<o, Message("suspect", n, v.inc)>>}
      /\ accused' = accused \cup {<<n, v.inc>>}
  BY <1>1 DEF ProbeFails
<1>4. MessageOK(Message("suspect", n, v.inc))'
  BY <1>1, <1>2, <1>3 DEF MessageOK, Message, Messages, NodeOK, Issued, Accused
<1>5. Grows /\ PlainOK'
  BY <1>2, <1>3 DEF Grows, IInv, PlainOK
<1>6. \A l \in local' : l \in local \/ TaskMessageOK(l)'
  BY <1>3, <1>4 DEF MessageOK, TaskMessageOK, Message
<1> QED BY <1>2, <1>5, <1>6, ViewStays, StepKeeps

LEMMA StartSuspectTaskStep ==
  ASSUME IInv, NEW o \in Server, NEW n \in Subject, StartSuspectTask(o, n)
  PROVE  IInv' /\ NeverBack
<1>1. UNCHANGED <<up, own, view, local, net, crashes, issued, accused, early>>
  BY DEF StartSuspectTask
<1>2. Grows /\ PlainOK'
  BY <1>1 DEF StartSuspectTask, SetTask, Grows, IInv, PlainOK
<1> QED BY <1>1, <1>2, ViewStays, StepKeeps

LEMMA RunSuspectTaskStep ==
  ASSUME IInv, NEW o \in Server, NEW n \in Subject, RunSuspectTask(o, n)
  PROVE  IInv' /\ NeverBack
<1>1. UNCHANGED <<up, own, view, net, crashes, issued, accused, early>>
  BY DEF RunSuspectTask
<1>2. Grows /\ PlainOK'
  BY <1>1 DEF RunSuspectTask, SetTask, Grows, IInv, PlainOK
<1>3. \A l \in local' : l \in local \/ TaskMessageOK(l)'
  <2>1. CASE view[o][n].status = "SUSPECT"
    <3>1. PICK v \in Node : v = view[o][n] /\ NodeOK(o, n, v)
      BY <2>1, KnownIsNode DEF Known
    <3>2. v.inc \in Incarnation /\ Issued(n, v.inc) /\ Accused(n, v.inc)
      BY <2>1, <3>1 DEF Node, NodeOK
    <3>3. MessageOK(Message("dead", n, v.inc))'
      BY <1>1, <3>2 DEF MessageOK, Message, Messages, Issued, Accused
    <3> QED BY <2>1, <3>1, <3>3 DEF RunSuspectTask, MessageOK, TaskMessageOK, Message
  <2>2. CASE view[o][n].status # "SUSPECT"
    BY <2>2 DEF RunSuspectTask
  <2> QED BY <2>1, <2>2
<1> QED BY <1>1, <1>2, <1>3, ViewStays, StepKeeps

\* Nodes that are forgotten are not known afterwards.
LEMMA ForgettingStep ==
  ASSUME IInv, NEW s \in Server, Crash(s) \/ RemoveDeadNodes(s)
  PROVE  IInv' /\ NeverBack
<1>1. /\ view' \in [Server -> [Subject -> Node \cup {NoNode}]]
      /\ \A o \in Server, n \in Subject : view'[o][n] \in {view[o][n], NoNode}
  <2>1. view \in [Server -> [Subject -> Node \cup {NoNode}]]
    BY DEF IInv, ViewOK
  <2>2. CASE Crash(s)
    BY <2>1, <2>2 DEF Crash
  <2>3. CASE RemoveDeadNodes(s)
    BY <2>1, <2>3 DEF RemoveDeadNodes
  <2> QED BY <2>2, <2>3
<1>2. /\ UNCHANGED <<net, issued, accused>> /\ local' \subseteq local
      /\ early' \subseteq Server
  BY DEF Crash, RemoveDeadNodes, IInv, PlainOK
<1>3. ASSUME Crash(s) PROVE PlainOK'
  <2>1. up' = [up EXCEPT ![s] = "down"] /\ own' = [own EXCEPT ![s] = 0]
    BY <1>3 DEF Crash
  <2>2. crashes' \in 0 .. MaxCrashes
    BY <1>3, Basics DEF Crash, IInv, PlainOK
  <2>3. task' \in [Server -> [Subject -> {"none", "armed", "running"}]]
    BY <1>3 DEF Crash, IInv, PlainOK
  <2>4. /\ up' \in [Server -> {"down", "listening", "running"}]
        /\ own' \in [Server -> Incarnation]
        /\ \A t \in Server : up'[t] # "running" => own'[t] = 0
    BY <2>1, Basics DEF IInv, PlainOK
  <2> QED BY <1>2, <2>2, <2>3, <2>4 DEF IInv, PlainOK
<1>4. ASSUME RemoveDeadNodes(s) PROVE PlainOK'
  BY <1>2, <1>4 DEF RemoveDeadNodes, IInv, PlainOK
<1>5. PlainOK'
  BY <1>3, <1>4
<1>6. IInv'
  BY <1>1, <1>2, <1>5, StepKeeps DEF Grows
<1>7. NeverBack
  <2> SUFFICES ASSUME NEW o \in Server, NEW n \in Subject, Known(o, n)'
               PROVE  view'[o][n].inc >= view[o][n].inc
    BY DEF NeverBack
  <2>1. view'[o][n] # NoNode
    BY DEF Known, NoNode
  <2>2. view'[o][n] = view[o][n] /\ view[o][n].inc \in Nat
    BY <1>1, <2>1, IncIsNat DEF IInv, ViewOK
  <2> QED BY <2>2
<1> QED BY <1>6, <1>7

LEMMA ListenStep ==
  ASSUME IInv, NEW s \in Server, Listen(s)
  PROVE  IInv' /\ NeverBack
<1>1. up' = [up EXCEPT ![s] = "listening"] /\ up[s] = "down"
  BY DEF Listen
<1>2. UNCHANGED <<own, view, task, local, net, crashes, issued, accused, early>>
  BY DEF Listen
<1>3. PlainOK' /\ Grows
  BY <1>1, <1>2 DEF IInv, PlainOK, Grows
<1> QED BY <1>2, <1>3, ViewStays, StepKeeps

-----------------------------------------------------------------------------
(* What a server knows of itself.                                           *)

\* What n knows of itself is the same, but for a newer incarnation.
SameSelf(n) ==
  /\ view'[n][n].status = view[n][n].status /\ view'[n][n].map = view[n][n].map
  /\ view'[n][n].inc \in Nat /\ view'[n][n].inc >= view[n][n].inc

LEMMA SelfSame ==
  ASSUME IInv, NEW n \in Subject, view'[n][n] = view[n][n]
  PROVE  SameSelf(n)
<1>1. view[n][n].inc \in Nat
  BY Basics, IncIsNat DEF IInv, ViewOK
<1> QED BY <1>1 DEF SameSelf

LEMMA RefuteSelf ==
  ASSUME IInv, NEW n \in Subject, NEW v \in Node, NEW i \in Incarnation, Refute(n, v, i)
  PROVE  /\ view'[n][n].status = v.status /\ view'[n][n].map = v.map
         /\ view'[n][n].inc = i + 1
<1>1. view'[n][n] = [v EXCEPT !.inc = i + 1]
  BY Basics DEF Refute, SetView, IInv, ViewOK
<1> QED BY <1>1 DEF Node

\* A server hears of itself: nothing but its incarnation changes if it knows
\* itself, and otherwise an alive message adds it as a dead node that refutes.
LEMMA HandleSelf ==
  ASSUME IInv, NEW n \in Subject, NEW m, MessageOK(m), m.node = n, Handle(n, m)
  PROVE  IF Known(n, n) THEN SameSelf(n)
         ELSE IF m.kind = "alive"
         THEN /\ view'[n][n].status = "DEAD" /\ view'[n][n].map = "none"
              /\ view'[n][n].inc > 1
         ELSE view'[n][n] = view[n][n]
<1> DEFINE i == m.inc
<1>1. n \in Server /\ i \in Incarnation /\ i \in Nat /\ (m.kind = "alive" => i > 0)
  BY Basics DEF MessageOK, Messages
<1>2. CASE m.kind # "alive"
  <2>1. Ignore \/ (Known(n, n) /\ ~(i < view[n][n].inc) /\ Refute(n, view[n][n], i))
    BY <1>2 DEF Handle, SuspectNode, DeadNode
  <2>2. CASE Ignore
    BY <1>2, <2>2, SelfSame DEF Ignore
  <2>3. CASE Known(n, n) /\ ~(i < view[n][n].inc) /\ Refute(n, view[n][n], i)
    <3>1. PICK v \in Node : v = view[n][n] /\ v.inc \in Nat
      BY <1>1, <2>3, KnownIsNode, IncIsNat
    <3>2. /\ view'[n][n].status = v.status /\ view'[n][n].map = v.map
          /\ view'[n][n].inc = i + 1
      BY <1>1, <2>3, <3>1, RefuteSelf
    <3>3. SameSelf(n)
      BY <1>1, <2>3, <3>1, <3>2 DEF SameSelf
    <3> QED BY <2>3, <3>3
  <2> QED BY <2>1, <2>2, <2>3
<1>3. CASE m.kind = "alive"
  <2>1. PICK v \in Node : v = Added(n, n) /\ v.inc \in Nat
    BY <1>1, AddedOK, IncIsNat
  <2>2. AliveNode(n, n, i, FALSE)
    BY <1>3 DEF Handle
  <2>3. \/ (i < v.inc \/ i = v.inc) /\ SetView(n, n, v)
        \/ ~(i < v.inc) /\ Refute(n, v, i)
    BY <2>1, <2>2 DEF AliveNode, StaleAlive
  <2>4. IF Known(n, n) THEN v = view[n][n]
        ELSE v.inc = 0 /\ v.status = "DEAD" /\ v.map = "none"
    BY <1>1, <2>1, AddedOK DEF Added
  <2>5. CASE (i < v.inc \/ i = v.inc) /\ SetView(n, n, v)
    <3>1. Known(n, n) /\ view'[n][n] = view[n][n]
      BY <1>1, <1>3, <2>1, <2>4, <2>5 DEF SetView, IInv, ViewOK
    <3> QED BY <3>1, SelfSame
  <2>6. CASE ~(i < v.inc) /\ Refute(n, v, i)
    <3>1. /\ view'[n][n].status = v.status /\ view'[n][n].map = v.map
          /\ view'[n][n].inc = i + 1
      BY <1>1, <2>6, RefuteSelf
    <3> QED BY <1>1, <1>3, <2>1, <2>4, <2>6, <3>1 DEF SameSelf
  <2> QED BY <2>3, <2>5, <2>6
<1> QED BY <1>2, <1>3

\* The handlers of o leave what the others know alone.
LEMMA HandleElsewhere ==
  ASSUME IInv, NEW o \in Server, NEW n \in Subject, NEW m, MessageOK(m), UNCHANGED accused,
         Handle(o, m), o # n \/ m.node # n
  PROVE  view'[n][n] = view[n][n]
<1>1. m.node \in Subject /\ Handles(o, m.node)
  BY HandleHandles
<1>2. PICK v \in Node \cup {NoNode} : view' = [view EXCEPT ![o][m.node] = v]
  BY <1>1 DEF Handles, Learns
<1> QED BY <1>1, <1>2, Basics DEF IInv, ViewOK

\* Nothing that SelfOK reads changes for the worse.
LEMMA SelfStays ==
  ASSUME IInv, NEW n \in Subject, SelfOK(n), SameSelf(n), n \in early' <=> n \in early,
         up'[n] = up[n]
  PROVE  SelfOK(n)'
<1>1. view[n][n].inc \in Nat /\ view'[n][n].inc >= view[n][n].inc
  BY Basics, IncIsNat DEF IInv, ViewOK, SameSelf
<1> QED BY <1>1 DEF SelfOK, SameSelf, Known

LEMMA ReceiveSelf ==
  ASSUME IInv, NEW n \in Subject, SelfOK(n), NEW o \in Server, NEW m \in net, Receive(o, m)
  PROVE  SelfOK(n)'
<1>1. /\ MessageOK(m) /\ Handle(o, m) /\ UNCHANGED <<up, accused>> /\ up[o] # "down"
      /\ early' = IF up[o] = "listening" /\ m.node = o /\ m.kind = "alive"
                  THEN early \cup {o} ELSE early
  BY DEF Receive, IInv, MessagesOK
<1>2. CASE o # n \/ m.node # n
  <2>1. SameSelf(n)
    BY <1>1, <1>2, HandleElsewhere, SelfSame
  <2>2. n \in early' <=> n \in early
    BY <1>1, <1>2
  <2> QED BY <1>1, <2>1, <2>2, SelfStays
<1>3. CASE o = n /\ m.node = n
  <2>1. CASE Known(n, n)
    <3>1. SameSelf(n)
      BY <1>1, <1>3, <2>1, HandleSelf
    <3>2. n \in early' <=> n \in early
      BY <1>1, <1>3, <2>1 DEF SelfOK
    <3> QED BY <1>1, <3>1, <3>2, SelfStays
  <2>2. CASE ~Known(n, n)
    <3>1. up[n] = "listening" /\ n \notin early
      BY <1>1, <1>3, <2>2, Basics DEF SelfOK, Known, IInv, PlainOK
    <3>2. CASE m.kind = "alive"
      <4>1. /\ view'[n][n].status = "DEAD" /\ view'[n][n].map = "none"
            /\ view'[n][n].inc > 1
        BY <1>1, <1>3, <2>2, <3>2, HandleSelf
      <4> QED BY <1>1, <1>3, <3>1, <3>2, <4>1 DEF SelfOK
    <3>3. CASE m.kind # "alive"
      <4>1. SameSelf(n) /\ early' = early
        BY <1>1, <1>3, <2>2, <3>3, HandleSelf, SelfSame
      <4> QED BY <1>1, <4>1, SelfStays
    <3> QED BY <3>2, <3>3
  <2> QED BY <2>1, <2>2
<1> QED BY <1>2, <1>3

LEMMA HandInSelf ==
  ASSUME IInv, NEW n \in Subject, SelfOK(n), NEW l \in local, HandIn(l[1], l[2])
  PROVE  SelfOK(n)'
<1>1. /\ l[1] \in Server /\ MessageOK(l[2]) /\ l[2].kind # "alive"
      /\ Handle(l[1], l[2]) /\ UNCHANGED <<up, early, accused>>
  BY DEF HandIn, IInv, MessagesOK, TaskMessageOK
<1>2. SameSelf(n)
  <2>1. CASE l[1] # n \/ l[2].node # n
    BY <1>1, <2>1, HandleElsewhere, SelfSame
  <2>2. CASE l[1] = n /\ l[2].node = n
    BY <1>1, <2>2, HandleSelf, SelfSame
  <2> QED BY <2>1, <2>2
<1> QED BY <1>1, <1>2, SelfStays

LEMMA BootstrapSelf ==
  ASSUME IInv, NEW n \in Subject, SelfOK(n), NEW s \in Server, Bootstrap(s)
  PROVE  SelfOK(n)'
<1>1. /\ up[s] = "listening" /\ up' = [up EXCEPT ![s] = "running"]
      /\ s \in Subject => AliveNode(s, s, own[s] + 1, TRUE)
      /\ s \notin Subject => Ignore
      /\ UNCHANGED <<accused, early>>
  BY DEF Bootstrap
<1>2. n \in Server /\ own[s] = 0
  BY <1>1, Basics DEF IInv, PlainOK
<1>3. CASE s # n
  <2>1. CASE s \in Subject
    BY <1>1, <1>3, <2>1, <1>2, Basics, SelfSame, SelfStays
       DEF AliveNode, SetView, Refute, IInv, PlainOK, ViewOK
  <2>2. CASE s \notin Subject
    BY <1>1, <1>3, <2>2, <1>2, SelfSame, SelfStays DEF Ignore, IInv, PlainOK
  <2> QED BY <2>1, <2>2
<1>4. CASE s = n
  <2>0. own[s] + 1 = 1
    BY <1>2
  <2>1. AliveNode(n, n, 1, TRUE) /\ up'[n] = "running"
    BY <1>1, <1>2, <1>4, <2>0 DEF IInv, PlainOK
  <2>2. CASE n \in early
    <3>1. Known(n, n) /\ view[n][n].inc > 1
      BY <2>2 DEF SelfOK, Known
    <3>2. SetView(n, n, view[n][n])
      BY <2>1, <3>1 DEF AliveNode, StaleAlive, Added
    <3>3. view'[n][n] = view[n][n]
      BY <1>2, <3>2 DEF SetView, IInv, ViewOK
    <3> QED BY <1>1, <2>1, <2>2, <3>3 DEF SelfOK
  <2>3. CASE n \notin early
    <3>1. ~Known(n, n)
      BY <1>1, <1>4, <2>3 DEF SelfOK
    <3>2. SetView(n, n, [inc |-> 1, status |-> "ALIVE", map |-> "alive"])
      BY <2>1, <3>1 DEF AliveNode, StaleAlive, Added
    <3>3. view'[n][n] = [inc |-> 1, status |-> "ALIVE", map |-> "alive"]
      BY <1>2, <3>2 DEF SetView, IInv, ViewOK
    <3> QED BY <1>1, <2>1, <2>3, <3>3 DEF SelfOK
  <2> QED BY <2>2, <2>3
<1> QED BY <1>3, <1>4

LEMMA LeaveSelf ==
  ASSUME IInv, NEW n \in Subject, SelfOK(n), NEW s \in Subject, Leave(s)
  PROVE  SelfOK(n)'
<1>1. s \in Server /\ n \in Server /\ own[s] + 1 \in Incarnation /\ own[s] + 1 \in Nat
  BY Basics DEF Leave, Incarnation, IInv, PlainOK
<1> DEFINE i == own[s] + 1
<1>2. DeadNode(s, s, i) /\ UNCHANGED <<up, early>>
  BY DEF Leave
<1>3. Ignore \/ (Known(s, s) /\ ~(i < view[s][s].inc) /\ Refute(s, view[s][s], i))
  BY <1>2 DEF DeadNode
<1>4. SameSelf(n)
  <2>1. CASE Ignore
    BY <2>1, SelfSame DEF Ignore
  <2>2. CASE s # n /\ Refute(s, view[s][s], i)
    BY <1>1, <2>2, SelfSame DEF Refute, SetView, IInv, ViewOK
  <2>3. CASE s = n /\ Known(s, s) /\ ~(i < view[s][s].inc) /\ Refute(s, view[s][s], i)
    <3>1. PICK v \in Node : v = view[n][n] /\ v.inc \in Nat
      BY <1>1, <2>3, KnownIsNode, IncIsNat
    <3>2. /\ view'[n][n].status = v.status /\ view'[n][n].map = v.map
          /\ view'[n][n].inc = i + 1
      BY <1>1, <2>3, <3>1, RefuteSelf
    <3> QED BY <1>1, <2>3, <3>1, <3>2 DEF SameSelf
  <2> QED BY <1>3, <2>1, <2>2, <2>3
<1> QED BY <1>2, <1>4, SelfStays

LEMMA ForgettingSelf ==
  ASSUME IInv, NEW n \in Subject, SelfOK(n), NEW s \in Server,
         Listen(s) \/ Crash(s) \/ RemoveDeadNodes(s)
  PROVE  SelfOK(n)'
<1>1. n \in Server /\ view[n][n].map # "dead"
  BY Basics DEF IInv, ViewOK, NodeOK
<1>2. CASE Listen(s)
  <2>1. UNCHANGED <<view, early>> /\ up[s] = "down" /\ up' = [up EXCEPT ![s] = "listening"]
    BY <1>2 DEF Listen
  <2> QED BY <1>1, <2>1 DEF SelfOK, Known, IInv, PlainOK
<1>3. CASE Crash(s)
  <2>1. /\ up' = [up EXCEPT ![s] = "down"] /\ early' = early \ {s}
        /\ view' = [view EXCEPT ![s] = [m \in Subject |-> NoNode]]
    BY <1>3 DEF Crash
  <2>2. CASE s = n
    BY <1>1, <2>1, <2>2 DEF SelfOK, Known, NoNode, IInv, PlainOK, ViewOK
  <2>3. CASE s # n
    BY <1>1, <2>1, <2>3 DEF SelfOK, Known, IInv, PlainOK, ViewOK
  <2> QED BY <2>2, <2>3
<1>4. CASE RemoveDeadNodes(s)
  <2>1. view'[n][n] = view[n][n] /\ UNCHANGED <<up, early>>
    BY <1>1, <1>4 DEF RemoveDeadNodes, IInv, ViewOK
  <2> QED BY <2>1, SelfSame, SelfStays
<1> QED BY <1>2, <1>3, <1>4

LEMMA SelfStep ==
  ASSUME IInv, \A n \in Subject : SelfOK(n), [Next]_vars
  PROVE  (\A n \in Subject : SelfOK(n))'
<1> SUFFICES ASSUME NEW n \in Subject PROVE SelfOK(n)'
  OBVIOUS
<1>1. ASSUME NEW s \in Server, Listen(s) \/ Bootstrap(s) \/ Crash(s) \/ RemoveDeadNodes(s)
      PROVE  SelfOK(n)'
  BY <1>1, BootstrapSelf, ForgettingSelf
<1>2. ASSUME NEW s \in Subject, Leave(s) PROVE SelfOK(n)'
  BY <1>2, LeaveSelf
<1>3. ASSUME NEW o \in Server, NEW p \in Subject,
             Push(o, p) \/ ProbeFails(o, p) \/ StartSuspectTask(o, p) \/ RunSuspectTask(o, p)
      PROVE  SelfOK(n)'
  <2>1. UNCHANGED <<up, view, early>>
    BY <1>3 DEF Push, ProbeFails, StartSuspectTask, RunSuspectTask
  <2> QED BY <2>1, SelfSame, SelfStays
<1>4. ASSUME NEW o \in Server, NEW m \in net, Receive(o, m) PROVE SelfOK(n)'
  BY <1>4, ReceiveSelf
<1>5. ASSUME NEW l \in local, HandIn(l[1], l[2]) PROVE SelfOK(n)'
  BY <1>5, HandInSelf
<1>6. CASE UNCHANGED vars
  BY <1>6, SelfSame, SelfStays DEF vars
<1> QED BY <1>1, <1>2, <1>3, <1>4, <1>5, <1>6 DEF Next

-----------------------------------------------------------------------------
LEMMA InvariantStep == IInv /\ (\A n \in Subject : SelfOK(n)) /\ [Next]_vars => IInv' /\ NeverBack
<1> SUFFICES ASSUME IInv, \A n \in Subject : SelfOK(n), [Next]_vars PROVE IInv' /\ NeverBack
  OBVIOUS
<1>1. ASSUME NEW s \in Server, Listen(s) \/ Bootstrap(s) \/ Crash(s) \/ RemoveDeadNodes(s)
      PROVE  IInv' /\ NeverBack
  BY <1>1, ListenStep, BootstrapStep, ForgettingStep
<1>2. ASSUME NEW n \in Subject, Leave(n)
      PROVE  IInv' /\ NeverBack
  BY <1>2, LeaveStep
<1>3. ASSUME NEW o \in Server, NEW n \in Subject,
             Push(o, n) \/ ProbeFails(o, n) \/ StartSuspectTask(o, n) \/ RunSuspectTask(o, n)
      PROVE  IInv' /\ NeverBack
  BY <1>3, PushStep, ProbeFailsStep, StartSuspectTaskStep, RunSuspectTaskStep
<1>4. ASSUME NEW o \in Server, NEW m \in net, Receive(o, m)
      PROVE  IInv' /\ NeverBack
  BY <1>4, ReceiveStep
<1>5. ASSUME NEW l \in local, HandIn(l[1], l[2])
      PROVE  IInv' /\ NeverBack
  BY <1>5, HandInStep
<1>6. CASE UNCHANGED vars
  <2>1. UNCHANGED <<up, own, view, task, local, net, crashes, issued, accused, early>>
    BY <1>6 DEF vars
  <2>2. PlainOK' /\ Grows
    BY <2>1 DEF IInv, PlainOK, Grows
  <2> QED BY <2>1, <2>2, ViewStays, StepKeeps
<1> QED BY <1>1, <1>2, <1>3, <1>4, <1>5, <1>6 DEF Next

LEMMA Invariant == Spec => []IInv /\ [](\A n \in Subject : SelfOK(n))
<1> DEFINE Both == IInv /\ \A n \in Subject : SelfOK(n)
<1>1. Init => Both
  BY InvariantInit, Basics DEF Init, SelfOK, Known, NoNode
<1>2. Both /\ [Next]_vars => Both'
  BY InvariantStep, SelfStep
<1>3. Both => IInv /\ \A n \in Subject : SelfOK(n)
  OBVIOUS
<1> HIDE DEF Both
<1> QED BY <1>1, <1>2, <1>3, PTL DEF Spec
-----------------------------------------------------------------------------
\* The variables keep their types; incarnations stay within the bound.
THEOREM Typing == Spec => []TypeOK
<1>1. IInv => TypeOK
  BY DEF IInv, PlainOK, ViewOK, MessagesOK, TaskMessageOK, MessageOK, TypeOK
<1> QED BY <1>1, Invariant, PTL

\* Nobody but a node itself gives it a new incarnation: refute and doStart do.
THEOREM IncarnationSafety == Spec => []IncarnationIsOwned
<1>1. IInv => IncarnationIsOwned
  BY DEF IInv, ViewOK, NodeOK, MessagesOK, MessageOK, Issued, IncarnationIsOwned
<1> QED BY <1>1, Invariant, PTL

\* Nodes keeps a node in the map that its status says, but for the nodes put
\* back among the alive ones, whose newer incarnation aliveNode has not recorded.
THEOREM MapSafety == Spec => []MapsAgree
<1>1. IInv => MapsAgree
  BY DEF IInv, ViewOK, NodeOK, MapsAgree, Refuted
<1> QED BY <1>1, Invariant, PTL

\* Whatever order the messages about a server come in, it refutes them and is
\* alive to itself, unless it heard of itself before it had added itself.
THEOREM SelfSafety == Spec => []SelfNeverDoubted
<1>1. IInv /\ (\A n \in Subject : SelfOK(n)) => SelfNeverDoubted
  <2> SUFFICES ASSUME IInv, NEW n \in Subject, SelfOK(n)
               PROVE  IF n \in early
                      THEN view[n][n].status = "DEAD" /\ view[n][n].map = "none"
                      ELSE IF up[n] = "running"
                      THEN view[n][n].status = "ALIVE" /\ view[n][n].map = "alive"
                      ELSE view[n][n] = NoNode
    BY DEF SelfNeverDoubted
  <2>1. ~Known(n, n) => view[n][n] = NoNode
    BY Basics DEF IInv, ViewOK, Known, Node, Status
  <2> QED BY <2>1 DEF SelfOK
<1> QED BY <1>1, Invariant, PTL

\* The death a server believes in goes back to a failed probe or to the dead
\* node itself, however many servers have passed it on.
THEOREM DeathSafety == Spec => []DeadWasAccused
<1>1. IInv => DeadWasAccused
  <2> SUFFICES ASSUME IInv, NEW o \in Server, NEW n \in Subject, view[o][n].map = "dead"
               PROVE  <<n, view[o][n].inc>> \in accused
    BY DEF DeadWasAccused
  <2>1. NodeOK(o, n, view[o][n])
    BY DEF IInv, ViewOK
  <2>2. o # n /\ Accused(n, view[o][n].inc) /\ view[o][n].inc > 0
    BY <2>1 DEF NodeOK
  <2> QED BY <2>2 DEF Accused
<1> QED BY <1>1, Invariant, PTL

\* The handlers never replace an incarnation by an older one.
THEOREM KnowledgeGrows == Spec => IncarnationGrows
<1>1. IInv /\ (\A n \in Subject : SelfOK(n)) /\ [Next]_vars => [NeverBack]_vars
  BY InvariantStep
<1>2. [][NeverBack]_vars => IncarnationGrows
  <2>1. [NeverBack]_vars =>
        [\A o \in Server, n \in Subject :
           Known(o, n) /\ Known(o, n)' => view'[o][n].inc >= view[o][n].inc]_vars
    BY DEF NeverBack
  <2> QED BY <2>1, PTL DEF IncarnationGrows
<1> QED BY <1>1, <1>2, Invariant, PTL DEF Spec
=============================================================================
