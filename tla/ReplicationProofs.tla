-------------------------- MODULE ReplicationProofs --------------------------
(***************************************************************************)
(* Replication is type correct and implements CommitPoint: for any number  *)
(* of servers, elections, entries and messages, with reads that miss       *)
(* entries and batches that are stored in part.                            *)
(***************************************************************************)
EXTENDS Replication, FiniteSetTheorems, WellFoundedInduction, TLAPS

LEMMA IndexFacts ==
  MaxIndex \in Nat /\ MaxTerm \in Nat /\ Index \subseteq Nat /\ Index = 1 .. MaxIndex
  BY BoundAssumption DEF Index

\* A set of indexes has a last one.
LEMMA LastExists ==
  ASSUME NEW S, S \subseteq Index, S # {}
  PROVE  \E i \in S : \A j \in S : j <= i
<1> DEFINE T == {MaxIndex - i : i \in S}
<1>1. T \subseteq Nat /\ T # {}
  <2>1. \A i \in S : MaxIndex - i \in Nat
    BY IndexFacts
  <2>2. PICK i \in S : TRUE
    OBVIOUS
  <2>3. MaxIndex - i \in T
    OBVIOUS
  <2> QED BY <2>1, <2>3
<1>2. PICK x \in T : \A y \in T : ~ (<<y, x>> \in OpToRel(<, Nat))
  <2> HIDE DEF T
  <2> QED BY <1>1, WFMin, NatLessThanWellFounded
<1>3. \A y \in T : ~ (y < x)
  BY <1>1, <1>2 DEF OpToRel
<1>4. PICK i \in S : x = MaxIndex - i
  OBVIOUS
<1>5. \A j \in S : MaxIndex - j \in T /\ j \in Nat
  BY IndexFacts
<1>6. \A j \in S : j <= i
  <2> SUFFICES ASSUME NEW j \in S PROVE j <= i
    OBVIOUS
  <2>1. ~ (MaxIndex - j < MaxIndex - i)
    BY <1>3, <1>4, <1>5
  <2>2. i \in Nat /\ j \in Nat
    BY <1>5
  <2> HIDE DEF T
  <2> QED BY <2>1, <2>2, IndexFacts
<1> QED BY <1>6

LEMMA LogFacts ==
  ASSUME NEW f \in LogType
  PROVE  /\ DOMAIN f \subseteq Index /\ \A i \in DOMAIN f : f[i] \in Term
         /\ f = [i \in DOMAIN f |-> f[i]]
  BY DEF LogType

LEMMA OverType ==
  ASSUME NEW f \in LogType, NEW g \in LogType
  PROVE  Over(f, g) \in LogType /\ DOMAIN Over(f, g) = DOMAIN f \cup DOMAIN g
<1>1. DOMAIN Over(f, g) = DOMAIN f \cup DOMAIN g
  BY DEF Over
<1>2. \A i \in DOMAIN f \cup DOMAIN g : (IF i \in DOMAIN f THEN f[i] ELSE g[i]) \in Term
  BY LogFacts
<1>3. DOMAIN f \cup DOMAIN g \subseteq Index
  BY LogFacts
<1>4. Over(f, g) \in [DOMAIN f \cup DOMAIN g -> Term]
  BY <1>2 DEF Over
<1> QED BY <1>1, <1>3, <1>4 DEF LogType
-----------------------------------------------------------------------------
(* Types, by the group of variables.                                        *)

ElectOK ==
  /\ term \in [Server -> Term]
  /\ state \in [Server -> {"FOLLOWER", "LEADER", "EXITED"}]
  /\ led \subseteq Term /\ replicating \subseteq Server

ViewOK ==
  /\ cluster \in [Server -> SUBSET Server]
  /\ nextIndex \in [Server -> [Server -> Int]]
  /\ matchedIndex \in [Server -> [Server -> Int]]

LogOK ==
  /\ generator \in [Server -> Nat]
  /\ log \in [Server -> LogType] /\ buffer \in [Server -> SUBSET Index]
  /\ \A s \in Server : buffer[s] \subseteq DOMAIN log[s]

ApplyOK ==
  /\ commitIndex \in [Server -> Index \cup {0}]
  /\ lastApplied \in [Server -> Index \cup {0}]
  /\ applying \in [Server -> SUBSET Index]

JoinOK ==
  /\ configuring \in [Server -> BOOLEAN]
  /\ joins \subseteq [at : Server, members : SUBSET Server]
  /\ entries \in Nat

NetOK == net \subseteq Requests \cup Responses

LEMMA TypeParts ==
  /\ TypeOK <=> ElectOK /\ ViewOK /\ LogOK /\ ApplyOK /\ JoinOK /\ NetOK
  /\ TypeOK' <=> ElectOK' /\ ViewOK' /\ LogOK' /\ ApplyOK' /\ JoinOK' /\ NetOK'
  BY DEF TypeOK, ElectOK, ViewOK, LogOK, ApplyOK, JoinOK, NetOK

LEMMA MessageFields ==
  ASSUME NetOK, NEW m \in net
  PROVE  /\ m.from \in Server /\ m.to \in Server /\ m.term \in Term
         /\ m.type = "AppendRequest" => m \in Requests
         /\ m.type = "AppendResponse" => m \in Responses
  BY DEF NetOK, Requests, Responses

LEMMA LastIndexesType ==
  ASSUME LogOK, NEW s \in Server, NEW last \in LastIndexes(s)
  PROVE  last \in Index \cup {0} /\ (last > 0 => last \in DOMAIN log[s])
  BY LogFacts, IndexFacts DEF LogOK, LastIndexes

LEMMA AppendRequestType ==
  ASSUME TypeOK, NEW s \in Server, NEW d \in Server,
         NEW found \in Readable(s), NEW last \in LastIndexes(s)
  PROVE  AppendRequest(s, d, found, last) \in Requests
<1> DEFINE r == AppendRequest(s, d, found, last)
<1>1. log[s] \in LogType /\ nextIndex[s][d] \in Int /\ commitIndex[s] \in Index \cup {0}
      /\ term[s] \in Term
  BY DEF TypeOK
<1>2. found \subseteq DOMAIN log[s]
  BY DEF Readable
<1>3. \A i \in found : i \in Index /\ log[s][i] \in Term
  BY <1>1, <1>2, LogFacts
<1>4. \A D \in SUBSET found : [i \in D |-> log[s][i]] \in LogType
  <2> SUFFICES ASSUME NEW D \in SUBSET found PROVE [i \in D |-> log[s][i]] \in LogType
    OBVIOUS
  <2>1. [i \in D |-> log[s][i]] \in [D -> Term] /\ D \in SUBSET Index
    BY <1>3
  <2> QED BY <2>1 DEF LogType
<1>5. r.batch \in LogType
  <2> DEFINE next  == nextIndex[s][d]
             after == {i \in found : next <= i /\ i <= last}
             batch == {i \in after : Cardinality({j \in after : j < i}) < MaxAppendSize}
  <2>1. r.batch = [i \in batch |-> log[s][i]]
    BY DEF AppendRequest
  <2>2. batch \in SUBSET found
    OBVIOUS
  <2> HIDE DEF batch, r
  <2> QED BY <1>4, <2>1, <2>2
<1>6. r.prev \in Nat /\ r.prevTerm \in Term
  BY <1>3, IndexFacts DEF AppendRequest, Term
<1>7. r = [type |-> "AppendRequest", from |-> s, to |-> d, term |-> term[s],
           prev |-> r.prev, prevTerm |-> r.prevTerm, commit |-> commitIndex[s],
           batch |-> r.batch]
  BY DEF AppendRequest
<1> HIDE DEF r
<1>8. r \in Requests
  BY <1>1, <1>5, <1>6, <1>7 DEF Requests
<1> QED BY <1>8 DEF r

\* What a batch leaves in the log is a log, with every entry it appended.
LEMMA StoredType ==
  ASSUME generator \in [Server -> Nat], NEW s \in Server, NEW batch \in LogType,
         DOMAIN batch # {} => Placed(s, batch, First(batch)) <= MaxIndex
  PROVE  /\ Stored(s, batch) \in LogType
         /\ DOMAIN Stored(s, batch) = {Placed(s, batch, i) : i \in DOMAIN batch}
<1> DEFINE K == {Placed(s, batch, i) : i \in DOMAIN batch}
           At(k) == {i \in DOMAIN batch : Placed(s, batch, i) = k}
           Top(k) == CHOOSE i \in At(k) : \A j \in At(k) : j <= i
<1>1. ASSUME NEW i \in DOMAIN batch PROVE Placed(s, batch, i) \in Index
  <2>1. i \in Index /\ generator[s] \in Nat
    BY LogFacts
  <2>2. CASE i = First(batch)
    <3>1. Placed(s, batch, i) = generator[s] + i /\ Placed(s, batch, i) <= MaxIndex
      BY <2>2 DEF Placed
    <3> QED BY <2>1, <3>1, IndexFacts
  <2>3. CASE i # First(batch)
    BY <2>1, <2>3 DEF Placed
  <2> QED BY <2>2, <2>3
<1>2. ASSUME NEW k \in K PROVE batch[Top(k)] \in Term
  <2>1. At(k) # {} /\ At(k) \subseteq DOMAIN batch /\ At(k) \subseteq Index
    BY LogFacts
  <2>2. \E i \in At(k) : \A j \in At(k) : j <= i
    <3> HIDE DEF At
    <3> QED BY <2>1, LastExists
  <2>3. Top(k) \in At(k)
    <3> HIDE DEF At
    <3> QED BY <2>2
  <2> HIDE DEF Top
  <2> QED BY <2>1, <2>3, LogFacts
<1>3. Stored(s, batch) = [k \in K |-> batch[Top(k)]]
  BY DEF Stored
<1>4. K \in SUBSET Index
  BY <1>1
<1> HIDE DEF K, Top
<1>5. Stored(s, batch) \in [K -> Term] /\ DOMAIN Stored(s, batch) = K
  BY <1>2, <1>3
<1> QED BY <1>4, <1>5 DEF LogType, K

LEMMA PlacedType ==
  ASSUME generator \in [Server -> Nat], NEW s \in Server, NEW batch \in LogType,
         NEW i \in DOMAIN batch
  PROVE  Placed(s, batch, i) \in Nat
  BY LogFacts, IndexFacts DEF Placed

\* Storing a batch keeps the log a log and only adds to it.
LEMMA StoreFacts ==
  ASSUME LogOK, NEW s \in Server, NEW prev \in Nat, NEW batch \in LogType,
         DOMAIN batch # {} => Placed(s, batch, First(batch)) <= MaxIndex,
         Store(s, prev, batch), generator' \in [Server -> Nat]
  PROVE  /\ LogOK'
         /\ \A x \in Server : DOMAIN log[x] \subseteq DOMAIN log'[x]
         /\ \A x \in Server \ {s} : DOMAIN log'[x] = DOMAIN log[x]
         /\ \A i \in DOMAIN batch : Placed(s, batch, i) \in DOMAIN log'[s]
<1> DEFINE new == Stored(s, batch)
<1>1. new \in LogType /\ DOMAIN new = {Placed(s, batch, i) : i \in DOMAIN batch}
      /\ DOMAIN new \subseteq Index
  BY StoredType, LogFacts DEF LogOK
<1>2. Over(new, log[s]) \in LogType
      /\ DOMAIN Over(new, log[s]) = DOMAIN new \cup DOMAIN log[s]
  BY <1>1, OverType DEF LogOK
<1>3. log' = [log EXCEPT ![s] = Over(new, log[s])]
      /\ buffer' = [buffer EXCEPT ![s] = {i \in @ : i < prev} \cup DOMAIN new]
  BY DEF Store
<1> HIDE DEF new
<1>4. log' \in [Server -> LogType] /\ DOMAIN log'[s] = DOMAIN new \cup DOMAIN log[s]
      /\ \A x \in Server \ {s} : log'[x] = log[x]
  BY <1>2, <1>3 DEF LogOK
<1>5. buffer' \in [Server -> SUBSET Index] /\ buffer'[s] \subseteq buffer[s] \cup DOMAIN new
      /\ \A x \in Server \ {s} : buffer'[x] = buffer[x]
  BY <1>1, <1>3 DEF LogOK
<1>6. \A x \in Server : buffer'[x] \subseteq DOMAIN log'[x]
  BY <1>4, <1>5 DEF LogOK
<1> QED BY <1>1, <1>4, <1>5, <1>6 DEF LogOK

LEMMA FirstLast ==
  ASSUME NEW batch \in LogType, DOMAIN batch # {}
  PROVE  /\ First(batch) \in DOMAIN batch /\ \A j \in DOMAIN batch : First(batch) <= j
         /\ Last(batch) \in DOMAIN batch /\ \A j \in DOMAIN batch : j <= Last(batch)
<1>1. DOMAIN batch \subseteq Nat /\ DOMAIN batch \subseteq Index
  BY LogFacts, IndexFacts
<1>2. \E i \in DOMAIN batch : \A j \in DOMAIN batch : j <= i
  BY <1>1, LastExists
<1>3. PICK i \in DOMAIN batch : \A j \in DOMAIN batch : ~ (<<j, i>> \in OpToRel(<, Nat))
  BY <1>1, WFMin, NatLessThanWellFounded
<1>4. \A j \in DOMAIN batch : i <= j
  <2>1. \A j \in DOMAIN batch : ~ (j < i)
    BY <1>1, <1>3 DEF OpToRel
  <2> QED BY <1>1, <2>1
<1>5. First(batch) \in DOMAIN batch /\ \A j \in DOMAIN batch : First(batch) <= j
  BY <1>4 DEF First
<1> QED BY <1>2, <1>5 DEF Last

\* The first entries of a batch are placed where the batch places them.
LEMMA PrefixFirst ==
  ASSUME NEW batch \in LogType, NEW i \in DOMAIN batch, NEW part \in LogType,
         DOMAIN part = {j \in DOMAIN batch : j < i}, DOMAIN part # {}
  PROVE  First(part) = First(batch)
<1>1. DOMAIN batch \subseteq Nat
  BY LogFacts, IndexFacts
<1>2. /\ First(batch) \in DOMAIN batch /\ \A j \in DOMAIN batch : First(batch) <= j
      /\ First(part) \in DOMAIN part /\ \A j \in DOMAIN part : First(part) <= j
  BY FirstLast
<1> QED BY <1>1, <1>2

LEMMA ElectType ==
  ASSUME ElectOK, NEW s \in Server, NEW t \in Term, FallBehind(s, t)
  PROVE  ElectOK'
  BY DEF ElectOK, FallBehind

LEMMA AcceptsType ==
  ASSUME ElectOK, NetOK, NEW m \in net, Accepts(m)
  PROVE  ElectOK' /\ m \in Requests /\ m \in net /\ m.to \in Server
<1>1. m \in Requests /\ m.to \in Server /\ m.term \in Term
  BY MessageFields DEF Accepts, Receives
<1>2. CASE m.term > term[m.to]
  BY <1>1, <1>2, ElectType DEF Accepts
<1>3. CASE ~(m.term > term[m.to])
  <2>1. UNCHANGED electVars
    BY <1>3 DEF Accepts
  <2> QED BY <1>1, <2>1 DEF ElectOK, electVars
<1> QED BY <1>1, <1>2, <1>3

LEMMA AnswerType ==
  ASSUME NetOK, ElectOK', NEW m \in net, NEW b \in BOOLEAN, NEW n \in Int,
         Answer(m, b, n)
  PROVE  NetOK'
<1>1. AppendResponse(m, term'[m.to], b, n) \in Responses
  BY MessageFields DEF AppendResponse, Responses, ElectOK
<1> QED BY <1>1 DEF Answer, NetOK

\* The log of every server only gets entries.
Grows == \A s \in Server : DOMAIN log[s] \subseteq DOMAIN log'[s]

LEMMA SameLog == (UNCHANGED logVars) /\ LogOK => LogOK' /\ Grows
  BY DEF logVars, LogOK, Grows
-----------------------------------------------------------------------------
(* Every step keeps the types and no step takes an entry from a log.        *)

LEMMA CampaignType ==
  ASSUME TypeOK, NEW s \in Server, Campaign(s)
  PROVE  TypeOK' /\ Grows
<1>1. ElectOK /\ ViewOK /\ LogOK /\ ApplyOK /\ JoinOK /\ NetOK
  BY TypeParts
<1>2. ElectOK'
  <2> PICK voters \in SUBSET cluster[s] : Elect(s, voters)
    BY DEF Campaign
  <2>1. term[s] + 1 \in Term
    BY <1>1, IndexFacts DEF Elect, ElectOK, Term
  <2> QED BY <1>1, <2>1 DEF Elect, ElectOK
<1>3. ViewOK'
  <2> PICK last \in LastIndexes(s) :
        nextIndex' = [nextIndex EXCEPT ![s] =
                        [m \in Server |-> IF m \in cluster[s] \ {s} THEN last + 1 ELSE @[m]]]
    BY DEF Campaign, WakeUp
  <2>1. last + 1 \in Int
    BY <1>1, LastIndexesType, IndexFacts
  <2> QED BY <1>1, <2>1 DEF ViewOK, Campaign, WakeUp
<1> QED
  BY <1>1, <1>2, <1>3, SameLog, TypeParts
  DEF Campaign, logVars, applyVars, joinVars, LogOK, ApplyOK, JoinOK, NetOK

LEMMA ReconfigureType ==
  ASSUME TypeOK, NEW s \in Server, JoinRequest(s) \/ LeaveRequest(s)
  PROVE  TypeOK' /\ Grows
<1>1. ElectOK /\ ViewOK /\ LogOK /\ ApplyOK /\ JoinOK /\ NetOK
  BY TypeParts
<1>2. \A m \in Server : /\ cluster[s] \cup {m} \in SUBSET Server
                        /\ cluster[s] \ {m} \in SUBSET Server
  BY <1>1 DEF ViewOK
<1>3. JoinOK'
  BY <1>1, <1>2 DEF JoinOK, JoinRequest, LeaveRequest, ViewOK
<1> QED
  BY <1>1, <1>3, SameLog, TypeParts
  DEF JoinRequest, LeaveRequest, electVars, viewVars, logVars, applyVars,
      ElectOK, ViewOK, ApplyOK, NetOK

LEMMA ConfigureType ==
  ASSUME TypeOK, NEW j \in joins, Configure(j)
  PROVE  TypeOK' /\ Grows
<1> DEFINE s == j.at
           i == generator[s] + 1
<1>1. ElectOK /\ ViewOK /\ LogOK /\ ApplyOK /\ JoinOK /\ NetOK
  BY TypeParts
<1>2. s \in Server /\ j.members \in SUBSET Server /\ i \in Index /\ i \in Nat
  BY <1>1, IndexFacts DEF JoinOK, LogOK, Configure
<1>3. ElectOK' /\ ApplyOK' /\ NetOK'
  BY <1>1 DEF Configure, electVars, applyVars, ElectOK, ApplyOK, NetOK
<1>4. joins' \subseteq [at : Server, members : SUBSET Server] /\ entries' \in Nat
      /\ generator' \in [Server -> Nat]
  BY <1>1, <1>2 DEF Configure, JoinOK, LogOK
<1>5. CASE UNCHANGED <<log, buffer, viewVars, configuring>>
  BY <1>1, <1>3, <1>4, <1>5, TypeParts DEF LogOK, ViewOK, JoinOK, viewVars, Grows
<1>6. CASE /\ log' = [log EXCEPT ![s] = Over([k \in {i} |-> term[s]], @)]
           /\ buffer' = [buffer EXCEPT ![s] = @ \cup {i}]
           /\ configuring' = [configuring EXCEPT ![s] = TRUE]
           /\ cluster' = [cluster EXCEPT ![s] = @ \cup j.members]
           /\ nextIndex' = [nextIndex EXCEPT ![s] =
                              [m \in Server |-> IF m \in j.members THEN 1 ELSE @[m]]]
           /\ UNCHANGED matchedIndex
  <2> DEFINE new == [k \in {i} |-> term[s]]
  <2>1. new \in LogType /\ DOMAIN new = {i}
    <3>1. new \in [{i} -> Term] /\ {i} \in SUBSET Index
      BY <1>1, <1>2 DEF ElectOK
    <3> QED BY <3>1 DEF LogType
  <2>2. Over(new, log[s]) \in LogType
        /\ DOMAIN Over(new, log[s]) = {i} \cup DOMAIN log[s]
    BY <1>1, <1>2, <2>1, OverType DEF LogOK
  <2>3. log' = [log EXCEPT ![s] = Over(new, log[s])]
    BY <1>6
  <2> HIDE DEF new
  <2>4. LogOK' /\ Grows
    BY <1>1, <1>2, <1>4, <1>6, <2>2, <2>3 DEF LogOK, Grows
  <2>5. ViewOK' /\ JoinOK'
    BY <1>1, <1>2, <1>4, <1>6 DEF ViewOK, JoinOK
  <2> QED BY <1>3, <2>4, <2>5, TypeParts
<1> QED BY <1>5, <1>6 DEF Configure

LEMMA SendAppendType ==
  ASSUME TypeOK, NEW s \in Server, NEW d \in Server, SendAppend(s, d)
  PROVE  TypeOK' /\ Grows
<1>1. ElectOK /\ ViewOK /\ LogOK /\ ApplyOK /\ JoinOK /\ NetOK
  BY TypeParts
<1>2. NetOK'
  BY <1>1, AppendRequestType DEF SendAppend, NetOK
<1> QED
  BY <1>1, <1>2, SameLog, TypeParts
  DEF SendAppend, electVars, viewVars, logVars, applyVars, joinVars,
      ElectOK, ViewOK, ApplyOK, JoinOK

LEMMA LoseType ==
  ASSUME TypeOK, NEW m \in net, Lose(m)
  PROVE  TypeOK' /\ Grows
<1>1. ElectOK /\ ViewOK /\ LogOK /\ ApplyOK /\ JoinOK /\ NetOK
  BY TypeParts
<1>2. NetOK'
  BY <1>1 DEF Lose, NetOK
<1> QED
  BY <1>1, <1>2, SameLog, TypeParts
  DEF Lose, electVars, viewVars, logVars, applyVars, joinVars,
      ElectOK, ViewOK, ApplyOK, JoinOK

LEMMA RefuseTermType ==
  ASSUME TypeOK, NEW m \in net, RefuseTerm(m)
  PROVE  TypeOK' /\ Grows
<1>1. ElectOK /\ ViewOK /\ LogOK /\ ApplyOK /\ JoinOK /\ NetOK
  BY TypeParts
<1>2. AppendResponse(m, term[m.to], FALSE, 0) \in Responses
  BY <1>1, MessageFields DEF AppendResponse, Responses, ElectOK
<1>3. NetOK'
  BY <1>1, <1>2 DEF RefuseTerm, NetOK
<1> QED
  BY <1>1, <1>3, SameLog, TypeParts
  DEF RefuseTerm, electVars, viewVars, logVars, applyVars, joinVars,
      ElectOK, ViewOK, ApplyOK, JoinOK

LEMMA ExitType ==
  ASSUME TypeOK, NEW m \in net, Exit(m)
  PROVE  TypeOK' /\ Grows
<1>1. ElectOK /\ ViewOK /\ LogOK /\ ApplyOK /\ JoinOK /\ NetOK
  BY TypeParts
<1>2. ElectOK' /\ NetOK'
  BY <1>1, MessageFields DEF Exit, ElectOK, NetOK
<1> QED
  BY <1>1, <1>2, SameLog, TypeParts
  DEF Exit, viewVars, logVars, applyVars, joinVars, ViewOK, ApplyOK, JoinOK

LEMMA RefusePrevType ==
  ASSUME TypeOK, NEW m \in net, RefusePrev(m)
  PROVE  TypeOK' /\ Grows
<1>1. ElectOK /\ ViewOK /\ LogOK /\ ApplyOK /\ JoinOK /\ NetOK
  BY TypeParts
<1>2. ElectOK' /\ m \in Requests /\ m.to \in Server
  BY <1>1, AcceptsType DEF RefusePrev
<1>3. PICK found \in Readable(m.to), last \in LastIndexes(m.to) :
        Answer(m, FALSE, IF m.prev \in found /\ last > 0 THEN m.prev ELSE last + 1)
  BY DEF RefusePrev
<1>4. (IF m.prev \in found /\ last > 0 THEN m.prev ELSE last + 1) \in Int
  <2>1. m.prev \in Nat
    BY <1>2 DEF Requests
  <2>2. last \in Nat
    BY <1>1, <1>2, LastIndexesType, IndexFacts
  <2> QED BY <2>1, <2>2
<1>5. NetOK'
  BY <1>1, <1>2, <1>3, <1>4, AnswerType
<1> QED
  BY <1>1, <1>2, <1>5, SameLog, TypeParts
  DEF RefusePrev, viewVars, logVars, applyVars, joinVars, ViewOK, ApplyOK, JoinOK

LEMMA FailAppendType ==
  ASSUME TypeOK, NEW m \in net, FailAppend(m)
  PROVE  TypeOK' /\ Grows
<1> DEFINE s == m.to
           batch == m.batch
<1>1. ElectOK /\ ViewOK /\ LogOK /\ ApplyOK /\ JoinOK /\ NetOK
  BY TypeParts
<1>2. ElectOK' /\ m \in Requests /\ s \in Server
  BY <1>1, AcceptsType DEF FailAppend
<1>3. batch \in LogType /\ m.prev \in Nat
  BY <1>2 DEF Requests
<1>4. PICK i \in DOMAIN batch :
        /\ Placed(s, batch, First(batch)) <= MaxIndex
        /\ Store(s, m.prev, [j \in {j \in DOMAIN batch : j < i} |-> batch[j]])
        /\ generator' = [generator EXCEPT ![s] = Placed(s, batch, i)]
  BY DEF FailAppend
<1> DEFINE part == [j \in {j \in DOMAIN batch : j < i} |-> batch[j]]
<1>5. part \in LogType /\ DOMAIN part = {j \in DOMAIN batch : j < i}
  <2>1. {j \in DOMAIN batch : j < i} \in SUBSET Index
        /\ part \in [{j \in DOMAIN batch : j < i} -> Term]
    BY <1>3, LogFacts
  <2> QED BY <2>1 DEF LogType
<1>6. DOMAIN part # {} => Placed(s, part, First(part)) <= MaxIndex
  <2> SUFFICES ASSUME DOMAIN part # {} PROVE Placed(s, part, First(part)) <= MaxIndex
    OBVIOUS
  <2>1. First(part) = First(batch)
    BY <1>3, <1>5, PrefixFirst
  <2>2. Placed(s, part, First(part)) = Placed(s, batch, First(batch))
    BY <2>1 DEF Placed
  <2> QED BY <1>4, <2>2
<1>7. generator' \in [Server -> Nat]
  BY <1>1, <1>2, <1>3, <1>4, PlacedType DEF LogOK
<1>8. Store(s, m.prev, part)
  BY <1>4
<1>9. LogOK' /\ Grows
  <2> HIDE DEF part, s
  <2> QED BY <1>1, <1>2, <1>3, <1>5, <1>6, <1>7, <1>8, StoreFacts DEF Grows
<1>10. NetOK'
  BY <1>1 DEF FailAppend, NetOK
<1> QED
  BY <1>1, <1>2, <1>9, <1>10, TypeParts
  DEF FailAppend, viewVars, applyVars, joinVars, ViewOK, ApplyOK, JoinOK

\* A commit index only moves forward, and no further than asked.
LEMMA CommitFacts ==
  ASSUME ApplyOK, NEW s \in Server, NEW last \in Index \cup {0}, NEW index \in Int,
         Commit(s, last, index)
  PROVE  /\ commitIndex' \in [Server -> Index \cup {0}]
         /\ \A x \in Server \ {s} : commitIndex'[x] = commitIndex[x]
         /\ commitIndex'[s] >= commitIndex[s]
         /\ commitIndex'[s] > commitIndex[s] =>
              commitIndex'[s] <= last /\ commitIndex'[s] <= index
<1> DEFINE least == Lesser(last, index)
<1>1. least \in Int /\ least <= last /\ least <= index /\ last \in Nat
  BY IndexFacts DEF Lesser
<1>2. commitIndex[s] \in Index \cup {0} /\ commitIndex[s] \in Nat
  BY IndexFacts DEF ApplyOK
<1>3. least > commitIndex[s] => least \in Index
  BY <1>1, <1>2, IndexFacts
<1>4. commitIndex' = [commitIndex EXCEPT ![s] = IF least > @ THEN least ELSE @]
  BY DEF Commit
<1> HIDE DEF least
<1> QED BY <1>1, <1>2, <1>3, <1>4 DEF ApplyOK

\* A member that accepts a batch has an entry at the index it answers.
LEMMA AppendStores ==
  ASSUME TypeOK, NEW m \in net, Append(m), NEW end,
         end = IF DOMAIN m.batch = {} THEN 0 ELSE Placed(m.to, m.batch, Last(m.batch))
  PROVE  /\ LogOK' /\ Grows /\ end \in Nat
         /\ end > 0 => end \in DOMAIN log'[m.to]
         /\ \A x \in Server \ {m.to} : DOMAIN log'[x] = DOMAIN log[x]
<1> DEFINE s == m.to
           batch == m.batch
<1>1. ElectOK /\ LogOK /\ NetOK
  BY TypeParts
<1>2. m \in Requests /\ s \in Server
  BY <1>1, AcceptsType DEF Append
<1>3. batch \in LogType /\ m.prev \in Nat
  BY <1>2 DEF Requests
<1>4. DOMAIN batch # {} => Placed(s, batch, First(batch)) <= MaxIndex
  BY DEF Append
<1>5. /\ end \in Nat
      /\ DOMAIN batch = {} => end = 0
      /\ DOMAIN batch # {} => end = Placed(s, batch, Last(batch)) /\ Last(batch) \in DOMAIN batch
  <2>1. CASE DOMAIN batch = {}
    BY <2>1
  <2>2. CASE DOMAIN batch # {}
    BY <1>1, <1>2, <1>3, <2>2, FirstLast, PlacedType DEF LogOK
  <2> QED BY <2>1, <2>2
<1>6. generator' \in [Server -> Nat]
  <2>1. generator' = IF DOMAIN batch = {} THEN generator ELSE [generator EXCEPT ![s] = end]
    BY DEF Append
  <2> QED BY <1>1, <1>2, <1>5, <2>1 DEF LogOK
<1>7. Store(s, m.prev, batch)
  BY DEF Append
<1>8. /\ LogOK'
      /\ \A x \in Server : DOMAIN log[x] \subseteq DOMAIN log'[x]
      /\ \A x \in Server \ {s} : DOMAIN log'[x] = DOMAIN log[x]
      /\ \A i \in DOMAIN batch : Placed(s, batch, i) \in DOMAIN log'[s]
  <2> HIDE DEF s, batch
  <2> QED BY <1>1, <1>2, <1>3, <1>4, <1>6, <1>7, StoreFacts
<1> QED BY <1>5, <1>8 DEF Grows

LEMMA AppendType ==
  ASSUME TypeOK, NEW m \in net, Append(m)
  PROVE  TypeOK' /\ Grows
<1> DEFINE s == m.to
           end == IF DOMAIN m.batch = {} THEN 0 ELSE Placed(s, m.batch, Last(m.batch))
<1>1. ElectOK /\ ViewOK /\ LogOK /\ ApplyOK /\ JoinOK /\ NetOK
  BY TypeParts
<1>2. ElectOK' /\ m \in Requests /\ s \in Server
  BY <1>1, AcceptsType DEF Append
<1>3. LogOK' /\ Grows /\ end \in Nat
  BY AppendStores
<1>4. NetOK'
  <2>1. Answer(m, TRUE, end + 1)
    BY DEF Append
  <2> HIDE DEF end
  <2>2. end + 1 \in Int /\ TRUE \in BOOLEAN
    BY <1>3
  <2> QED BY <1>1, <1>2, <2>1, <2>2, AnswerType
<1>5. ApplyOK'
  <2>1. PICK last \in LastIndexes(s)' : Commit(s, last, m.commit)
    BY DEF Append
  <2>2. last \in Index \cup {0}
    BY <1>2, <1>3, <2>1, LogFacts DEF LogOK, LastIndexes
  <2>3. m.commit \in Int
    BY <1>2, IndexFacts DEF Requests
  <2>4. commitIndex' \in [Server -> Index \cup {0}]
    BY <1>1, <1>2, <2>1, <2>2, <2>3, CommitFacts
  <2>5. PICK found \in Readable(s)' : Apply(s, found)
    BY DEF Append
  <2>6. found \subseteq Index
    BY <1>2, <1>3, <2>5, LogFacts DEF Readable, LogOK
  <2>7. applying' \in [Server -> SUBSET Index]
    BY <1>1, <1>2, <2>5, <2>6 DEF Apply, ApplyOK
  <2>8. lastApplied' = lastApplied
    BY DEF Append
  <2> QED BY <1>1, <2>4, <2>7, <2>8 DEF ApplyOK
<1> QED
  BY <1>1, <1>2, <1>3, <1>4, <1>5, TypeParts DEF Append, viewVars, joinVars, ViewOK, JoinOK

LEMMA ResponseFields ==
  ASSUME NetOK, NEW m \in net, Receives(m, "AppendResponse")
  PROVE  /\ m.from \in Server /\ m.to \in Server /\ m.term \in Term
         /\ m.success \in BOOLEAN /\ m.next \in Int
  BY MessageFields DEF Receives, Responses

LEMMA AcknowledgeType ==
  ASSUME TypeOK, NEW m \in net, Acknowledge(m)
  PROVE  TypeOK' /\ Grows
<1>1. ElectOK /\ ViewOK /\ LogOK /\ ApplyOK /\ JoinOK /\ NetOK
  BY TypeParts
<1>2. m.from \in Server /\ m.to \in Server /\ m.next \in Int
  BY <1>1, ResponseFields DEF Acknowledge
<1>3. ViewOK' /\ NetOK'
  BY <1>1, <1>2 DEF Acknowledge, ViewOK, NetOK
<1>4. ApplyOK'
  <2> PICK last \in LastIndexes(m.to), i \in 0 .. MaxIndex : Commit(m.to, last, i)
    BY DEF Acknowledge
  <2>1. last \in Index \cup {0} /\ i \in Int
    BY <1>1, <1>2, LastIndexesType, IndexFacts
  <2>2. commitIndex' \in [Server -> Index \cup {0}]
    BY <1>1, <1>2, <2>1, CommitFacts
  <2> QED BY <1>1, <2>2 DEF Acknowledge, ApplyOK
<1> QED
  BY <1>1, <1>3, <1>4, SameLog, TypeParts
  DEF Acknowledge, electVars, logVars, joinVars, ElectOK, JoinOK

LEMMA RetryType ==
  ASSUME TypeOK, NEW m \in net, Retry(m)
  PROVE  TypeOK' /\ Grows
<1>1. ElectOK /\ ViewOK /\ LogOK /\ ApplyOK /\ JoinOK /\ NetOK
  BY TypeParts
<1>2. m.from \in Server /\ m.to \in Server /\ m.next \in Int
  BY <1>1, ResponseFields DEF Retry
<1>3. ViewOK' /\ NetOK'
  BY <1>1, <1>2 DEF Retry, ViewOK, NetOK
<1> QED
  BY <1>1, <1>3, SameLog, TypeParts
  DEF Retry, electVars, logVars, applyVars, joinVars, ElectOK, ApplyOK, JoinOK

LEMMA LearnTermType ==
  ASSUME TypeOK, NEW m \in net, LearnTerm(m)
  PROVE  TypeOK' /\ Grows
<1>1. ElectOK /\ ViewOK /\ LogOK /\ ApplyOK /\ JoinOK /\ NetOK
  BY TypeParts
<1>2. ElectOK'
  <2>1. CASE FallBehind(m.to, m.term)
    BY <1>1, <2>1, ResponseFields, ElectType DEF LearnTerm
  <2>2. CASE UNCHANGED electVars
    BY <1>1, <2>2 DEF electVars, ElectOK
  <2> QED BY <2>1, <2>2 DEF LearnTerm
<1>3. NetOK'
  BY <1>1 DEF LearnTerm, NetOK
<1> QED
  BY <1>1, <1>2, <1>3, SameLog, TypeParts
  DEF LearnTerm, viewVars, logVars, applyVars, joinVars, ViewOK, ApplyOK, JoinOK

LEMMA ThreadsType ==
  ASSUME TypeOK, NEW s \in Server, Clean(s) \/ Complete(s)
  PROVE  TypeOK' /\ Grows
<1>1. ElectOK /\ ViewOK /\ LogOK /\ ApplyOK /\ JoinOK /\ NetOK
  BY TypeParts
<1>2. CASE Clean(s)
  <2>1. LogOK' /\ Grows
    BY <1>1, <1>2 DEF Clean, LogOK, Grows
  <2> QED
    BY <1>1, <1>2, <2>1, TypeParts
    DEF Clean, electVars, viewVars, applyVars, joinVars, ElectOK, ViewOK, ApplyOK, JoinOK, NetOK
<1>3. CASE Complete(s)
  <2>1. ApplyOK'
    BY <1>1, <1>3 DEF Complete, ApplyOK
  <2> QED
    BY <1>1, <1>3, <2>1, SameLog, TypeParts
    DEF Complete, electVars, viewVars, logVars, joinVars, ElectOK, ViewOK, JoinOK, NetOK
<1> QED BY <1>2, <1>3

LEMMA TypeInit == Init => TypeOK
<1> SUFFICES ASSUME Init PROVE TypeOK
  OBVIOUS
<1>1. 0 \in Term /\ Members \subseteq Server
  BY ServerAssumption, IndexFacts DEF Term
<1>2. [i \in {} |-> 0] \in LogType /\ DOMAIN [i \in {} |-> 0] = {}
  <2>1. [i \in {} |-> 0] \in [{} -> Term] /\ {} \in SUBSET Index
    BY <1>1
  <2> QED BY <2>1 DEF LogType
<1>3. ElectOK /\ ViewOK /\ ApplyOK /\ JoinOK /\ NetOK
  BY <1>1 DEF Init, ElectOK, ViewOK, ApplyOK, JoinOK, NetOK
<1>4. LogOK
  BY <1>2 DEF Init, LogOK
<1> QED BY <1>3, <1>4, TypeParts

LEMMA TypeStep == TypeOK /\ Next => TypeOK' /\ Grows
<1> SUFFICES ASSUME TypeOK, Next PROVE TypeOK' /\ Grows
  OBVIOUS
<1>1. ASSUME NEW m \in net, Deliver(m) PROVE TypeOK' /\ Grows
  BY <1>1, RefuseTermType, ExitType, RefusePrevType, FailAppendType, AppendType,
     AcknowledgeType, RetryType, LearnTermType, LoseType DEF Deliver
<1> QED
  BY <1>1, CampaignType, ReconfigureType, ConfigureType, SendAppendType, ThreadsType
  DEF Next

\* Whatever is read from disk, lost, sent twice or answered late, every
\* variable of every server keeps its type.
THEOREM Typing == Spec => []TypeOK
<1>1. TypeOK /\ UNCHANGED vars => TypeOK'
  <2> SUFFICES ASSUME TypeOK, UNCHANGED vars PROVE TypeOK'
    OBVIOUS
  <2> QED
    BY TypeParts DEF vars, electVars, viewVars, logVars, applyVars, joinVars,
       ElectOK, ViewOK, LogOK, ApplyOK, JoinOK, NetOK
<1>2. TypeOK /\ [Next]_vars => TypeOK'
  BY <1>1, TypeStep
<1> QED BY <1>2, TypeInit, PTL DEF Spec
-----------------------------------------------------------------------------
(* The inductive invariant: what is in flight is as well founded as what    *)
(* the servers know.                                                        *)

\* What a message says is true, however late it comes.
MessageOK(m) ==
  /\ m.type = "AppendResponse" /\ m.success /\ m.next > 1 =>
       Point!Reaches(Held, m.from, m.next - 1)
  /\ m.type = "AppendRequest" /\ m.commit > 0 => Point!Chosen(Held, m.commit)

MessagesOK == \A m \in net : MessageOK(m)

AppliedIsCommitted ==
  \A s \in Server :
    lastApplied[s] <= commitIndex[s] /\ \A i \in applying[s] : i <= commitIndex[s]

ClustersGrow == \A s \in Server : Members \subseteq cluster[s]

IInv ==
  TypeOK /\ ClustersGrow /\ MessagesOK /\ MatchedIsHeld /\ CommittedIsHeld
    /\ AppliedIsCommitted

\* CommitPoint counts as this module does.
LEMMA SameCardinality == \A S : Point!Cardinality(S) = Cardinality(S)
  BY DEF Point!Cardinality, Cardinality

LEMMA HeldFacts ==
  /\ Held = [s \in Server |-> DOMAIN log[s]]
  /\ Held' = [s \in Server |-> DOMAIN log'[s]]
  /\ TypeOK => \A s \in Server : Held[s] \subseteq Nat
  /\ TypeOK' => \A s \in Server : Held'[s] \subseteq Nat
  /\ Grows => \A s \in Server : Held[s] \subseteq Held'[s]
<1>1. ASSUME TypeOK PROVE \A s \in Server : Held[s] \subseteq Nat
  BY <1>1, LogFacts, IndexFacts DEF TypeOK, Held
<1>2. ASSUME TypeOK' PROVE \A s \in Server : Held'[s] \subseteq Nat
  BY <1>2, LogFacts, IndexFacts DEF TypeOK, Held
<1> QED BY <1>1, <1>2 DEF Held, Grows

LEMMA ReachesMono ==
  ASSUME NEW h, NEW g, NEW s, h[s] \subseteq g[s], g[s] \subseteq Nat,
         NEW i \in Nat, NEW j \in Nat, j <= i, Point!Reaches(h, s, i)
  PROVE  Point!Reaches(g, s, j)
<1> PICK k \in h[s] : k >= i
  BY DEF Point!Reaches
<1> QED BY k \in Nat /\ k >= j DEF Point!Reaches

\* What was chosen stays chosen when logs grow, and so does any lower index.
LEMMA ChosenMono ==
  ASSUME NEW h, NEW g, \A s \in Server : h[s] \subseteq g[s] /\ g[s] \subseteq Nat,
         NEW i \in Nat, NEW j \in Nat, j <= i, Point!Chosen(h, i)
  PROVE  Point!Chosen(g, j)
<1> PICK members \in SUBSET Server :
      /\ Members \subseteq members
      /\ 2 * Cardinality({s \in members : Point!Reaches(h, s, i)}) > Cardinality(members)
  BY SameCardinality DEF Point!Chosen
<1> DEFINE H == {s \in members : Point!Reaches(h, s, i)}
           G == {s \in members : Point!Reaches(g, s, j)}
<1>1. H \subseteq G
  BY ReachesMono
<1>2. IsFiniteSet(members) /\ G \subseteq members
  BY ServerAssumption, FS_Subset
<1>3. /\ Cardinality(H) \in Nat /\ Cardinality(G) \in Nat /\ Cardinality(members) \in Nat
      /\ Cardinality(H) <= Cardinality(G)
  <2> HIDE DEF H, G
  <2> QED BY <1>1, <1>2, FS_Subset, FS_CardinalityType
<1>4. 2 * Cardinality(G) > Cardinality(members)
  <2>1. 2 * Cardinality(H) > Cardinality(members)
    OBVIOUS
  <2> HIDE DEF H, G
  <2> QED BY <1>3, <2>1
<1> QED BY <1>4, SameCardinality DEF Point!Chosen

\* n members, n - quorum + 1 of which have matched i, are more than half.
LEMMA QuorumIsMajority ==
  ASSUME NEW members \in SUBSET Server, NEW G \in SUBSET members,
         Cardinality(G) >= Cardinality(members) - Quorum(members) + 1
  PROVE  2 * Cardinality(G) > Cardinality(members)
<1>1. IsFiniteSet(members)
  BY ServerAssumption, FS_Subset
<1>2. Cardinality(members) \in Nat /\ Cardinality(G) \in Nat
  BY <1>1, FS_Subset, FS_CardinalityType
<1>3. \A n \in Nat : 2 * ((n + 1) \div 2) <= n + 1 /\ (n + 1) \div 2 \in Nat
  OBVIOUS
<1>4. Quorum(members) \in Nat /\ 2 * Quorum(members) <= Cardinality(members) + 1
  BY <1>2, <1>3 DEF Quorum
<1> QED BY <1>2, <1>4

\* An index the leader finds at the quorum position is chosen.
LEMMA QuorumIsChosen ==
  ASSUME TypeOK', \A x \in Server : Members \subseteq cluster[x],
         cluster \in [Server -> SUBSET Server], MatchedIsHeld',
         NEW s \in Server, NEW i \in Nat, i > 0, IsQuorumIndex(s, i)
  PROVE  Point!Chosen(Held', i)
<1> DEFINE M == {m \in cluster[s] : matchedIndex'[s][m] >= i}
           G == {m \in cluster[s] : Point!Reaches(Held', m, i)}
<1>1. cluster[s] \in SUBSET Server /\ IsFiniteSet(cluster[s])
  BY ServerAssumption, FS_Subset
<1>2. M \subseteq G
  <2> SUFFICES ASSUME NEW m \in M PROVE Point!Reaches(Held', m, i)
    OBVIOUS
  <2>1. m \in Server /\ matchedIndex'[s][m] \in Int /\ matchedIndex'[s][m] >= i
    BY <1>1 DEF TypeOK
  <2>2. matchedIndex'[s][m] \in Nat /\ matchedIndex'[s][m] > 0
    BY <2>1
  <2>3. Point!Reaches(Held', m, matchedIndex'[s][m])
    BY <2>1, <2>2 DEF MatchedIsHeld
  <2>4. Held'[m] \subseteq Nat
    BY <2>1, HeldFacts
  <2> QED BY <2>1, <2>2, <2>3, <2>4, ReachesMono
<1>3. Cardinality(M) >= Cardinality(cluster[s]) - Quorum(cluster[s]) + 1
  BY DEF IsQuorumIndex
<1>4. 2 * Cardinality(M) > Cardinality(cluster[s])
  <2> HIDE DEF M
  <2>1. M \in SUBSET cluster[s]
    BY DEF M
  <2> QED BY <1>1, <1>3, <2>1, QuorumIsMajority
<1>5. /\ Cardinality(M) \in Nat /\ Cardinality(G) \in Nat /\ Cardinality(cluster[s]) \in Nat
      /\ Cardinality(M) <= Cardinality(G)
  <2>1. IsFiniteSet(G)
    BY <1>1, FS_Subset
  <2> HIDE DEF M, G
  <2> QED BY <1>1, <1>2, <2>1, FS_Subset, FS_CardinalityType
<1>6. 2 * Cardinality(G) > Cardinality(cluster[s])
  <2> HIDE DEF M, G
  <2> QED BY <1>4, <1>5
<1> QED BY <1>1, <1>6, SameCardinality DEF Point!Chosen

LEMMA MessageMono ==
  ASSUME TypeOK, TypeOK', Grows, NEW m, m \in Requests \cup Responses, MessageOK(m)
  PROVE  MessageOK(m)'
<1>1. \A s \in Server : Held[s] \subseteq Held'[s] /\ Held'[s] \subseteq Nat
  BY HeldFacts
<1>2. ASSUME m.type = "AppendResponse", m.success, m.next > 1
      PROVE  Point!Reaches(Held', m.from, m.next - 1)
  <2>1. m.from \in Server /\ m.next - 1 \in Nat
    BY <1>2 DEF Requests, Responses
  <2> QED BY <1>1, <1>2, <2>1, ReachesMono DEF MessageOK
<1>3. ASSUME m.type = "AppendRequest", m.commit > 0
      PROVE  Point!Chosen(Held', m.commit)
  <2>1. m.commit \in Nat
    BY <1>3, IndexFacts DEF Requests, Responses
  <2> QED BY <1>1, <1>3, <2>1, ChosenMono DEF MessageOK
<1> QED BY <1>2, <1>3 DEF MessageOK

\* Messages stay true when logs grow; only the new ones need a look.
LEMMA MessagesKept ==
  ASSUME TypeOK, TypeOK', Grows, MessagesOK, \A m \in net' : m \in net \/ MessageOK(m)'
  PROVE  MessagesOK'
<1>1. \A m \in net : MessageOK(m)'
  BY MessageMono DEF MessagesOK, TypeOK
<1> QED BY <1>1 DEF MessagesOK

LEMMA MatchedKept ==
  ASSUME TypeOK, TypeOK', Grows, MatchedIsHeld, UNCHANGED matchedIndex
  PROVE  MatchedIsHeld'
<1> SUFFICES ASSUME NEW s \in Server, NEW m \in Server, matchedIndex[s][m] > 0
             PROVE  Point!Reaches(Held', m, matchedIndex[s][m])
  BY DEF MatchedIsHeld
<1>1. matchedIndex[s][m] \in Nat
  BY DEF TypeOK
<1> QED BY <1>1, HeldFacts, ReachesMono DEF MatchedIsHeld

\* A server whose commit index has not changed has still committed what is
\* chosen.
LEMMA CommittedKept ==
  ASSUME TypeOK, TypeOK', Grows, CommittedIsHeld, NEW s \in Server,
         commitIndex'[s] = commitIndex[s], commitIndex[s] > 0
  PROVE  Point!Chosen(Held', commitIndex'[s])
<1>1. commitIndex[s] \in Nat /\ Point!Chosen(Held, commitIndex[s])
  BY IndexFacts DEF TypeOK, CommittedIsHeld, Point!CommittedIsHeld
<1> QED BY <1>1, HeldFacts, ChosenMono

\* What every action has to keep that neither commits nor applies.
LEMMA Kept ==
  ASSUME IInv, TypeOK', Grows, UNCHANGED <<matchedIndex, applyVars>>,
         \A s \in Server : cluster[s] \subseteq cluster'[s],
         \A m \in net' : m \in net \/ MessageOK(m)'
  PROVE  IInv'
<1>1. MessagesOK' /\ MatchedIsHeld'
  BY MessagesKept, MatchedKept DEF IInv
<1>2. CommittedIsHeld'
  BY CommittedKept DEF IInv, CommittedIsHeld, Point!CommittedIsHeld, applyVars
<1>3. AppliedIsCommitted' /\ ClustersGrow'
  BY DEF IInv, AppliedIsCommitted, ClustersGrow, applyVars
<1> QED BY <1>1, <1>2, <1>3 DEF IInv
-----------------------------------------------------------------------------
(* The steps keep the invariant.                                            *)

LEMMA SilentStep ==
  ASSUME IInv, TypeOK', Grows,
         \/ \E s \in Server : Campaign(s) \/ JoinRequest(s) \/ LeaveRequest(s) \/ Clean(s)
         \/ \E j \in joins : Configure(j)
         \/ \E m \in net : \/ Lose(m) \/ Exit(m) \/ FailAppend(m) \/ Retry(m) \/ LearnTerm(m)
  PROVE  IInv'
<1>1. UNCHANGED <<matchedIndex, applyVars>>
  BY DEF Campaign, WakeUp, JoinRequest, LeaveRequest, Clean, Configure, Lose, Exit,
         FailAppend, Retry, LearnTerm, viewVars
<1>2. \A s \in Server : cluster[s] \subseteq cluster'[s]
  <2>1. ASSUME NEW j \in joins, Configure(j)
        PROVE  \A s \in Server : cluster[s] \subseteq cluster'[s]
    <3>1. cluster' = [cluster EXCEPT ![j.at] = @ \cup j.members] \/ cluster' = cluster
      BY <2>1 DEF Configure, viewVars
    <3>2. cluster \in [Server -> SUBSET Server]
      BY DEF IInv, TypeOK
    <3> QED BY <3>1, <3>2
  <2>2. CASE cluster' = cluster
    BY <2>2
  <2> QED
    BY <2>1, <2>2 DEF Campaign, WakeUp, JoinRequest, LeaveRequest, Clean, Lose, Exit,
       FailAppend, Retry, LearnTerm, viewVars
<1>3. net' \subseteq net
  BY DEF Campaign, JoinRequest, LeaveRequest, Clean, Configure, Lose, Exit,
         FailAppend, Retry, LearnTerm
<1> QED BY <1>1, <1>2, <1>3, Kept

LEMMA SendAppendKeeps ==
  ASSUME IInv, TypeOK', Grows, NEW s \in Server, NEW d \in Server, SendAppend(s, d)
  PROVE  IInv'
<1>1. UNCHANGED <<matchedIndex, cluster, applyVars, log>>
  BY DEF SendAppend, viewVars, logVars
<1>2. ASSUME NEW m \in net', m \notin net PROVE MessageOK(m)'
  <2>1. m.type = "AppendRequest" /\ m.commit = commitIndex[s]
    BY <1>2 DEF SendAppend, AppendRequest
  <2>2. m.commit > 0 => Point!Chosen(Held, m.commit)
    BY <2>1 DEF IInv, CommittedIsHeld, Point!CommittedIsHeld
  <2>3. Held' = Held
    BY <1>1 DEF Held
  <2> QED BY <2>1, <2>2, <2>3 DEF MessageOK
<1> QED BY <1>1, <1>2, Kept

LEMMA RefusalKeeps ==
  ASSUME IInv, TypeOK', Grows, NEW m \in net, RefuseTerm(m) \/ RefusePrev(m)
  PROVE  IInv'
<1>1. UNCHANGED <<matchedIndex, cluster, applyVars>>
  BY DEF RefuseTerm, RefusePrev, viewVars
<1>2. ASSUME NEW r \in net', r \notin net PROVE MessageOK(r)'
  BY <1>2 DEF RefuseTerm, RefusePrev, Answer, AppendResponse, MessageOK
<1> QED BY <1>1, <1>2, Kept

\* What a commit to an index no further than a chosen one leaves to be shown.
LEMMA CommitKeeps ==
  ASSUME IInv, TypeOK', Grows, NEW s \in Server, NEW last \in Index \cup {0},
         NEW index \in Int, Commit(s, last, index),
         index > 0 => Point!Chosen(Held', index)
  PROVE  /\ CommittedIsHeld' /\ commitIndex'[s] >= commitIndex[s]
         /\ \A x \in Server \ {s} : commitIndex'[x] = commitIndex[x]
<1>0. ApplyOK
  BY TypeParts DEF IInv
<1>1. /\ commitIndex'[s] >= commitIndex[s]
      /\ \A x \in Server \ {s} : commitIndex'[x] = commitIndex[x]
      /\ commitIndex'[s] > commitIndex[s] => commitIndex'[s] <= index
  BY <1>0, CommitFacts
<1>2. ASSUME NEW x \in Server, commitIndex'[x] > 0
      PROVE  Point!Chosen(Held', commitIndex'[x])
  <2>1. CASE commitIndex'[x] = commitIndex[x]
    BY <1>2, <2>1, CommittedKept DEF IInv
  <2>2. CASE commitIndex'[x] # commitIndex[x]
    <3>1. x = s /\ commitIndex'[s] \in Nat /\ commitIndex[s] \in Nat
      BY <1>1, <2>2, IndexFacts DEF IInv, TypeOK
    <3>2. commitIndex'[s] <= index /\ index \in Nat /\ index > 0
      BY <1>1, <1>2, <2>2, <3>1
    <3> QED BY <3>1, <3>2, HeldFacts, ChosenMono
  <2> QED BY <2>1, <2>2
<1>3. CommittedIsHeld'
  BY <1>2 DEF CommittedIsHeld, Point!CommittedIsHeld
<1> QED BY <1>1, <1>3

LEMMA AppendKeeps ==
  ASSUME IInv, TypeOK', Grows, NEW m \in net, Append(m)
  PROVE  IInv' /\ \A x \in Server : commitIndex'[x] >= commitIndex[x]
<1> DEFINE s == m.to
           end == IF DOMAIN m.batch = {} THEN 0 ELSE Placed(s, m.batch, Last(m.batch))
<1>1. m \in Requests /\ s \in Server /\ m.type = "AppendRequest"
  BY TypeParts, AcceptsType DEF IInv, Append, Requests
<1>2. end \in Nat /\ (end > 0 => end \in DOMAIN log'[s])
  BY AppendStores DEF IInv
<1>3. UNCHANGED <<matchedIndex, cluster, lastApplied>>
  BY DEF Append, viewVars
<1>4. MessagesOK' /\ MatchedIsHeld' /\ ClustersGrow'
  <2>1. end > 0 => Point!Reaches(Held', s, end)
    BY <1>1, <1>2, HeldFacts DEF Point!Reaches
  <2>2. ASSUME NEW r \in net', r \notin net PROVE MessageOK(r)'
    <3>1. r.type = "AppendResponse" /\ r.from = s /\ r.next = end + 1
      BY <2>2 DEF Append, Answer, AppendResponse
    <3> HIDE DEF end, s
    <3>2. r.next > 1 => end > 0 /\ r.next - 1 = end
      BY <1>2, <3>1
    <3>3. r.next > 1 => Point!Reaches(Held', r.from, r.next - 1)
      BY <2>1, <3>1, <3>2
    <3> QED BY <3>1, <3>3 DEF MessageOK
  <2> QED BY <1>3, <2>2, MessagesKept, MatchedKept DEF IInv, ClustersGrow
<1>5. PICK last \in LastIndexes(s)' : Commit(s, last, m.commit)
  BY DEF Append
<1>6. /\ CommittedIsHeld' /\ commitIndex'[s] >= commitIndex[s]
      /\ \A x \in Server \ {s} : commitIndex'[x] = commitIndex[x]
  <2>1. last \in Index \cup {0}
    BY <1>1, LogFacts DEF TypeOK, LastIndexes
  <2>2. m.commit \in Int /\ m.commit \in Nat
    BY <1>1, IndexFacts DEF Requests
  <2>3. m.commit > 0 => Point!Chosen(Held', m.commit)
    <3>1. m.commit > 0 => Point!Chosen(Held, m.commit)
      BY <1>1 DEF IInv, MessagesOK, MessageOK
    <3> QED BY <2>2, <3>1, HeldFacts, ChosenMono
  <2> QED BY <1>1, <1>5, <2>1, <2>2, <2>3, CommitKeeps
<1>7. AppliedIsCommitted'
  <2>1. PICK found \in Readable(s)' : Apply(s, found)
    BY DEF Append
  <2>2. \A x \in Server : /\ commitIndex[x] \in Nat /\ commitIndex'[x] \in Nat
                          /\ lastApplied[x] \in Nat /\ applying[x] \subseteq Nat
    BY IndexFacts DEF IInv, TypeOK
  <2>3. \A i \in applying'[s] : i \in applying[s] \/ i <= commitIndex'[s]
    BY <1>1, <2>1 DEF Apply, IInv, TypeOK
  <2>4. \A x \in Server \ {s} : applying'[x] = applying[x]
    BY <1>1, <2>1 DEF Apply, IInv, TypeOK
  <2> SUFFICES ASSUME NEW x \in Server
               PROVE  lastApplied[x] <= commitIndex'[x]
                        /\ \A i \in applying'[x] : i <= commitIndex'[x]
    BY <1>3 DEF AppliedIsCommitted
  <2>5. lastApplied[x] <= commitIndex[x] /\ \A i \in applying[x] : i <= commitIndex[x]
    BY DEF IInv, AppliedIsCommitted
  <2> QED BY <1>6, <2>2, <2>3, <2>4, <2>5
<1>8. \A x \in Server : commitIndex'[x] >= commitIndex[x]
  <2>1. \A x \in Server : commitIndex[x] \in Nat
    BY IndexFacts DEF IInv, TypeOK
  <2> QED BY <1>6, <2>1
<1> QED BY <1>4, <1>6, <1>7, <1>8 DEF IInv

LEMMA AcknowledgeKeeps ==
  ASSUME IInv, TypeOK', Grows, NEW m \in net, Acknowledge(m)
  PROVE  IInv' /\ \A x \in Server : commitIndex'[x] >= commitIndex[x]
<1> DEFINE s == m.to
<1>1. /\ s \in Server /\ m.from \in Server /\ m.next \in Int
      /\ m.type = "AppendResponse" /\ m.success
  BY TypeParts, ResponseFields DEF IInv, Acknowledge, Receives
<1>2. /\ matchedIndex' = [matchedIndex EXCEPT ![s][m.from] = m.next - 1]
      /\ net' = net \ {m}
      /\ UNCHANGED <<cluster, log, lastApplied, applying>>
  BY DEF Acknowledge, logVars
<1>3. MessagesOK' /\ ClustersGrow'
  BY <1>2, MessagesKept DEF IInv, ClustersGrow
<1>4. MatchedIsHeld'
  <2> SUFFICES ASSUME NEW x \in Server, NEW y \in Server, matchedIndex'[x][y] > 0
               PROVE  Point!Reaches(Held', y, matchedIndex'[x][y])
    BY DEF MatchedIsHeld
  <2>1. Held' = Held
    BY <1>2 DEF Held
  <2>2. CASE x = s /\ y = m.from
    <3>1. matchedIndex'[x][y] = m.next - 1
      BY <1>1, <1>2, <2>2 DEF IInv, TypeOK
    <3>2. m.next > 1
      BY <1>1, <3>1
    <3>3. Point!Reaches(Held, m.from, m.next - 1)
      BY <1>1, <3>2 DEF IInv, MessagesOK, MessageOK
    <3> QED BY <2>1, <2>2, <3>1, <3>3
  <2>3. CASE ~(x = s /\ y = m.from)
    <3>1. matchedIndex'[x][y] = matchedIndex[x][y]
      BY <1>1, <1>2, <2>3 DEF IInv, TypeOK
    <3> QED BY <2>1, <3>1 DEF IInv, MatchedIsHeld
  <2> QED BY <2>2, <2>3
<1>5. PICK last \in LastIndexes(s), i \in 0 .. MaxIndex :
        IsQuorumIndex(s, i) /\ Commit(s, last, i)
  BY DEF Acknowledge
<1>6. /\ CommittedIsHeld' /\ commitIndex'[s] >= commitIndex[s]
      /\ \A x \in Server \ {s} : commitIndex'[x] = commitIndex[x]
  <2>1. last \in Index \cup {0} /\ i \in Int /\ i \in Nat
    BY <1>1, LastIndexesType, TypeParts, IndexFacts DEF IInv
  <2>2. i > 0 => Point!Chosen(Held', i)
    <3>1. cluster \in [Server -> SUBSET Server] /\ \A x \in Server : Members \subseteq cluster[x]
      BY DEF IInv, TypeOK, ClustersGrow
    <3> QED BY <1>1, <1>4, <1>5, <2>1, <3>1, QuorumIsChosen
  <2> QED BY <1>1, <1>5, <2>1, <2>2, CommitKeeps
<1>7. \A x \in Server : commitIndex'[x] >= commitIndex[x] /\ commitIndex'[x] \in Nat
                          /\ commitIndex[x] \in Nat
  <2>1. \A x \in Server : commitIndex[x] \in Nat /\ commitIndex'[x] \in Nat
    BY IndexFacts DEF IInv, TypeOK
  <2> QED BY <1>6, <2>1
<1>8. AppliedIsCommitted'
  <2> SUFFICES ASSUME NEW x \in Server
               PROVE  lastApplied[x] <= commitIndex'[x]
                        /\ \A k \in applying[x] : k <= commitIndex'[x]
    BY <1>2 DEF AppliedIsCommitted
  <2>1. lastApplied[x] <= commitIndex[x] /\ \A k \in applying[x] : k <= commitIndex[x]
    BY DEF IInv, AppliedIsCommitted
  <2>2. lastApplied[x] \in Nat /\ applying[x] \subseteq Nat
    BY IndexFacts DEF IInv, TypeOK
  <2> QED BY <1>7, <2>1, <2>2
<1> QED BY <1>3, <1>4, <1>6, <1>7, <1>8 DEF IInv

LEMMA CompleteKeeps ==
  ASSUME IInv, TypeOK', Grows, NEW s \in Server, Complete(s)
  PROVE  IInv'
<1>1. UNCHANGED <<matchedIndex, cluster, commitIndex, net>>
  BY DEF Complete, viewVars
<1>2. MessagesOK' /\ MatchedIsHeld' /\ ClustersGrow'
  BY <1>1, MessagesKept, MatchedKept DEF IInv, ClustersGrow
<1>3. CommittedIsHeld'
  BY <1>1, CommittedKept DEF IInv, CommittedIsHeld, Point!CommittedIsHeld
<1>4. AppliedIsCommitted'
  BY <1>1 DEF Complete, IInv, AppliedIsCommitted, TypeOK
<1> QED BY <1>2, <1>3, <1>4 DEF IInv

LEMMA InvariantInit == Init => IInv
<1> SUFFICES ASSUME Init PROVE IInv
  OBVIOUS
<1>1. TypeOK
  BY TypeInit
<1>2. ClustersGrow /\ MessagesOK /\ MatchedIsHeld /\ CommittedIsHeld /\ AppliedIsCommitted
  BY DEF Init, ClustersGrow, MessagesOK, MatchedIsHeld, CommittedIsHeld,
         Point!CommittedIsHeld, AppliedIsCommitted
<1> QED BY <1>1, <1>2 DEF IInv

LEMMA InvariantStep == IInv /\ [Next]_vars => IInv'
<1> SUFFICES ASSUME IInv, [Next]_vars PROVE IInv'
  OBVIOUS
<1>1. CASE Next
  <2>1. TypeOK' /\ Grows
    BY <1>1, TypeStep DEF IInv
  <2>2. ASSUME NEW m \in net, Deliver(m) PROVE IInv'
    BY <2>1, <2>2, SilentStep, RefusalKeeps, AppendKeeps, AcknowledgeKeeps DEF Deliver
  <2> QED
    BY <1>1, <2>1, <2>2, SilentStep, SendAppendKeeps, CompleteKeeps DEF Next
<1>2. CASE UNCHANGED vars
  BY <1>2 DEF vars, electVars, viewVars, logVars, applyVars, joinVars, IInv, TypeOK,
     ClustersGrow, MessagesOK, MessageOK, MatchedIsHeld, CommittedIsHeld,
     Point!CommittedIsHeld, AppliedIsCommitted, Held
<1> QED BY <1>1, <1>2

LEMMA Invariant == Spec => []IInv
  BY InvariantInit, InvariantStep, PTL DEF Spec

\* What a leader believes a member has, that member has stored: not even a
\* response that arrives terms later makes it believe more.
THEOREM MatchedSafety == Spec => []MatchedIsHeld
<1>1. IInv => MatchedIsHeld
  BY DEF IInv
<1> QED BY <1>1, Invariant, PTL

\* A commit index of any server, leader or follower, is reached by the logs
\* of more than half of some cluster that contains the configured members.
THEOREM CommitSafety == Spec => []CommittedIsHeld
<1>1. IInv => CommittedIsHeld
  BY DEF IInv
<1> QED BY <1>1, Invariant, PTL
-----------------------------------------------------------------------------
(* Replication implements CommitPoint.                                      *)

LEMMA PointInit == Init => Point!Init
  BY DEF Init, Point!Init, Held

\* A step that changes the log and the commit index of one server.
LEMMA AdvanceStep ==
  ASSUME IInv, IInv', Grows, NEW s \in Server, UNCHANGED lastApplied,
         \A x \in Server \ {s} : log'[x] = log[x] /\ commitIndex'[x] = commitIndex[x],
         commitIndex'[s] >= commitIndex[s]
  PROVE  Point!Next
<1> DEFINE more == Held'[s]
           i == commitIndex'[s]
<1>1. /\ log \in [Server -> LogType] /\ log' \in [Server -> LogType]
      /\ commitIndex \in [Server -> Index \cup {0}] /\ commitIndex' \in [Server -> Index \cup {0}]
  BY DEF IInv, TypeOK
<1>2. more \in SUBSET Index
  BY <1>1, LogFacts, HeldFacts
<1>3. Held' = [Held EXCEPT ![s] = @ \cup more]
  <2>1. Held[s] \cup more = Held'[s]
    BY HeldFacts
  <2>2. \A x \in Server \ {s} : Held'[x] = Held[x]
    BY HeldFacts
  <2>3. Held = [x \in Server |-> Held[x]] /\ Held' = [x \in Server |-> Held'[x]]
    BY HeldFacts
  <2> HIDE DEF more
  <2> QED BY <2>1, <2>2, <2>3 DEF more
<1>4. i \in Index \cup {0} /\ commitIndex' = [commitIndex EXCEPT ![s] = i]
  BY <1>1
<1>5. i > commitIndex[s] => Point!Chosen(Held', i)
  <2>1. commitIndex[s] \in Nat /\ i \in Nat
    BY <1>1, IndexFacts
  <2>2. i > 0 => Point!Chosen(Held', i)
    BY DEF IInv, CommittedIsHeld, Point!CommittedIsHeld
  <2> QED BY <2>1, <2>2
<1>6. Point!Advance(s)
  BY <1>2, <1>3, <1>4, <1>5 DEF Point!Advance
<1> QED BY <1>6 DEF Point!Next

LEMMA PointStep ==
  ASSUME IInv, IInv', Next, Grows
  PROVE  [Point!Next]_Point!vars
<1>0. \A x \in Server : commitIndex[x] \in Nat
  BY IndexFacts DEF IInv, TypeOK
<1>1. CASE UNCHANGED <<log, commitIndex, lastApplied>>
  BY <1>1 DEF Point!vars, Held
<1>2. ASSUME NEW j \in joins, Configure(j) PROVE Point!Next
  <2>1. j.at \in Server /\ UNCHANGED <<commitIndex, lastApplied>>
    BY <1>2 DEF IInv, TypeOK, Configure, applyVars
  <2>2. \A x \in Server \ {j.at} : log'[x] = log[x]
    BY <1>2 DEF Configure, IInv, TypeOK
  <2> QED BY <1>0, <2>1, <2>2, AdvanceStep
<1>3. ASSUME NEW m \in net, FailAppend(m) PROVE Point!Next
  <2>1. m.to \in Server /\ UNCHANGED <<commitIndex, lastApplied>>
    BY <1>3, TypeParts, AcceptsType DEF IInv, FailAppend, applyVars
  <2>2. \A x \in Server \ {m.to} : log'[x] = log[x]
    BY <1>3 DEF FailAppend, Store, IInv, TypeOK
  <2> QED BY <1>0, <2>1, <2>2, AdvanceStep
<1>4. ASSUME NEW m \in net, Append(m) PROVE Point!Next
  <2>1. m.to \in Server /\ UNCHANGED lastApplied
    BY <1>4, TypeParts, AcceptsType DEF IInv, Append
  <2>2. \A x \in Server \ {m.to} : log'[x] = log[x] /\ commitIndex'[x] = commitIndex[x]
    BY <1>4 DEF Append, Store, Commit, IInv, TypeOK
  <2>3. commitIndex'[m.to] >= commitIndex[m.to]
    BY <1>4, <2>1, AppendKeeps DEF IInv
  <2> QED BY <2>1, <2>2, <2>3, AdvanceStep
<1>5. ASSUME NEW m \in net, Acknowledge(m) PROVE Point!Next
  <2>1. m.to \in Server /\ UNCHANGED <<log, lastApplied>>
    BY <1>5, TypeParts, ResponseFields DEF IInv, Acknowledge, logVars
  <2>2. \A x \in Server \ {m.to} : commitIndex'[x] = commitIndex[x]
    BY <1>5 DEF Acknowledge, Commit, IInv, TypeOK
  <2>3. commitIndex'[m.to] >= commitIndex[m.to]
    BY <1>5, <2>1, AcknowledgeKeeps DEF IInv
  <2> QED BY <2>1, <2>2, <2>3, AdvanceStep
<1>6. ASSUME NEW s \in Server, Complete(s) PROVE [Point!Next]_Point!vars
  <2>1. PICK i \in applying[s] : lastApplied' = [lastApplied EXCEPT ![s] = IF i > @ THEN i ELSE @]
    BY <1>6 DEF Complete
  <2>2. UNCHANGED <<log, commitIndex>>
    BY <1>6 DEF Complete, logVars
  <2>3. i \in Index /\ i <= commitIndex[s] /\ lastApplied \in [Server -> Index \cup {0}]
    BY <2>1 DEF IInv, TypeOK, AppliedIsCommitted
  <2>4. CASE i > lastApplied[s]
    <3>1. lastApplied' = [lastApplied EXCEPT ![s] = i]
      BY <2>1, <2>3, <2>4
    <3>2. lastApplied[s] < i
      BY <2>3, <2>4, IndexFacts
    <3>3. Point!Apply(s)
      BY <2>2, <2>3, <3>1, <3>2 DEF Point!Apply, Held
    <3> QED BY <3>3 DEF Point!Next
  <2>5. CASE ~(i > lastApplied[s])
    <3>1. lastApplied' = lastApplied
      BY <2>1, <2>3, <2>5
    <3> QED BY <1>1, <2>2, <3>1
  <2> QED BY <2>4, <2>5
<1>7. ASSUME NEW m \in net, Deliver(m) PROVE [Point!Next]_Point!vars
  <2>1. CASE FailAppend(m) \/ Append(m) \/ Acknowledge(m)
    BY <1>3, <1>4, <1>5, <2>1
  <2>2. CASE RefuseTerm(m) \/ Exit(m) \/ RefusePrev(m) \/ Retry(m) \/ LearnTerm(m) \/ Lose(m)
    BY <1>1, <2>2 DEF RefuseTerm, Exit, RefusePrev, Retry, LearnTerm, Lose, logVars, applyVars
  <2> QED BY <1>7, <2>1, <2>2 DEF Deliver
<1>8. ASSUME NEW s \in Server, Campaign(s) \/ JoinRequest(s) \/ LeaveRequest(s) \/ Clean(s)
      PROVE  [Point!Next]_Point!vars
  BY <1>1, <1>8 DEF Campaign, JoinRequest, LeaveRequest, Clean, logVars, applyVars
<1>9. ASSUME NEW s \in Server, NEW d \in Server, SendAppend(s, d)
      PROVE  [Point!Next]_Point!vars
  BY <1>1, <1>9 DEF SendAppend, logVars, applyVars
<1> QED BY <1>2, <1>6, <1>7, <1>8, <1>9 DEF Next

\* The detailed replication keeps the promise of a commit index: it only
\* moves forward, to indexes a majority has stored something at, and the
\* entries applied stay behind it.
THEOREM Refinement == Spec => ImplementsCommitPoint
<1>1. IInv /\ IInv' /\ [Next]_vars => [Point!Next]_Point!vars
  <2> SUFFICES ASSUME IInv, IInv', [Next]_vars PROVE [Point!Next]_Point!vars
    OBVIOUS
  <2>1. CASE Next
    BY <2>1, TypeStep, PointStep DEF IInv
  <2>2. CASE UNCHANGED vars
    BY <2>2 DEF vars, logVars, applyVars, Point!vars, Held
  <2> QED BY <2>1, <2>2
<1>2. Init => Point!Init
  BY PointInit
<1> QED BY <1>1, <1>2, Invariant, PTL DEF Spec, ImplementsCommitPoint, Point!Spec
=============================================================================
