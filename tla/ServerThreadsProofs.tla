------------------------ MODULE ServerThreadsProofs -------------------------
(***************************************************************************)
(* In every interleaving of the two threads of a server, its replicators   *)
(* run only after a VoteQuorum has had the votes of a majority, and terms, *)
(* elections and awaited answers stay within the bounds.  As long as no    *)
(* timeout overlaps a handler, a server at rest is all of one role and a   *)
(* term gets one vote.                                                     *)
(***************************************************************************)
EXTENDS ServerThreads, FiniteSetTheorems, SequenceTheorems, TLAPS

Role     == Timed \cup {"LEADER"}
Resting  == [at : {"idle", "exited"}]
HandlerStep ==
  {"compare", "adopt", "clear", "fallBehind", "assignFollower", "answer", "handle",
   "check", "grant", "merge", "elected", "lead", "assignLeader"}
Handling ==
  [at : HandlerStep,
   kind : Kind, term : Int, from : Other \cup {NoServer}, ok : BOOLEAN, as : Role, read : Int]
Firing ==
  [at : {"fired", "entering", "setTerm", "setVote", "request", "assign"}, of : Timed, read : Int]
Election == [yes : Int, no : Int, outcome : {"open", "won", "lost", "cancelled"}]

\* What the argument needs to know about the shape of the variables.
Shape ==
  /\ term \in Int
  /\ role \in Role
  /\ elections \in Seq(Election)
  /\ quorum \in 0 .. Len(elections)
  /\ event \in Resting \cup Handling
  /\ timer \in Resting \cup Firing
  /\ At("merge") => event.read \in 1 .. Len(elections)

SomeMajority == \E id \in 1 .. Len(elections) : elections[id].yes >= Quorum

\* On its way from the last vote to the replicators, the event thread has a
\* majority behind it.
ElectedInv ==
  /\ Shape
  /\ At("elected") \/ At("lead") \/ replicating => SomeMajority

\* No step takes a vote back.
VotesKept ==
  /\ Len(elections) <= Len(elections')
  /\ \A id \in 1 .. Len(elections) : elections'[id].yes >= elections[id].yes
-----------------------------------------------------------------------------
\* Half the members, rounded up, is a number.
LEMMA QuorumIsInt == Quorum \in Int
  BY MemberAssumption, FS_CardinalityType DEF Quorum

\* Counting keeps an election an election and takes no vote back.
LEMMA CountKeeps ==
  ASSUME NEW e \in Election, NEW ok \in BOOLEAN
  PROVE  Count(e, ok) \in Election /\ Count(e, ok).yes >= e.yes
  BY DEF Count, Election

\* An election counted now is won by the votes of a majority.
LEMMA WonByMajority ==
  ASSUME NEW e \in Election, NEW ok \in BOOLEAN,
         e.outcome = "open", Count(e, ok).outcome = "won"
  PROVE  Count(e, ok).yes >= Quorum
  BY DEF Count, Election

\* Suspending a role keeps the elections, and the votes in them.
LEMMA SuspendKeeps ==
  ASSUME NEW woken, Shape, ~NothingToCancel, Suspend(woken)
  PROVE  /\ elections' \in Seq(Election)
         /\ Len(elections') = Len(elections)
         /\ \A id \in 1 .. Len(elections) : elections'[id].yes = elections[id].yes
         /\ quorum' \in 0 .. Len(elections')
<1>1. CASE role = "CANDIDATE"
  <2>1. quorum \in 1 .. Len(elections)
    BY <1>1 DEF Shape, NothingToCancel
  <2>2. PICK e : e \in Election /\ e.yes = elections[quorum].yes
                 /\ elections' = [elections EXCEPT ![quorum] = e]
    <3> DEFINE e == [elections[quorum] EXCEPT !.outcome =
                       IF @ = "open" THEN "cancelled" ELSE @]
    <3>1. elections[quorum] \in Election
      BY <2>1 DEF Shape
    <3>2. e \in Election /\ e.yes = elections[quorum].yes
      BY <3>1 DEF Election
    <3>3. elections' = [elections EXCEPT ![quorum] = e]
      BY <1>1 DEF Suspend
    <3> QED BY <3>2, <3>3
  <2>3. quorum' = 0
    BY <1>1 DEF Suspend
  <2> QED BY <2>1, <2>2, <2>3 DEF Shape
<1>2. CASE role # "CANDIDATE"
  BY <1>2 DEF Suspend, votes, Shape
<1> QED BY <1>1, <1>2
-----------------------------------------------------------------------------
\* The votes of an election can be counted.
LEMMA YesIsInt ==
  ASSUME Shape
  PROVE  \A id \in 1 .. Len(elections) : elections[id].yes \in Int
<1>1. elections \in Seq(Election)
  BY DEF Shape
<1>2. ASSUME NEW id \in 1 .. Len(elections)
      PROVE  elections[id] \in Election
  BY <1>1, <1>2
<1> QED BY <1>2 DEF Election

\* A step that leaves the elections alone keeps the votes.
LEMMA UnchangedKeeps ==
  ASSUME Shape, elections' = elections
  PROVE  VotesKept /\ elections' \in Seq(Election)
  BY YesIsInt DEF Shape, VotesKept

\* The timer thread keeps the shape, opens at most a new election, and never
\* starts replicators.
LEMMA TimerKeeps ==
  ASSUME Shape, TimerStep \/ \E r \in Timed : Fire(r)
  PROVE  Shape' /\ VotesKept /\ event' = event /\ (replicating' => replicating)
<1> USE DEF TimerAt, At, votes, member, history
<1>1. ASSUME NEW r \in Timed, Fire(r)
      PROVE  Shape' /\ VotesKept /\ event' = event /\ (replicating' => replicating)
  <2>1. timer' \in Firing
    BY <1>1 DEF Fire, Firing
  <2> QED BY <1>1, <2>1, UnchangedKeeps DEF Fire, Shape
<1>2. CASE CallRole
  <2>1. timer' \in Resting \cup Firing
    BY <1>2 DEF CallRole, TimerIdle, Shape, Resting, Firing
  <2> QED BY <1>2, <2>1, UnchangedKeeps DEF CallRole, Shape
<1>3. CASE EnterCandidate
  <2>1. timer' \in Resting \cup Firing
    <3>1. timer \in Firing /\ term \in Int
      BY <1>3 DEF EnterCandidate, Shape, Resting, Firing
    <3>2. timer' = TimerIdle \/ timer' = [timer EXCEPT !.at = "setTerm", !.read = term]
      BY <1>3 DEF EnterCandidate
    <3>3. TimerIdle \in Resting
      BY DEF TimerIdle, Resting
    <3>4. [timer EXCEPT !.at = "setTerm", !.read = term] \in Firing
      BY <3>1 DEF Firing
    <3> QED BY <3>2, <3>3, <3>4
  <2>2. CASE NothingToCancel
    BY <1>3, <2>1, <2>2, UnchangedKeeps DEF EnterCandidate, FailToSuspend, Shape
  <2>3. CASE ~NothingToCancel
    <3>1. Suspend("CANDIDATE") /\ event' = event /\ term' = term /\ role' = role
          /\ (replicating' => replicating)
      BY <1>3, <2>3 DEF EnterCandidate
    <3>2. VotesKept /\ elections' \in Seq(Election) /\ quorum' \in 0 .. Len(elections')
          /\ Len(elections') = Len(elections)
      BY <2>3, <3>1, YesIsInt, SuspendKeeps DEF VotesKept, Shape
    <3> QED BY <2>1, <3>1, <3>2 DEF Shape
  <2> QED BY <2>2, <2>3
<1>4. CASE IncreaseTerm
  <2>1. timer' \in Firing /\ term' \in Int
    <3>1. timer \in Firing
      BY <1>4 DEF IncreaseTerm, Shape, Resting, Firing
    <3>2. timer' = [timer EXCEPT !.at = "setVote"] /\ term' = timer.read + 1
      BY <1>4 DEF IncreaseTerm
    <3> QED BY <3>1, <3>2 DEF Firing
  <2> QED BY <1>4, <2>1, UnchangedKeeps DEF IncreaseTerm, Shape
<1>5. CASE VoteForSelf
  <2>1. PICK e \in Election :
          elections' = Append(elections, e) /\ quorum' = Len(elections) + 1
    <3>1. [yes |-> 1, no |-> 0, outcome |-> IF Quorum = 1 THEN "won" ELSE "open"] \in Election
      <4> DEFINE won == Quorum = 1
      <4> HIDE DEF won
      <4>1. [yes |-> 1, no |-> 0, outcome |-> IF won THEN "won" ELSE "open"] \in Election
        BY DEF Election
      <4> QED BY <4>1 DEF won
    <3> QED BY <1>5, <3>1 DEF VoteForSelf
  <2>2. elections' \in Seq(Election) /\ Len(elections') = Len(elections) + 1
        /\ \A id \in 1 .. Len(elections) : elections'[id] = elections[id]
    BY <2>1 DEF Shape
  <2>4. VotesKept
    BY <2>2, YesIsInt DEF VotesKept, Shape
  <2>5. timer' \in Firing
    BY <1>5 DEF VoteForSelf, Shape, Resting, Firing
  <2> QED BY <1>5, <2>1, <2>2, <2>4, <2>5 DEF VoteForSelf, Shape
<1>6. CASE RequestVotes
  <2>1. timer' \in Firing /\ role' \in Role
    BY <1>6 DEF RequestVotes, Role, Timed, Shape, Resting, Firing
  <2> QED BY <1>6, <2>1, UnchangedKeeps DEF RequestVotes, Shape
<1>7. CASE AssignCandidate
  <2>1. timer' \in Resting /\ role' \in Role
    BY <1>7 DEF AssignCandidate, TimerIdle, Role, Timed, Resting
  <2> QED BY <1>7, <2>1, UnchangedKeeps DEF AssignCandidate, Shape
<1> QED BY <1>1, <1>2, <1>3, <1>4, <1>5, <1>6, <1>7 DEF TimerStep
-----------------------------------------------------------------------------
\* The event thread between two messages, or with one.
LEMMA InHandler ==
  ASSUME Shape, event.at \notin {"idle", "exited"}
  PROVE  event \in Handling
  BY DEF Shape, Resting

\* The event thread moves on inside a handler.
LEMMA GoOnMoves ==
  ASSUME event \in Handling, NEW step \in HandlerStep, GoOn(step)
  PROVE  event' \in Handling /\ event'.at = step
  BY DEF GoOn, Handling

\* The event thread moves on, and keeps what it has read.
LEMMA ReadMoves ==
  ASSUME event \in Handling, NEW step \in HandlerStep, NEW read \in Int,
         event' = [event EXCEPT !.at = step, !.read = read]
  PROVE  event' \in Handling /\ event'.at = step /\ event'.read = read
  BY DEF Handling

\* A handler has come to its end.
LEMMA DoneRests == Done \/ Abort => event' \in Resting /\ event'.at = "idle"
  BY DEF Done, Abort, EventIdle, Resting

\* Picking a message starts a handler.
LEMMA PickKeeps ==
  ASSUME NEW kind \in Kind, NEW t \in 1 .. MaxTerm, NEW from \in Other \cup {NoServer},
         NEW ok \in BOOLEAN, Shape, Pick(kind, t, from, ok)
  PROVE  Shape' /\ VotesKept /\ event'.at = "compare" /\ replicating' = replicating
<1>1. event' \in Handling /\ event'.at = "compare"
  BY DEF Pick, Handling, HandlerStep, Shape
<1> QED BY <1>1, UnchangedKeeps DEF Pick, Shape, At, member, votes

\* Steps of a handler before it counts a vote.
LEMMA HandlerKeeps ==
  ASSUME Shape,
         \/ CompareTerm \/ AdoptTerm \/ ClearVote \/ AssignFollower \/ AnswerNewerTerm
         \/ HandleVoteRequest \/ CheckVote \/ Grant \/ AssignLeader \/ HandleAppendRequest
  PROVE  Shape' /\ VotesKept /\ replicating' = replicating
         /\ event'.at \notin {"merge", "elected", "lead"}
<1>1. elections' = elections /\ quorum' = quorum /\ replicating' = replicating
  BY DEF CompareTerm, AdoptTerm, ClearVote, AssignFollower, AnswerNewerTerm, HandleVoteRequest,
         CheckVote, Grant, AssignLeader, HandleAppendRequest, ExitOnAppend, ResetTimer, votes
<1>2. event.at \notin {"idle", "exited"}
  BY DEF CompareTerm, AdoptTerm, ClearVote, AssignFollower, AnswerNewerTerm, HandleVoteRequest,
         CheckVote, Grant, AssignLeader, HandleAppendRequest, At
<1>3. event \in Handling /\ term \in Int
  BY <1>2, InHandler DEF Shape
<1>4. term' \in Int /\ role' \in Role
  BY <1>3 DEF CompareTerm, AdoptTerm, ClearVote, AssignFollower, AnswerNewerTerm,
         HandleVoteRequest, CheckVote, Grant, AssignLeader, HandleAppendRequest, Shape, Handling,
         member, Role, Timed
<1>5. timer' \in Resting \cup Firing
  BY DEF CompareTerm, AdoptTerm, ClearVote, AssignFollower, AnswerNewerTerm, HandleVoteRequest,
         CheckVote, Grant, AssignLeader, HandleAppendRequest, ExitOnAppend, ResetTimer, Shape,
         Resting
<1>6. \/ event' \in Resting /\ event'.at \in {"idle", "exited"}
      \/ \E step \in HandlerStep \ {"merge", "elected", "lead"} :
           GoOn(step) \/ event' = [event EXCEPT !.at = step, !.read = term]
  <2>1. CASE CompareTerm \/ AdoptTerm \/ ClearVote
    BY <2>1, DoneRests DEF CompareTerm, AdoptTerm, ClearVote, HandlerStep
  <2>2. CASE AssignFollower \/ AssignLeader \/ Grant
    BY <2>2, DoneRests DEF AssignFollower, AssignLeader, Grant, HandlerStep
  <2>3. CASE AnswerNewerTerm \/ HandleVoteRequest \/ CheckVote
    BY <2>3, DoneRests DEF AnswerNewerTerm, HandleVoteRequest, CheckVote, HandlerStep
  <2>4. CASE HandleAppendRequest
    <3>1. CASE event' = [at |-> "exited"]
      BY <3>1 DEF Resting
    <3>2. CASE event' # [at |-> "exited"]
      <4>1. Done \/ Abort
        BY <2>4, <3>2 DEF HandleAppendRequest, ExitOnAppend, ResetTimer
      <4> QED BY <4>1, DoneRests
    <3> QED BY <3>1, <3>2
  <2> QED BY <2>1, <2>2, <2>3, <2>4
<1>7. event' \in Resting \cup Handling /\ event'.at \notin {"merge", "elected", "lead"}
  <2>1. CASE event' \in Resting /\ event'.at \in {"idle", "exited"}
    BY <2>1
  <2>2. ASSUME NEW step \in HandlerStep \ {"merge", "elected", "lead"},
               GoOn(step) \/ event' = [event EXCEPT !.at = step, !.read = term]
        PROVE  event' \in Handling /\ event'.at = step
    BY <1>3, <2>2, GoOnMoves, ReadMoves
  <2> QED BY <1>6, <2>1, <2>2
<1> QED BY <1>1, <1>4, <1>5, <1>7, UnchangedKeeps DEF Shape, At

\* HandleVoteResponse takes the VoteQuorum of now.
LEMMA ResponseKeeps ==
  ASSUME Shape, HandleVoteResponse
  PROVE  Shape' /\ VotesKept /\ replicating' = replicating
         /\ event'.at \notin {"elected", "lead"}
<1>1. CASE Done
  <2>1. event' \in Resting /\ event'.at = "idle"
    BY <1>1, DoneRests
  <2> QED BY <2>1, UnchangedKeeps DEF HandleVoteResponse, Shape, At, member, votes
<1>2. CASE ~Done
  <2>1. event' = [event EXCEPT !.at = "merge", !.read = quorum] /\ quorum # 0
    BY <1>2 DEF HandleVoteResponse
  <2>2. quorum \in 1 .. Len(elections) /\ event.at = "handle"
    BY <2>1 DEF Shape, HandleVoteResponse, At
  <2>3. event' \in Handling /\ event'.at = "merge" /\ event'.read = quorum
    <3>1. event \in Handling /\ "merge" \in HandlerStep /\ quorum \in Int
      BY <2>2, InHandler DEF HandlerStep
    <3> QED BY <2>1, <3>1, ReadMoves
  <2> QED BY <2>2, <2>3, UnchangedKeeps DEF HandleVoteResponse, Shape, At, member, votes
<1> QED BY <1>1, <1>2

\* The vote that completes the VoteQuorum makes a majority.
LEMMA MergeKeeps ==
  ASSUME Shape, Merge
  PROVE  Shape' /\ VotesKept /\ replicating' = replicating /\ event'.at # "lead"
         /\ (event'.at = "elected" => SomeMajority')
<1> DEFINE id == event.read
           e  == elections[id]
           counted == Count(e, event.ok)
<1>1. event \in Handling /\ id \in 1 .. Len(elections) /\ event.at = "merge"
  BY InHandler DEF Merge, At, Shape
<1>2. e \in Election /\ event.ok \in BOOLEAN
  BY <1>1 DEF Shape, Handling
<1>3. counted \in Election /\ counted.yes >= e.yes
  BY <1>2, CountKeeps
<1>4. elections' = [elections EXCEPT ![id] = counted]
  BY DEF Merge
<1>5. elections' \in Seq(Election) /\ Len(elections') = Len(elections)
      /\ elections'[id] = counted
      /\ \A i \in 1 .. Len(elections) : i # id => elections'[i] = elections[i]
  <2> HIDE DEF counted, id
  <2> QED BY <1>1, <1>3, <1>4 DEF Shape
<1>6. VotesKept
  <2> HIDE DEF counted, id
  <2> QED BY <1>3, <1>5, YesIsInt DEF VotesKept, Shape
<1>7. CASE e.outcome = "open" /\ counted.outcome = "won"
  <2>1. event' \in Handling /\ event'.at = "elected"
    <3>1. GoOn("elected") /\ "elected" \in HandlerStep
      BY <1>7 DEF Merge, HandlerStep
    <3> QED BY <1>1, <3>1, GoOnMoves
  <2>2. SomeMajority'
    <3>1. counted.yes >= Quorum
      BY <1>2, <1>7, WonByMajority
    <3> HIDE DEF counted, id
    <3> QED BY <1>1, <1>5, <3>1 DEF SomeMajority, Quorum
  <2> QED BY <1>5, <1>6, <2>1, <2>2 DEF Merge, Shape, At, member
<1>8. CASE ~(e.outcome = "open" /\ counted.outcome = "won")
  <2>1. event' \in Resting /\ event'.at = "idle"
    BY <1>8, DoneRests DEF Merge
  <2> QED BY <1>5, <1>6, <2>1 DEF Merge, Shape, At, member
<1> QED BY <1>7, <1>8

\* A refusal that comes as an exception only adds to the votes against.
LEMMA FailKeeps ==
  ASSUME Shape, FailVote
  PROVE  Shape' /\ VotesKept /\ event' = event /\ replicating' = replicating
<1>1. PICK id \in 1 .. Len(elections) : elections' = [elections EXCEPT ![id] = Count(@, FALSE)]
  <2>1. DOMAIN elections = 1 .. Len(elections)
    BY DEF Shape
  <2> QED BY <2>1 DEF FailVote
<1>2. PICK e \in Election : e.yes >= elections[id].yes /\ elections' = [elections EXCEPT ![id] = e]
  <2>1. elections[id] \in Election
    BY DEF Shape
  <2> QED BY <1>1, <2>1, CountKeeps
<1>3. elections' \in Seq(Election) /\ Len(elections') = Len(elections)
      /\ elections'[id] = e
      /\ \A i \in 1 .. Len(elections) : i # id => elections'[i] = elections[i]
  BY <1>2 DEF Shape
<1>4. VotesKept
  BY <1>2, <1>3, YesIsInt DEF VotesKept, Shape
<1> QED BY <1>3, <1>4 DEF FailVote, Shape, At, member

\* A change of role of the event thread.  Only Lead starts replicators, and
\* only FallBehind and Lead follow a decision taken earlier.
LEMMA RoleKeeps ==
  ASSUME Shape, FallBehind \/ BecomeMaster \/ Lead
  PROVE  /\ Shape' /\ VotesKept /\ event'.at \notin {"merge", "elected"}
         /\ event'.at = "lead" => event.at = "elected"
         /\ replicating' => replicating \/ event.at = "lead"
<1>1. event.at \in {"fallBehind", "elected", "lead"} /\ event \in Handling
  BY InHandler DEF FallBehind, BecomeMaster, Lead, At
<1>2. CASE BecomeMaster
  <2>1. \/ event' \in Resting /\ event'.at = "idle"
        \/ event' \in Handling /\ event'.at = "lead"
    <3>1. "lead" \in HandlerStep /\ (GoOn("lead") \/ Abort)
      BY <1>2 DEF BecomeMaster, HandlerStep
    <3> QED BY <1>1, <3>1, DoneRests, GoOnMoves
  <2> QED BY <1>2, <2>1, UnchangedKeeps DEF BecomeMaster, Shape, At, member, votes
<1>3. ASSUME FallBehind \/ Lead, NothingToCancel
      PROVE  /\ Shape' /\ VotesKept /\ event'.at = "idle" /\ replicating' = replicating
  <2>1. event' \in Resting /\ event'.at = "idle"
    BY <1>3, DoneRests DEF FallBehind, Lead
  <2> QED BY <1>3, <2>1, UnchangedKeeps
     DEF FallBehind, Lead, FailToSuspend, Shape, At, member, votes
<1>4. ASSUME FallBehind \/ Lead, ~NothingToCancel
      PROVE  /\ Shape' /\ VotesKept /\ event'.at \in {"assignFollower", "assignLeader"}
             /\ replicating' => replicating \/ event.at = "lead"
  <2>1. Suspend("FOLLOWER") \/ Suspend("LEADER")
    BY <1>4 DEF FallBehind, Lead
  <2>2. VotesKept /\ elections' \in Seq(Election) /\ quorum' \in 0 .. Len(elections')
    BY <1>4, <2>1, YesIsInt, SuspendKeeps DEF VotesKept, Shape
  <2>3. event' \in Handling /\ event'.at \in {"assignFollower", "assignLeader"}
    <3>1. {"assignFollower", "assignLeader"} \subseteq HandlerStep
      BY DEF HandlerStep
    <3>2. \E step \in {"assignFollower", "assignLeader"} : GoOn(step)
      BY <1>4 DEF FallBehind, Lead
    <3> QED BY <1>1, <3>1, <3>2, GoOnMoves
  <2>4. term' = term /\ timer' = timer /\ role' \in Role
        /\ (replicating' => replicating \/ event.at = "lead")
    BY <1>4 DEF FallBehind, Lead, At, Role, Timed, member
  <2> QED BY <2>2, <2>3, <2>4 DEF Shape, At
<1> QED BY <1>2, <1>3, <1>4
-----------------------------------------------------------------------------
\* A majority stays one: no step takes a vote back.
LEMMA MajorityStays ==
  ASSUME Shape, Shape', VotesKept, SomeMajority
  PROVE  SomeMajority'
<1>1. PICK id \in 1 .. Len(elections) : elections[id].yes >= Quorum
  BY DEF SomeMajority
<1>2. id \in 1 .. Len(elections') /\ elections'[id].yes >= elections[id].yes
  BY DEF VotesKept, Shape
<1>3. elections[id].yes \in Int /\ elections'[id].yes \in Int
  <2>1. elections[id] \in Election /\ elections'[id] \in Election
    BY <1>2 DEF Shape
  <2> QED BY <2>1 DEF Election
<1>4. Quorum \in Int /\ Quorum' = Quorum
  BY QuorumIsInt DEF Quorum
<1>5. elections'[id].yes >= Quorum'
  BY <1>1, <1>2, <1>3, <1>4
<1> QED BY <1>2, <1>5 DEF SomeMajority

LEMMA ElectedInit == Init => ElectedInv
<1> SUFFICES ASSUME Init PROVE ElectedInv
  OBVIOUS
<1>1. event \in Resting /\ timer \in Resting /\ event.at = "idle"
  BY DEF Init, EventIdle, TimerIdle, Resting
<1>2. elections = <<>> /\ quorum = 0 /\ term = 0 /\ role = "FOLLOWER" /\ ~replicating
  BY DEF Init
<1> QED BY <1>1, <1>2 DEF ElectedInv, Shape, At, Role, Timed

LEMMA ElectedStep == ElectedInv /\ [Next]_vars => ElectedInv'
<1> SUFFICES ASSUME ElectedInv, [Next]_vars PROVE ElectedInv'
  OBVIOUS
<1> USE DEF ElectedInv, At
<1>1. CASE TimerStep \/ \E r \in Timed : Fire(r)
  BY <1>1, TimerKeeps, MajorityStays
<1>2. CASE \E kind \in Kind, t \in 1 .. MaxTerm, from \in Other \cup {NoServer}, ok \in BOOLEAN :
             Pick(kind, t, from, ok)
  BY <1>2, PickKeeps, MajorityStays
<1>3. CASE \/ CompareTerm \/ AdoptTerm \/ ClearVote \/ AssignFollower \/ AnswerNewerTerm
           \/ HandleVoteRequest \/ CheckVote \/ Grant \/ AssignLeader \/ HandleAppendRequest
  BY <1>3, HandlerKeeps, MajorityStays
<1>4. CASE HandleVoteResponse
  BY <1>4, ResponseKeeps, MajorityStays
<1>5. CASE Merge
  BY <1>5, MergeKeeps, MajorityStays
<1>6. CASE FallBehind \/ BecomeMaster \/ Lead
  BY <1>6, RoleKeeps, MajorityStays
<1>7. CASE FailVote
  BY <1>7, FailKeeps, MajorityStays
<1>8. CASE UNCHANGED vars
  BY <1>8 DEF vars, member, votes, history, Shape, SomeMajority, Quorum
<1> QED BY <1>1, <1>2, <1>3, <1>4, <1>5, <1>6, <1>7, <1>8 DEF Next, EventStep

\* The replicators of a server run only after a majority has voted for it,
\* whatever the threads of the server do to each other's state
\* (CandidateState.handle, VoteQuorum, RaftState.onElectAsMaster).
THEOREM LeadersWereElected == Spec => []LeaderWasElected
<1>1. ElectedInv => LeaderWasElected
  BY DEF ElectedInv, SomeMajority, LeaderWasElected, Shape
<1> QED BY <1>1, ElectedInit, ElectedStep, PTL DEF Spec

LEMMA ShapeStep == ElectedInv /\ [Next]_vars => Shape /\ Shape'
  BY ElectedStep DEF ElectedInv
-----------------------------------------------------------------------------
(* Types.  The term is bounded although wakeup may write one that is older  *)
(* than what the event thread has adopted meanwhile.                        *)

\* Between the write of the term and its election the term may be one ahead
\* of what the elections so far explain.
Ahead(step) == IF timer.at = step THEN 1 ELSE 0

Opening == timer.at \in {"fired", "entering", "setTerm", "setVote"}

BoundsOK ==
  /\ term \in 0 .. MaxTerm + Len(elections) + Ahead("setVote")
  /\ timer.at = "setTerm" => timer.read \in 0 .. MaxTerm + Len(elections)
  /\ Len(elections) + (IF Opening THEN 1 ELSE 0) <= MaxElections
  /\ asked \in Nat
  /\ asked + Ahead("request") * Cardinality(Other) <= Len(elections) * Cardinality(Other)

\* What the event thread has read, and whose vote it handles.
EventOK ==
  event.at \in HandlerStep =>
    /\ event.term \in 1 .. MaxTerm
    /\ event.kind = "VoteRequest" <=> event.from # NoServer
    /\ event.at \in {"answer", "check", "grant"} => event.kind = "VoteRequest"
    /\ event.at \in {"check", "grant"} => event.read \in Term

FieldsOK ==
  /\ votedFor \in Other \cup {Self, NoServer}
  /\ clock \in [Timed -> {"off", "armed", "spent"}]
  /\ replicating \in BOOLEAN /\ raced \in BOOLEAN
  /\ ballots \subseteq [term : Term, candidate : Other \cup {Self}]

TypeInv == FieldsOK /\ EventOK /\ BoundsOK

LEMMA OthersCount == Cardinality(Other) \in Nat
  BY MemberAssumption, FS_CardinalityType

LEMMA Products ==
  ASSUME NEW c \in Nat
  PROVE  /\ \A n \in Nat : (n + 1) * c = n * c + c /\ n * c \in Nat
         /\ \A n, k \in Nat : n <= k => n * c <= k * c
<1>1. ASSUME NEW n \in Nat PROVE (n + 1) * c = n * c + c /\ n * c \in Nat
  OBVIOUS
<1>2. ASSUME NEW n \in Nat, NEW k \in Nat, n <= k PROVE n * c <= k * c
  <2>1. k - n \in Nat /\ k = n + (k - n)
    BY <1>2
  <2>2. PICK d \in Nat : k = n + d
    BY <2>1
  <2>3. (n + d) * c = n * c + d * c /\ d * c \in Nat /\ n * c \in Nat
    OBVIOUS
  <2> QED BY <2>2, <2>3
<1> QED BY <1>1, <1>2

LEMMA ClockKeeps ==
  ASSUME FieldsOK, Shape,
         \/ \E woken : Suspend(woken)
         \/ NothingToCancel /\ FailToSuspend
         \/ \E r \in Timed : clock' = [clock EXCEPT ![r] = "armed"]
         \/ \E r \in Timed : clock' = [clock EXCEPT ![r] = "spent"]
         \/ \E r \in Timed : clock' = Stop(clock, r)
         \/ clock' = clock
  PROVE  clock' \in [Timed -> {"off", "armed", "spent"}]
<1> DEFINE C == [Timed -> {"off", "armed", "spent"}]
<1>1. clock \in C
  BY DEF FieldsOK
<1>2. \A c \in C, r \in Timed : Stop(c, r) \in C /\ Start(c, r) \in C
  BY DEF Stop, Start
<1>3. ASSUME NEW woken, Suspend(woken) PROVE clock' \in C
  <2> DEFINE stopped == IF role \in Timed THEN Stop(clock, role) ELSE clock
  <2>1. stopped \in C
    BY <1>1, <1>2
  <2>2. clock' = IF woken \in Timed THEN Start(stopped, woken) ELSE stopped
    BY <1>3 DEF Suspend
  <2> QED BY <1>2, <2>1, <2>2
<1>4. CASE NothingToCancel /\ FailToSuspend
  BY <1>1, <1>2, <1>4 DEF FailToSuspend, NothingToCancel, Timed
<1> QED BY <1>1, <1>2, <1>3, <1>4

LEMMA TypeInit == Init => TypeInv
<1> SUFFICES ASSUME Init PROVE TypeInv
  OBVIOUS
<1>1. Len(elections) = 0 /\ 0 * Cardinality(Other) = 0 /\ timer.at = "idle" /\ event.at = "idle"
  BY OthersCount DEF Init, TimerIdle, EventIdle
<1>2. FieldsOK
  BY DEF Init, FieldsOK, Timed
<1>3. EventOK
  BY <1>1 DEF EventOK, HandlerStep
<1>4. BoundsOK
  BY <1>1, BoundAssumption, OthersCount DEF Init, BoundsOK, Ahead, Opening
<1> QED BY <1>2, <1>3, <1>4 DEF TypeInv

\* Terms of the bounds are terms of the type.
LEMMA TermBound ==
  ASSUME Shape, BoundsOK
  PROVE  /\ term \in Term /\ Len(elections) \in Nat /\ Len(elections) <= MaxElections
         /\ asked \in 0 .. MaxElections * Cardinality(Other)
<1>1. Len(elections) \in Nat /\ Len(elections) + (IF Opening THEN 1 ELSE 0) <= MaxElections
  BY DEF Shape, BoundsOK
<1>2. Len(elections) <= MaxElections /\ (timer.at = "setVote" => Len(elections) + 1 <= MaxElections)
  BY <1>1, BoundAssumption DEF Opening
<1>3. term \in Term
  BY <1>1, <1>2, BoundAssumption DEF BoundsOK, Ahead, Term
<1>4. /\ Len(elections) * Cardinality(Other) <= MaxElections * Cardinality(Other)
      /\ MaxElections * Cardinality(Other) \in Nat
      /\ Len(elections) * Cardinality(Other) \in Nat
  BY <1>1, <1>2, BoundAssumption, OthersCount, Products
<1>5. asked \in Nat /\ asked + Ahead("request") * Cardinality(Other)
          <= Len(elections) * Cardinality(Other)
  BY DEF BoundsOK
<1>6. Ahead("request") * Cardinality(Other) \in Nat
  BY OthersCount, Products DEF Ahead
<1> QED BY <1>1, <1>2, <1>3, <1>4, <1>5, <1>6

\* Suspending a role makes no election.
LEMMA SuspendCounts ==
  ASSUME Shape, \/ NothingToCancel /\ FailToSuspend
                \/ ~NothingToCancel /\ \E woken : Suspend(woken)
  PROVE  Len(elections') = Len(elections)
BY SuspendKeeps DEF FailToSuspend, votes

LEMMA TimerTypes ==
  ASSUME Shape, TypeInv, TimerStep \/ \E r \in Timed : Fire(r)
  PROVE  TypeInv'
<1> USE DEF TypeInv
<1>0. /\ term \in Term /\ Len(elections) \in Nat /\ Len(elections) <= MaxElections
      /\ Cardinality(Other) \in Nat /\ MaxTerm \in Nat /\ MaxElections \in Nat
      /\ Len(elections) * Cardinality(Other) \in Nat
      /\ (Len(elections) + 1) * Cardinality(Other)
           = Len(elections) * Cardinality(Other) + Cardinality(Other)
  BY TermBound, OthersCount, Products, BoundAssumption
<1>1. EventOK'
  <2>1. event' = event
    BY TimerKeeps
  <2> QED BY <2>1 DEF EventOK
<1> USE DEF TimerAt
<1>2. ASSUME NEW r \in Timed, Fire(r) PROVE TypeInv'
  <2>1. /\ timer.at = "idle" /\ Len(elections) < MaxElections /\ timer'.at = "fired"
        /\ clock' = [clock EXCEPT ![r] = "spent"] /\ raced' = (raced \/ event.at # "idle")
        /\ UNCHANGED <<term, votedFor, elections, replicating, asked, ballots>>
    BY <1>2 DEF Fire, member, votes
  <2>2. FieldsOK'
    BY <2>1, ClockKeeps DEF FieldsOK
  <2>3. BoundsOK'
    BY <1>0, <2>1 DEF BoundsOK, Ahead, Opening
  <2> QED BY <1>1, <2>2, <2>3
<1>3. CASE CallRole
  <2>1. /\ timer.at = "fired" /\ timer'.at \in {"entering", "idle"}
        /\ UNCHANGED <<term, votedFor, clock, elections, replicating, asked, ballots, raced>>
    <3>1. timer \in Firing
      BY <1>3 DEF CallRole, Shape, Resting
    <3> QED BY <1>3, <3>1 DEF CallRole, TimerIdle, member, votes, history, Firing
  <2>2. FieldsOK'
    BY <2>1 DEF FieldsOK
  <2>3. BoundsOK'
    BY <1>0, <2>1 DEF BoundsOK, Ahead, Opening
  <2> QED BY <1>1, <2>2, <2>3
<1>4. CASE EnterCandidate
  <2>1. timer.at = "entering" /\ timer \in Firing
    BY <1>4 DEF EnterCandidate, Shape, Resting
  <2>2. /\ timer'.at = "idle" \/ (timer'.at = "setTerm" /\ timer'.read = term)
        /\ UNCHANGED <<term, votedFor, asked, ballots, raced>>
        /\ \/ NothingToCancel /\ FailToSuspend
           \/ ~NothingToCancel /\ Suspend("CANDIDATE")
    <3>1. \/ NothingToCancel /\ FailToSuspend /\ timer' = TimerIdle
          \/ /\ ~NothingToCancel /\ Suspend("CANDIDATE")
             /\ timer' = [timer EXCEPT !.at = "setTerm", !.read = term]
      BY <1>4 DEF EnterCandidate
    <3>2. UNCHANGED <<term, votedFor, asked, ballots, raced>>
      BY <1>4 DEF EnterCandidate, member, history
    <3>3. timer' = TimerIdle => timer'.at = "idle"
      BY DEF TimerIdle
    <3>4. timer' = [timer EXCEPT !.at = "setTerm", !.read = term] =>
            timer'.at = "setTerm" /\ timer'.read = term
      BY <2>1 DEF Firing
    <3> QED BY <3>1, <3>2, <3>3, <3>4
  <2>6. replicating' \in BOOLEAN
    <3>1. replicating' = (replicating /\ role # "LEADER") \/ replicating' = replicating
      BY <1>4 DEF EnterCandidate
    <3> QED BY <3>1 DEF FieldsOK
  <2>3. FieldsOK'
    BY <2>2, <2>6, ClockKeeps DEF FieldsOK
  <2>4. Len(elections') = Len(elections)
    BY <2>2, SuspendCounts
  <2>5. BoundsOK'
    BY <1>0, <2>1, <2>2, <2>4 DEF BoundsOK, Ahead, Opening
  <2> QED BY <1>1, <2>3, <2>5
<1>5. CASE IncreaseTerm
  <2>1. /\ timer.at = "setTerm" /\ timer'.at = "setVote" /\ term' = timer.read + 1
        /\ UNCHANGED <<votedFor, clock, elections, replicating, asked, ballots, raced>>
    <3>1. timer \in Firing
      BY <1>5 DEF IncreaseTerm, Shape, Resting
    <3> QED BY <1>5, <3>1 DEF IncreaseTerm, votes, history, Firing
  <2>2. FieldsOK'
    BY <2>1 DEF FieldsOK
  <2>3. BoundsOK'
    BY <1>0, <2>1 DEF BoundsOK, Ahead, Opening
  <2> QED BY <1>1, <2>2, <2>3
<1>6. CASE VoteForSelf
  <2>1. /\ timer.at = "setVote" /\ timer'.at = "request" /\ votedFor' = Self
        /\ \E e : elections' = Append(elections, e)
        /\ clock' = Stop(clock, "CANDIDATE") \/ clock' = clock
        /\ UNCHANGED <<term, replicating, asked, ballots, raced>>
    <3>1. timer \in Firing
      BY <1>6 DEF VoteForSelf, Shape, Resting
    <3> QED BY <1>6, <3>1 DEF VoteForSelf, history, Firing
  <2>2. Len(elections') = Len(elections) + 1
    BY <2>1, AppendProperties DEF Shape
  <2>3. FieldsOK'
    BY <2>1, ClockKeeps DEF FieldsOK, Timed
  <2>4. asked \in Nat /\ asked <= Len(elections) * Cardinality(Other)
    BY <1>0, <2>1 DEF BoundsOK, Ahead
  <2>5. Ahead("request")' * Cardinality(Other) = Cardinality(Other)
    BY <1>0, <2>1 DEF Ahead
  <2>6. asked' + Ahead("request")' * Cardinality(Other) <= Len(elections') * Cardinality(Other)
    BY <1>0, <2>1, <2>2, <2>4, <2>5
  <2>7. BoundsOK'
    BY <1>0, <2>1, <2>2, <2>6 DEF BoundsOK, Ahead, Opening
  <2> QED BY <1>1, <2>3, <2>7
<1>7. CASE RequestVotes
  <2>1. /\ timer.at = "request" /\ timer'.at = "assign" /\ asked' = asked + Cardinality(Other)
        /\ ballots' = ballots \cup {[term |-> term, candidate |-> Self]}
        /\ UNCHANGED <<term, votedFor, clock, elections, replicating, raced>>
    <3>1. timer \in Firing
      BY <1>7 DEF RequestVotes, Shape, Resting
    <3> QED BY <1>7, <3>1 DEF RequestVotes, member, votes, Firing
  <2>2. FieldsOK'
    BY <1>0, <2>1 DEF FieldsOK
  <2>3. asked \in Nat /\ asked + Cardinality(Other) <= Len(elections) * Cardinality(Other)
    BY <1>0, <2>1 DEF BoundsOK, Ahead
  <2>4. BoundsOK'
    BY <1>0, <2>1, <2>3 DEF BoundsOK, Ahead, Opening
  <2> QED BY <1>1, <2>2, <2>4
<1>8. CASE AssignCandidate
  <2>1. /\ timer.at = "assign" /\ timer'.at = "idle"
        /\ UNCHANGED <<term, votedFor, clock, elections, replicating, asked, ballots, raced>>
    BY <1>8 DEF AssignCandidate, TimerIdle, member, votes, history
  <2>2. FieldsOK'
    BY <2>1 DEF FieldsOK
  <2>3. BoundsOK'
    BY <1>0, <2>1 DEF BoundsOK, Ahead, Opening
  <2> QED BY <1>1, <2>2, <2>3
<1> QED BY <1>2, <1>3, <1>4, <1>5, <1>6, <1>7, <1>8 DEF TimerStep

\* A handler goes on, ends, or ends the process.
LEMMA EventMoves ==
  ASSUME EventOK, event \in Handling, NEW step \in HandlerStep, NEW read \in Int,
         \/ GoOn(step) /\ read = event.read
         \/ event' = [event EXCEPT !.at = step, !.read = read],
         step \in {"answer", "check", "grant"} => event.kind = "VoteRequest",
         step \in {"check", "grant"} => read \in Term
  PROVE  /\ EventOK'
         /\ event'.at = step /\ event'.read = read /\ event'.kind = event.kind
         /\ event'.from = event.from /\ event'.term = event.term
<1>1. /\ event'.at = step /\ event'.read = read /\ event'.kind = event.kind
      /\ event'.from = event.from /\ event'.term = event.term
  BY DEF GoOn, Handling
<1>2. event.at \in HandlerStep
  BY DEF Handling
<1> QED BY <1>1, <1>2 DEF EventOK

LEMMA EventEnds ==
  ASSUME event'.at \in {"idle", "exited"} PROVE EventOK'
BY DEF EventOK, HandlerStep

LEMMA EventBounds ==
  ASSUME Shape, TypeInv, Len(elections') = Len(elections), UNCHANGED asked,
         term' = term \/ term' \in 1 .. MaxTerm,
         timer' = timer \/ (timer'.at = "exited" /\ term' \in 0 .. MaxTerm)
  PROVE  BoundsOK'
<1>1. /\ Len(elections) \in Nat /\ Cardinality(Other) \in Nat
      /\ MaxTerm \in Nat /\ MaxElections \in Nat
      /\ Len(elections) * Cardinality(Other) \in Nat
  BY TermBound, OthersCount, Products, BoundAssumption DEF TypeInv
<1>2. Ahead("request") * Cardinality(Other) \in Nat
  BY <1>1 DEF Ahead
<1>3. BoundsOK
  BY DEF TypeInv
<1>4. CASE timer' = timer
  BY <1>1, <1>3, <1>4 DEF BoundsOK, Ahead, Opening
<1>5. CASE timer'.at = "exited" /\ term' \in 0 .. MaxTerm
  <2>1. /\ Ahead("request")' * Cardinality(Other) = 0
        /\ Ahead("setVote")' = 0 /\ ~Opening'
    BY <1>1, <1>5 DEF Ahead, Opening
  <2>2. asked \in Nat /\ asked <= Len(elections) * Cardinality(Other)
    BY <1>1, <1>2, <1>3 DEF BoundsOK
  <2> QED BY <1>1, <1>3, <1>5, <2>1, <2>2 DEF BoundsOK
<1> QED BY <1>4, <1>5

LEMMA HandlerTypes ==
  ASSUME Shape, TypeInv, EventStep
  PROVE  TypeInv'
<1>0. /\ FieldsOK /\ EventOK /\ BoundsOK /\ term \in Term
      /\ \A step : GoOn(step) => event' = [event EXCEPT !.at = step]
  BY TermBound DEF TypeInv, GoOn
<1>1. event \in Handling /\ event.at \in HandlerStep /\ event.read \in Int
  <2>1. event.at \notin {"idle", "exited"}
    BY DEF EventStep, CompareTerm, AdoptTerm, ClearVote, FallBehind, AssignFollower,
       AnswerNewerTerm, HandleVoteRequest, CheckVote, Grant, HandleVoteResponse, Merge,
       BecomeMaster, Lead, AssignLeader, HandleAppendRequest, At
  <2> QED BY <2>1, InHandler DEF Handling
<1>2. term \in Int /\ \A t \in Term : t \in Int
  BY BoundAssumption DEF Shape, Term
<1>3. Done \/ Abort => EventOK'
  BY EventEnds, DoneRests
<1>4. event.term \in 1 .. MaxTerm /\ (event.kind = "VoteRequest" <=> event.from # NoServer)
  BY <1>0, <1>1 DEF EventOK
<1>5. ASSUME CompareTerm \/ HandleVoteRequest \/ AnswerNewerTerm \/ CheckVote \/ BecomeMaster
      PROVE  TypeInv'
  <2>1. UNCHANGED <<term, votedFor, clock, elections, replicating, timer, asked, ballots, raced>>
    BY <1>5 DEF CompareTerm, HandleVoteRequest, AnswerNewerTerm, CheckVote, BecomeMaster,
       member, votes, history
  <2>2. FieldsOK' /\ BoundsOK'
    BY <2>1, EventBounds DEF TypeInv, FieldsOK
  <2>3. CASE CompareTerm
    <3>1. Done \/ GoOn("adopt") \/ GoOn("handle")
      BY <2>3 DEF CompareTerm
    <3> QED BY <1>0, <1>1, <1>3, <2>2, <3>1, EventMoves DEF TypeInv, HandlerStep
  <2>4. CASE HandleVoteRequest
    <3>1. Done \/ event' = [event EXCEPT !.at = "check", !.read = term]
      BY <2>4 DEF HandleVoteRequest
    <3>2. event.kind = "VoteRequest"
      BY <2>4 DEF HandleVoteRequest
    <3> QED BY <1>0, <1>1, <1>2, <1>3, <2>2, <3>1, <3>2, EventMoves DEF TypeInv, HandlerStep
  <2>5. CASE AnswerNewerTerm
    <3>1. event.kind = "VoteRequest" /\ event' = [event EXCEPT !.at = "grant", !.read = term]
      BY <1>0, <1>1, <2>5 DEF AnswerNewerTerm, EventOK, At
    <3> QED BY <1>0, <1>1, <1>2, <2>2, <3>1, EventMoves DEF TypeInv, HandlerStep
  <2>6. CASE CheckVote
    <3>1. event.kind = "VoteRequest" /\ event.read \in Term /\ (Done \/ GoOn("grant"))
      BY <1>0, <1>1, <2>6 DEF CheckVote, EventOK, At
    <3> QED BY <1>0, <1>1, <1>3, <2>2, <3>1, EventMoves DEF TypeInv, HandlerStep
  <2>7. CASE BecomeMaster
    <3>1. Abort \/ GoOn("lead")
      BY <2>7 DEF BecomeMaster
    <3> QED BY <1>0, <1>1, <1>3, <2>2, <3>1, EventMoves DEF TypeInv, HandlerStep
  <2> QED BY <1>5, <2>3, <2>4, <2>5, <2>6, <2>7
<1>6. CASE AdoptTerm
  <2>1. /\ GoOn("clear") /\ term' = event.term
        /\ UNCHANGED <<votedFor, clock, elections, replicating, timer, asked, ballots, raced>>
    BY <1>6 DEF AdoptTerm, votes, history
  <2>2. FieldsOK' /\ BoundsOK'
    BY <1>4, <2>1, EventBounds DEF TypeInv, FieldsOK
  <2> QED BY <1>0, <1>1, <2>1, <2>2, EventMoves DEF TypeInv, HandlerStep
<1>7. CASE ClearVote
  <2>1. /\ GoOn("fallBehind") /\ votedFor' = NoServer
        /\ UNCHANGED <<term, clock, elections, replicating, timer, asked, ballots, raced>>
    BY <1>7 DEF ClearVote, votes, history
  <2>2. FieldsOK' /\ BoundsOK'
    BY <2>1, EventBounds DEF TypeInv, FieldsOK
  <2> QED BY <1>0, <1>1, <2>1, <2>2, EventMoves DEF TypeInv, HandlerStep
<1>8. CASE FallBehind \/ Lead
  <2>1. /\ UNCHANGED <<term, votedFor, timer, asked, ballots, raced>>
        /\ \/ NothingToCancel /\ FailToSuspend /\ Abort
           \/ /\ ~NothingToCancel /\ \E woken : Suspend(woken)
              /\ GoOn("assignFollower") \/ GoOn("assignLeader")
    BY <1>8 DEF FallBehind, Lead, member, history
  <2>2. replicating' \in BOOLEAN
    <3>1. \/ replicating' = (replicating /\ role # "LEADER") \/ replicating' = replicating
          \/ replicating' = TRUE
      BY <1>8 DEF FallBehind, Lead
    <3> QED BY <1>0, <3>1 DEF FieldsOK
  <2>3. FieldsOK'
    BY <1>0, <2>1, <2>2, ClockKeeps DEF FieldsOK
  <2>4. Len(elections') = Len(elections)
    BY <2>1, SuspendCounts
  <2>5. BoundsOK'
    BY <2>1, <2>4, EventBounds
  <2> QED BY <1>0, <1>1, <1>3, <2>1, <2>3, <2>5, EventMoves DEF TypeInv, HandlerStep
<1>9. CASE AssignFollower
  <2>1. /\ Done \/ GoOn("handle") \/ (GoOn("answer") /\ event.kind = "VoteRequest")
        /\ UNCHANGED <<term, votedFor, clock, elections, replicating, timer, asked, ballots,
                       raced>>
    BY <1>9 DEF AssignFollower, member, votes, history
  <2>2. FieldsOK' /\ BoundsOK'
    BY <2>1, EventBounds DEF TypeInv, FieldsOK
  <2> QED BY <1>0, <1>1, <1>3, <2>1, <2>2, EventMoves DEF TypeInv, HandlerStep
<1>10. CASE Grant
  <2>1. /\ Done /\ votedFor' = event.from
        /\ ballots' = ballots \cup {[term |-> event.read, candidate |-> event.from]}
        /\ UNCHANGED <<term, clock, elections, replicating, timer, asked, raced>>
    BY <1>10 DEF Grant, votes
  <2>2. event.from \in Other /\ event.read \in Term
    <3>1. event.kind = "VoteRequest" /\ event.read \in Term
      BY <1>0, <1>1, <1>10 DEF Grant, EventOK, At
    <3> QED BY <1>1, <1>4, <3>1 DEF Handling
  <2>3. FieldsOK'
    BY <1>0, <2>1, <2>2 DEF FieldsOK
  <2>4. BoundsOK'
    BY <2>1, EventBounds
  <2> QED BY <1>3, <2>1, <2>3, <2>4 DEF TypeInv
<1>11. CASE HandleVoteResponse
  <2>1. /\ Done \/ event' = [event EXCEPT !.at = "merge", !.read = quorum]
        /\ UNCHANGED <<term, votedFor, clock, elections, replicating, timer, asked, ballots,
                       raced>>
    BY <1>11 DEF HandleVoteResponse, member, votes, history
  <2>2. FieldsOK' /\ BoundsOK'
    BY <2>1, EventBounds DEF TypeInv, FieldsOK
  <2>3. quorum \in Int
    BY DEF Shape
  <2> QED BY <1>0, <1>1, <1>3, <2>1, <2>2, <2>3, EventMoves DEF TypeInv, HandlerStep
<1>12. CASE Merge
  <2>1. /\ Done \/ GoOn("elected")
        /\ \E e : elections' = [elections EXCEPT ![event.read] = e]
        /\ UNCHANGED <<term, votedFor, clock, replicating, timer, asked, ballots, raced>>
    BY <1>12 DEF Merge, member, history
  <2>2. Len(elections') = Len(elections)
    <3>1. elections \in Seq(Election)
      BY DEF Shape
    <3> QED BY <2>1, <3>1
  <2>3. FieldsOK' /\ BoundsOK'
    BY <2>1, <2>2, EventBounds DEF TypeInv, FieldsOK
  <2> QED BY <1>0, <1>1, <1>3, <2>1, <2>3, EventMoves DEF TypeInv, HandlerStep
<1>13. CASE AssignLeader
  <2>1. /\ Done
        /\ UNCHANGED <<term, votedFor, clock, elections, replicating, timer, asked, ballots,
                       raced>>
    BY <1>13 DEF AssignLeader, member, votes, history
  <2>2. FieldsOK' /\ BoundsOK'
    BY <2>1, EventBounds DEF TypeInv, FieldsOK
  <2> QED BY <1>3, <2>1, <2>2 DEF TypeInv
<1>14. CASE HandleAppendRequest
  <2>1. UNCHANGED <<term, votedFor, elections, replicating, asked, ballots, raced>>
    BY <1>14 DEF HandleAppendRequest, member, votes, history
  <2>2. \/ Done /\ UNCHANGED <<clock, timer>>
        \/ event.term >= term /\ ExitOnAppend
        \/ ResetTimer
    BY <1>2, <1>4, <1>14 DEF HandleAppendRequest
  <2>3. clock' \in [Timed -> {"off", "armed", "spent"}]
    <3>1. clock' = clock \/ \E r \in Timed : clock' = [clock EXCEPT ![r] = "armed"]
      BY <2>2 DEF ExitOnAppend, ResetTimer, Timed
    <3> QED BY <1>0, <3>1, ClockKeeps
  <2>4. FieldsOK'
    BY <1>0, <2>1, <2>3 DEF FieldsOK
  <2>5. BoundsOK'
    <3>1. timer' = timer \/ (timer'.at = "exited" /\ term' \in 0 .. MaxTerm)
      <4>1. term >= 0
        BY <1>0, BoundAssumption DEF Term
      <4> QED BY <1>2, <1>4, <2>1, <2>2, <4>1, BoundAssumption DEF ExitOnAppend, ResetTimer
    <3> QED BY <2>1, <3>1, EventBounds
  <2>6. EventOK'
    <3>1. Done \/ Abort \/ event'.at = "exited"
      BY <2>2 DEF ExitOnAppend, ResetTimer
    <3> QED BY <1>3, <3>1, EventEnds
  <2> QED BY <2>4, <2>5, <2>6 DEF TypeInv
<1> QED BY <1>5, <1>6, <1>7, <1>8, <1>9, <1>10, <1>11, <1>12, <1>13, <1>14 DEF EventStep

LEMMA TypeStep == Shape /\ TypeInv /\ [Next]_vars => TypeInv'
<1> SUFFICES ASSUME Shape, TypeInv, [Next]_vars PROVE TypeInv'
  OBVIOUS
<1>0. FieldsOK /\ EventOK /\ BoundsOK
  BY DEF TypeInv
<1>1. ASSUME NEW kind \in Kind, NEW t \in 1 .. MaxTerm, NEW from \in Other \cup {NoServer},
             NEW ok \in BOOLEAN, Pick(kind, t, from, ok)
      PROVE  TypeInv'
  <2>1. /\ UNCHANGED <<term, votedFor, clock, elections, replicating, timer, ballots>>
        /\ asked' = asked \/ (asked > 0 /\ asked' = asked - 1)
        /\ raced' = (raced \/ timer.at # "idle")
        /\ kind = "VoteRequest" <=> from # NoServer
        /\ event' = [at |-> "compare", kind |-> kind, term |-> t, from |-> from,
                     ok |-> ok, as |-> role, read |-> 0]
    BY <1>1 DEF Pick, member, votes
  <2>2. FieldsOK'
    BY <1>0, <2>1 DEF FieldsOK
  <2>3. EventOK'
    BY <2>1 DEF EventOK
  <2>4. BoundsOK'
    <3>1. Len(elections) * Cardinality(Other) \in Nat
          /\ Ahead("request") * Cardinality(Other) \in Nat
      BY OthersCount, Products DEF Shape, Ahead
    <3> QED BY <1>0, <2>1, <3>1 DEF BoundsOK, Ahead, Opening
  <2> QED BY <2>2, <2>3, <2>4 DEF TypeInv
<1>2. CASE FailVote
  <2>1. /\ UNCHANGED <<term, votedFor, clock, replicating, timer, event, ballots, raced>>
        /\ asked > 0 /\ asked' = asked - 1
        /\ Len(elections') = Len(elections)
    <3>1. elections \in Seq(Election)
      BY DEF Shape
    <3> QED BY <1>2, <3>1 DEF FailVote, member, history
  <2>2. FieldsOK' /\ EventOK'
    BY <1>0, <2>1 DEF FieldsOK, EventOK
  <2>3. BoundsOK'
    <3>1. Len(elections) * Cardinality(Other) \in Nat
          /\ Ahead("request") * Cardinality(Other) \in Nat
      BY OthersCount, Products DEF Shape, Ahead
    <3> QED BY <1>0, <2>1, <3>1 DEF BoundsOK, Ahead, Opening
  <2> QED BY <2>2, <2>3 DEF TypeInv
<1>3. CASE UNCHANGED vars
  BY <1>0, <1>3 DEF vars, member, votes, history, TypeInv, FieldsOK, EventOK, BoundsOK, Ahead,
     Opening
<1> QED BY <1>1, <1>2, <1>3, TimerTypes, HandlerTypes DEF Next

LEMMA ShapedSafety == Spec => [](ElectedInv /\ TypeInv)
<1>1. ElectedInv /\ TypeInv /\ [Next]_vars => (ElectedInv /\ TypeInv)'
  BY ElectedStep, TypeStep DEF ElectedInv
<1> QED BY <1>1, ElectedInit, TypeInit, PTL DEF Spec

\* Every variable holds what the field can hold.  The term, the number of
\* elections and of awaited answers stay within the bounds of the run in
\* every interleaving.
THEOREM Typing == Spec => []TypeOK
<1>1. ElectedInv /\ TypeInv => TypeOK
  <2> SUFFICES ASSUME Shape, TypeInv PROVE TypeOK
    BY DEF ElectedInv
  <2>0. elections \in Seq(Election) /\ quorum \in 0 .. Len(elections)
    BY DEF Shape
  <2>1. DOMAIN elections = 1 .. Len(elections) /\ quorum \in {0} \cup DOMAIN elections
    BY <2>0
  <2>3. \A id \in DOMAIN elections :
          elections[id].outcome \in {"open", "won", "lost", "cancelled"}
    <3>1. \A id \in 1 .. Len(elections) : elections[id] \in Election
      BY <2>0
    <3> QED BY <2>1, <3>1 DEF Election
  <2>2. role \in Timed \cup {"LEADER"}
    BY DEF Shape, Role
  <2> QED BY <2>1, <2>2, <2>3, TermBound DEF TypeOK, TypeInv, FieldsOK
<1> QED BY <1>1, ShapedSafety, PTL
-----------------------------------------------------------------------------
(* One thread at a time: the server is all of one role.                     *)

\* As long as no timeout has overlapped a handler, a thread works alone.
InTurn == event.at \in {"idle", "exited"} \/ timer.at = "idle"

Running(r) == clock[r] # "off"

\* A role with everything that runs for it.
Whole(r) ==
  /\ \A x \in Timed : Running(x) <=> x = r
  /\ quorum # 0 <=> r = "CANDIDATE"
  /\ replicating <=> r = "LEADER"

\* A candidate that is waking up, before and after it has its VoteQuorum.
Waking ==
  /\ role \in Timed /\ \A x \in Timed : Running(x) <=> x = "CANDIDATE"
  /\ quorum # 0 <=> timer.at = "request"
  /\ ~replicating

RolesOK ==
  /\ InTurn
  /\ IF timer.at \in {"setTerm", "setVote", "request"} THEN Waking ELSE Whole(role)
  /\ timer.at = "entering" => role \in Timed
  /\ timer.at = "assign" => role = "CANDIDATE"
  /\ event.at = "lead" => role = "CANDIDATE"
  /\ event.at = "assignLeader" => role = "LEADER"
  /\ event.at = "assignFollower" => role = "FOLLOWER"

RolesInv == ~raced => RolesOK

\* Once they have overlapped it stays so.
LEMMA RacedStays == [Next]_vars /\ raced => raced'
  BY DEF Next, vars, history, Fire, TimerStep, CallRole, EnterCandidate, IncreaseTerm,
     VoteForSelf, RequestVotes, AssignCandidate, Pick, EventStep, CompareTerm, AdoptTerm,
     ClearVote, FallBehind, AssignFollower, AnswerNewerTerm, HandleVoteRequest, CheckVote, Grant,
     HandleVoteResponse, Merge, BecomeMaster, Lead, AssignLeader, HandleAppendRequest, FailVote

\* Suspending a role that is whole leaves the timer of the role that wakes.
LEMMA SuspendHands ==
  ASSUME Shape, FieldsOK, Whole(role), NEW woken \in Role, Suspend(woken)
  PROVE  (\A x \in Timed : Running(x)' <=> x = woken) /\ quorum' = 0
<1>1. clock \in [Timed -> {"off", "armed", "spent"}] /\ role \in Role
  BY DEF FieldsOK, Shape
<1>2. quorum' = 0
  BY DEF Suspend, votes, Whole
<1>3. ASSUME NEW x \in Timed PROVE Running(x)' <=> x = woken
  <2> DEFINE stopped == IF role \in Timed THEN Stop(clock, role) ELSE clock
  <2>1. stopped \in [Timed -> {"off", "armed", "spent"}] /\ stopped[x] = "off"
    BY <1>1 DEF Stop, Whole, Running
  <2>2. clock' = IF woken \in Timed THEN Start(stopped, woken) ELSE stopped
    BY DEF Suspend
  <2> HIDE DEF stopped
  <2>3. CASE x = woken
    BY <2>1, <2>2, <2>3 DEF Start, Running
  <2>4. CASE x # woken
    BY <2>1, <2>2, <2>4 DEF Start, Running
  <2> QED BY <2>3, <2>4
<1> QED BY <1>2, <1>3

LEMMA RolesTimer ==
  ASSUME Cardinality(Other) >= 2, Shape, FieldsOK, RolesOK, ~raced',
         TimerStep \/ \E r \in Timed : Fire(r)
  PROVE  RolesOK'
<1>1. event' = event
  BY TimerKeeps
<1> USE DEF TimerAt
<1>2. ASSUME NEW r \in Timed, Fire(r) PROVE RolesOK'
  <2>1. /\ timer.at = "idle" /\ event.at = "idle" /\ timer'.at = "fired"
        /\ clock[r] = "armed" /\ clock' = [clock EXCEPT ![r] = "spent"]
        /\ UNCHANGED <<role, quorum, replicating>>
    BY <1>2 DEF Fire, votes
  <2>2. \A x \in Timed : Running(x)' <=> Running(x)
    BY <2>1 DEF FieldsOK, Running
  <2> QED BY <1>1, <2>1, <2>2 DEF RolesOK, InTurn, Whole
<1>3. CASE CallRole
  <2>1. /\ timer.at = "fired" /\ UNCHANGED <<role, clock, quorum, replicating>>
        /\ (timer'.at = "entering" /\ role \in Timed) \/ timer'.at = "idle"
    <3>1. timer \in Firing
      BY <1>3 DEF CallRole, Shape, Resting
    <3> QED BY <1>3, <3>1 DEF CallRole, TimerIdle, votes, Firing
  <2> QED BY <1>1, <2>1 DEF RolesOK, InTurn, Whole, Running
<1>4. CASE EnterCandidate
  <2>1. timer.at = "entering" /\ timer \in Firing /\ role \in Timed /\ Whole(role)
    BY <1>4 DEF EnterCandidate, Shape, Resting, RolesOK
  <2>2. ~NothingToCancel
    BY <2>1 DEF NothingToCancel, Whole
  <2>3. /\ Suspend("CANDIDATE") /\ replicating' = (replicating /\ role # "LEADER")
        /\ timer' = [timer EXCEPT !.at = "setTerm", !.read = term] /\ role' = role
    BY <1>4, <2>2 DEF EnterCandidate
  <2>4. timer'.at = "setTerm"
    BY <2>1, <2>3 DEF Firing
  <2>5. (\A x \in Timed : Running(x)' <=> x = "CANDIDATE") /\ quorum' = 0
    BY <2>1, <2>3, SuspendHands DEF Role, Timed
  <2>6. ~replicating'
    BY <2>1, <2>3 DEF Whole, Timed
  <2> QED BY <1>1, <2>1, <2>3, <2>4, <2>5, <2>6 DEF RolesOK, InTurn, Waking
<1>5. CASE IncreaseTerm
  <2>1. timer.at = "setTerm" /\ timer'.at = "setVote"
        /\ UNCHANGED <<role, clock, quorum, replicating>>
    <3>1. timer \in Firing
      BY <1>5 DEF IncreaseTerm, Shape, Resting
    <3> QED BY <1>5, <3>1 DEF IncreaseTerm, votes, Firing
  <2> QED BY <1>1, <2>1 DEF RolesOK, InTurn, Waking, Running
<1>6. CASE VoteForSelf
  <2>1. Quorum # 1
    <3>1. Cardinality(Other) \in Nat
      BY OthersCount
    <3> QED BY <3>1 DEF Quorum
  <2>2. /\ timer.at = "setVote" /\ timer'.at = "request" /\ quorum' # 0
        /\ UNCHANGED <<role, clock, replicating>>
    <3>1. timer \in Firing /\ Len(elections) \in Nat
      BY <1>6 DEF VoteForSelf, Shape, Resting
    <3> QED BY <1>6, <2>1, <3>1 DEF VoteForSelf, Firing
  <2> QED BY <1>1, <2>2 DEF RolesOK, InTurn, Waking, Running
<1>7. CASE RequestVotes
  <2>1. /\ timer.at = "request" /\ timer'.at = "assign" /\ role' = "CANDIDATE"
        /\ UNCHANGED <<clock, quorum, replicating>>
    <3>1. timer \in Firing
      BY <1>7 DEF RequestVotes, Shape, Resting
    <3> QED BY <1>7, <3>1 DEF RequestVotes, votes, Firing
  <2> QED BY <1>1, <2>1 DEF RolesOK, InTurn, Waking, Whole, Running
<1>8. CASE AssignCandidate
  <2>1. /\ timer.at = "assign" /\ timer'.at = "idle" /\ role' = "CANDIDATE"
        /\ UNCHANGED <<clock, quorum, replicating>>
    BY <1>8 DEF AssignCandidate, TimerIdle, votes
  <2> QED BY <1>1, <2>1 DEF RolesOK, InTurn, Whole, Running
<1> QED BY <1>2, <1>3, <1>4, <1>5, <1>6, <1>7, <1>8 DEF TimerStep

\* A handler that runs finds the timer thread idle.
LEMMA HandlerAlone ==
  ASSUME InTurn, EventStep
  PROVE  timer.at = "idle" /\ event.at \notin {"idle", "exited"}
  BY DEF InTurn, At, EventStep, CompareTerm, AdoptTerm, ClearVote, FallBehind, AssignFollower,
     AnswerNewerTerm, HandleVoteRequest, CheckVote, Grant, HandleVoteResponse, Merge,
     BecomeMaster, Lead, AssignLeader, HandleAppendRequest

\* The two changes of role of the event thread.
LEMMA RolesChange ==
  ASSUME Shape, FieldsOK, RolesOK, FallBehind \/ Lead
  PROVE  RolesOK'
<1>1. timer.at = "idle" /\ event \in Handling /\ Whole(role) /\ timer' = timer
  BY HandlerAlone, InHandler DEF RolesOK, EventStep, FallBehind, Lead
<1>2. ~NothingToCancel
  BY <1>1 DEF NothingToCancel, Whole
<1>3. CASE FallBehind
  <2>1. /\ Suspend("FOLLOWER") /\ role' = "FOLLOWER" /\ GoOn("assignFollower")
        /\ replicating' = (replicating /\ role # "LEADER")
    BY <1>2, <1>3 DEF FallBehind
  <2>2. event'.at = "assignFollower" /\ ~replicating'
    BY <1>1, <2>1, GoOnMoves DEF HandlerStep, Whole
  <2>3. (\A x \in Timed : Running(x)' <=> x = "FOLLOWER") /\ quorum' = 0
    BY <1>1, <2>1, SuspendHands DEF Role, Timed
  <2> QED BY <1>1, <2>1, <2>2, <2>3 DEF RolesOK, InTurn, Whole
<1>4. CASE Lead
  <2>1. Suspend("LEADER") /\ role' = "LEADER" /\ GoOn("assignLeader") /\ replicating'
    BY <1>2, <1>4 DEF Lead
  <2>2. event'.at = "assignLeader"
    BY <1>1, <2>1, GoOnMoves DEF HandlerStep
  <2>3. (\A x \in Timed : Running(x)' <=> x = "LEADER") /\ quorum' = 0
    BY <1>1, <2>1, SuspendHands DEF Role
  <2> QED BY <1>1, <2>1, <2>2, <2>3 DEF RolesOK, InTurn, Whole
<1> QED BY <1>3, <1>4

LEMMA RolesEvent ==
  ASSUME Shape, FieldsOK, RolesOK, EventStep
  PROVE  RolesOK'
<1>1. timer.at = "idle" /\ event \in Handling /\ Whole(role)
  BY HandlerAlone, InHandler DEF RolesOK
<1>2. CASE FallBehind \/ Lead
  BY <1>2, RolesChange
<1>3. CASE \/ CompareTerm \/ AdoptTerm \/ ClearVote \/ AnswerNewerTerm
           \/ HandleVoteRequest \/ CheckVote \/ Grant \/ HandleVoteResponse \/ Merge
  <2>1. UNCHANGED <<timer, role, clock, quorum, replicating>>
    BY <1>3 DEF CompareTerm, AdoptTerm, ClearVote, AnswerNewerTerm, HandleVoteRequest, CheckVote,
       Grant, HandleVoteResponse, Merge, votes
  <2>2. event'.at \notin {"lead", "assignLeader", "assignFollower"}
    <3> DEFINE Quiet == HandlerStep \ {"lead", "assignLeader", "assignFollower"}
               Moved == \/ Done
                        \/ \E step \in Quiet : GoOn(step)
                        \/ \E step \in Quiet, read \in Int :
                             event' = [event EXCEPT !.at = step, !.read = read]
    <3>1. ASSUME CompareTerm \/ AdoptTerm \/ ClearVote \/ CheckVote \/ Grant \/ Merge
          PROVE  Moved
      BY <3>1 DEF CompareTerm, AdoptTerm, ClearVote, CheckVote, Grant, Merge, HandlerStep
    <3>2. ASSUME AnswerNewerTerm \/ HandleVoteRequest \/ HandleVoteResponse
          PROVE  Moved
      <4>1. term \in Int /\ quorum \in Int
        BY DEF Shape
      <4> QED BY <3>2, <4>1 DEF AnswerNewerTerm, HandleVoteRequest, HandleVoteResponse, HandlerStep
    <3>3. Moved
      BY <1>3, <3>1, <3>2
    <3>4. CASE Done
      BY <3>4, DoneRests
    <3>5. ASSUME NEW step \in Quiet, GoOn(step) PROVE event'.at = step
      BY <1>1, <3>5, GoOnMoves
    <3>6. ASSUME NEW step \in Quiet, NEW read \in Int,
                 event' = [event EXCEPT !.at = step, !.read = read]
          PROVE  event'.at = step
      BY <1>1, <3>6, ReadMoves
    <3> QED BY <3>3, <3>4, <3>5, <3>6
  <2> QED BY <1>1, <2>1, <2>2 DEF RolesOK, InTurn, Whole, Running
<1>4. CASE AssignFollower
  <2>1. event.at = "assignFollower" /\ role' = "FOLLOWER"
        /\ UNCHANGED <<timer, clock, quorum, replicating>>
    BY <1>4 DEF AssignFollower, At, votes
  <2>2. event'.at \in {"answer", "handle", "idle"}
    BY <1>1, <1>4, DoneRests, GoOnMoves DEF AssignFollower, HandlerStep
  <2> QED BY <1>1, <2>1, <2>2 DEF RolesOK, InTurn, Whole, Running
<1>5. CASE BecomeMaster
  <2>1. UNCHANGED <<timer, role, clock, quorum, replicating>>
    BY <1>5 DEF BecomeMaster, votes
  <2>2. event'.at = "idle" \/ (event'.at = "lead" /\ role = "CANDIDATE")
    BY <1>1, <1>5, DoneRests, GoOnMoves DEF BecomeMaster, HandlerStep
  <2> QED BY <1>1, <2>1, <2>2 DEF RolesOK, InTurn, Whole, Running
<1>6. CASE AssignLeader
  <2>1. /\ event.at = "assignLeader" /\ event'.at = "idle" /\ role' = "LEADER"
        /\ UNCHANGED <<timer, clock, quorum, replicating>>
    BY <1>6, DoneRests DEF AssignLeader, At, votes
  <2> QED BY <1>1, <2>1 DEF RolesOK, InTurn, Whole, Running
<1>7. CASE HandleAppendRequest
  <2>1. UNCHANGED <<role, quorum, replicating>> /\ event'.at \in {"idle", "exited"}
        /\ timer'.at \in {"idle", "exited"}
    BY <1>1, <1>7, DoneRests DEF HandleAppendRequest, ExitOnAppend, ResetTimer, votes
  <2>2. \A x \in Timed : Running(x)' <=> Running(x)
    BY <1>7 DEF HandleAppendRequest, ExitOnAppend, ResetTimer, FieldsOK, Running
  <2> QED BY <1>1, <2>1, <2>2 DEF RolesOK, InTurn, Whole
<1> QED BY <1>2, <1>3, <1>4, <1>5, <1>6, <1>7 DEF EventStep

LEMMA RolesStep ==
  ASSUME Cardinality(Other) >= 2
  PROVE  Shape /\ TypeInv /\ RolesInv /\ [Next]_vars => RolesInv'
<1> SUFFICES ASSUME Shape, TypeInv, RolesInv, [Next]_vars, ~raced' PROVE RolesOK'
  BY DEF RolesInv
<1>1. ~raced
  BY RacedStays
<1>2. RolesOK /\ FieldsOK
  BY <1>1 DEF RolesInv, TypeInv
<1>3. ASSUME NEW kind \in Kind, NEW t \in 1 .. MaxTerm, NEW from \in Other \cup {NoServer},
             NEW ok \in BOOLEAN, Pick(kind, t, from, ok)
      PROVE  RolesOK'
  <2>1. event'.at = "compare" /\ timer.at = "idle"
        /\ UNCHANGED <<timer, role, clock, quorum, replicating>>
    BY <1>3 DEF Pick, votes
  <2> QED BY <1>2, <2>1 DEF RolesOK, InTurn, Whole, Running
<1>4. CASE FailVote \/ UNCHANGED vars
  <2>1. UNCHANGED <<event, timer, role, clock, quorum, replicating>>
    BY <1>4 DEF FailVote, vars, votes
  <2> QED BY <1>2, <2>1 DEF RolesOK, InTurn, Whole, Waking, Running
<1> QED BY <1>2, <1>3, <1>4, RolesTimer, RolesEvent DEF Next

\* suspect and wakeup come in pairs: as long as no timeout overlaps a handler,
\* a server at rest runs the timer, the VoteQuorum and the replicators of its
\* role and no others.  In a cluster of one or two the candidate stops its own
\* timer within wakeup: there have to be two other members.
THEOREM RolesSafety ==
  ASSUME Cardinality(Other) >= 2
  PROVE  Spec => []RolesInStep
<1>1. Init => RolesInv
  <2> SUFFICES ASSUME Init PROVE RolesOK
    BY DEF RolesInv
  <2> QED BY DEF Init, EventIdle, TimerIdle, RolesOK, InTurn, Whole, Running, Timed
<1>2. RolesInv => RolesInStep
  BY DEF RolesInv, RolesOK, RolesInStep, AtRest, Whole, Running
<1>3. ElectedInv /\ TypeInv /\ RolesInv /\ [Next]_vars => RolesInv'
  BY RolesStep DEF ElectedInv
<1> QED BY <1>1, <1>2, <1>3, ShapedSafety, PTL DEF Spec
-----------------------------------------------------------------------------
(* One thread at a time: a term gets one vote.                              *)

\* The term has moved on, and the vote of the old one is not cleared yet or
\* that of the new one not in the requests.
NewTerm == event.at = "clear" \/ timer.at \in {"setVote", "request"}

\* What the event thread has decided about a vote still holds.
DecisionOK ==
  /\ event.at = "adopt" => term < event.term
  /\ event.at \in {"fallBehind", "assignFollower", "answer"} => votedFor = NoServer
  /\ event.at \in {"check", "grant"} => event.read = term
  /\ event.at = "grant" => votedFor \in {NoServer, event.from}

\* The ballots lie behind the term, or tell whose vote this is.
BallotsOK ==
  /\ \A b, c \in ballots : b.term = c.term => b.candidate = c.candidate
  /\ \A b \in ballots : \/ b.term < term
                        \/ ~NewTerm /\ b.term = term /\ b.candidate = votedFor
  /\ votedFor # NoServer /\ ~NewTerm => [term |-> term, candidate |-> votedFor] \in ballots

VotesOK ==
  /\ InTurn /\ DecisionOK /\ BallotsOK
  /\ timer.at = "setTerm" => timer.read = term
  /\ timer.at = "request" => votedFor = Self

VotesInv == ~raced => VotesOK

\* A ballot has a term and a candidate.
LEMMA BallotTypes ==
  ASSUME FieldsOK, NEW b \in ballots
  PROVE  b.term \in Int /\ b.candidate \in Other \cup {Self} /\ b.candidate # NoServer
  BY MemberAssumption, BoundAssumption DEF FieldsOK, Term

\* Steps that touch neither the term nor a vote.
LEMMA VotesRest ==
  ASSUME BallotsOK, NewTerm' = NewTerm, UNCHANGED <<term, votedFor, ballots>>
  PROVE  BallotsOK'
  BY DEF BallotsOK

\* A newer term has no ballots yet.
LEMMA TermMoves ==
  ASSUME Shape, FieldsOK, BallotsOK, term' \in Int, term < term', ballots' = ballots, NewTerm'
  PROVE  BallotsOK'
  BY BallotTypes DEF BallotsOK, Shape

\* The first vote of a term, or the same vote once more.
LEMMA VoteCounts ==
  ASSUME Shape, FieldsOK, BallotsOK, ~NewTerm', term' = term, NEW m \in Other \cup {Self},
         votedFor' = m, ballots' = ballots \cup {[term |-> term, candidate |-> m]},
         NewTerm \/ votedFor \in {NoServer, m}
  PROVE  BallotsOK'
<1>1. \A b \in ballots : b.term \in Int /\ (b.term < term \/ (b.term = term /\ b.candidate = m))
  BY BallotTypes DEF BallotsOK
<1>2. \A b \in ballots' : b.term < term \/ (b.term = term /\ b.candidate = m)
  BY <1>1
<1>3. \A b, c \in ballots' : b.term = c.term => b.candidate = c.candidate
  BY <1>1, <1>2 DEF BallotsOK, Shape
<1> QED BY <1>2, <1>3 DEF BallotsOK

LEMMA VotesTimer ==
  ASSUME Shape, FieldsOK, VotesOK, ~raced', TimerStep \/ \E r \in Timed : Fire(r)
  PROVE  VotesOK'
<1>1. event' = event
  BY TimerKeeps
<1> USE DEF TimerAt
<1>2. ASSUME NEW r \in Timed, Fire(r) PROVE VotesOK'
  <2>1. /\ timer.at = "idle" /\ event.at = "idle" /\ timer'.at = "fired"
        /\ UNCHANGED <<term, votedFor, ballots>>
    BY <1>2 DEF Fire, member
  <2> QED BY <1>1, <2>1, VotesRest DEF VotesOK, InTurn, DecisionOK, NewTerm
<1>3. CASE CallRole
  <2>1. /\ timer.at = "fired" /\ UNCHANGED <<term, votedFor, ballots>>
        /\ timer'.at \in {"entering", "idle"}
    <3>1. timer \in Firing
      BY <1>3 DEF CallRole, Shape, Resting
    <3> QED BY <1>3, <3>1 DEF CallRole, TimerIdle, member, history, Firing
  <2> QED BY <1>1, <2>1, VotesRest DEF VotesOK, InTurn, DecisionOK, NewTerm
<1>4. CASE EnterCandidate
  <2>1. timer.at = "entering" /\ timer \in Firing
    BY <1>4 DEF EnterCandidate, Shape, Resting
  <2>2. \/ timer' = TimerIdle
        \/ timer' = [timer EXCEPT !.at = "setTerm", !.read = term]
    BY <1>4 DEF EnterCandidate
  <2>3. timer'.at = "idle" \/ (timer'.at = "setTerm" /\ timer'.read = term)
    <3>1. timer' = TimerIdle => timer'.at = "idle"
      BY DEF TimerIdle
    <3>2. timer' = [timer EXCEPT !.at = "setTerm", !.read = term] =>
            timer'.at = "setTerm" /\ timer'.read = term
      BY <2>1 DEF Firing
    <3> QED BY <2>2, <3>1, <3>2
  <2>4. UNCHANGED <<term, votedFor, ballots>>
    BY <1>4 DEF EnterCandidate, member, history
  <2> QED BY <1>1, <2>1, <2>3, <2>4, VotesRest DEF VotesOK, InTurn, DecisionOK, NewTerm
<1>5. CASE IncreaseTerm
  <2>1. /\ timer.at = "setTerm" /\ timer'.at = "setVote" /\ term' = timer.read + 1
        /\ UNCHANGED <<votedFor, ballots>>
    <3>1. timer \in Firing
      BY <1>5 DEF IncreaseTerm, Shape, Resting
    <3> QED BY <1>5, <3>1 DEF IncreaseTerm, history, Firing
  <2>2. term' \in Int /\ term < term'
    BY <2>1 DEF VotesOK, Shape
  <2>3. BallotsOK'
    BY <2>1, <2>2, TermMoves DEF VotesOK, NewTerm
  <2> QED BY <1>1, <2>1, <2>3 DEF VotesOK, InTurn, DecisionOK
<1>6. CASE VoteForSelf
  <2>1. /\ timer.at = "setVote" /\ timer'.at = "request" /\ votedFor' = Self
        /\ UNCHANGED <<term, ballots>>
    <3>1. timer \in Firing
      BY <1>6 DEF VoteForSelf, Shape, Resting
    <3> QED BY <1>6, <3>1 DEF VoteForSelf, history, Firing
  <2>2. BallotsOK'
    BY <2>1 DEF VotesOK, BallotsOK, NewTerm
  <2> QED BY <1>1, <2>1, <2>2 DEF VotesOK, InTurn, DecisionOK
<1>7. CASE RequestVotes
  <2>1. /\ timer.at = "request" /\ timer'.at = "assign" /\ UNCHANGED <<term, votedFor>>
        /\ ballots' = ballots \cup {[term |-> term, candidate |-> Self]}
    <3>1. timer \in Firing
      BY <1>7 DEF RequestVotes, Shape, Resting
    <3> QED BY <1>7, <3>1 DEF RequestVotes, member, Firing
  <2>2. event.at \in {"idle", "exited"} /\ votedFor = Self
    BY <2>1 DEF VotesOK, InTurn
  <2>3. NewTerm /\ ~NewTerm'
    BY <1>1, <2>1, <2>2 DEF NewTerm
  <2>4. BallotsOK'
    BY <2>1, <2>2, <2>3, VoteCounts DEF VotesOK
  <2> QED BY <1>1, <2>1, <2>2, <2>4 DEF VotesOK, InTurn, DecisionOK
<1>8. CASE AssignCandidate
  <2>1. timer.at = "assign" /\ timer'.at = "idle" /\ UNCHANGED <<term, votedFor, ballots>>
    BY <1>8 DEF AssignCandidate, TimerIdle, member, history
  <2> QED BY <1>1, <2>1, VotesRest DEF VotesOK, InTurn, DecisionOK, NewTerm
<1> QED BY <1>2, <1>3, <1>4, <1>5, <1>6, <1>7, <1>8 DEF TimerStep

\* The handlers that touch the term or a vote.
LEMMA VotesHandled ==
  ASSUME Shape, TypeInv, VotesOK, AdoptTerm \/ ClearVote \/ Grant
  PROVE  VotesOK'
<1>1. timer.at = "idle" /\ event \in Handling /\ timer' = timer /\ term \in Int
  BY HandlerAlone, InHandler DEF VotesOK, EventStep, AdoptTerm, ClearVote, Grant, Shape
<1>2. CASE AdoptTerm
  <2>1. event.at = "adopt" /\ term' = event.term /\ UNCHANGED <<votedFor, ballots>>
    BY <1>2 DEF AdoptTerm, At, history
  <2>2. event'.at = "clear"
    BY <1>1, <1>2, GoOnMoves DEF AdoptTerm, HandlerStep
  <2>3. term < term' /\ term' \in Int
    BY <1>1, <2>1 DEF VotesOK, DecisionOK, Handling
  <2>4. BallotsOK'
    BY <2>1, <2>2, <2>3, TermMoves DEF VotesOK, NewTerm, TypeInv
  <2> QED BY <1>1, <2>2, <2>4 DEF VotesOK, InTurn, DecisionOK
<1>3. CASE ClearVote
  <2>1. event.at = "clear" /\ votedFor' = NoServer /\ UNCHANGED <<term, ballots>>
    BY <1>3 DEF ClearVote, At, history
  <2>2. event'.at = "fallBehind"
    BY <1>1, <1>3, GoOnMoves DEF ClearVote, HandlerStep
  <2>3. BallotsOK'
    BY <2>1 DEF VotesOK, BallotsOK, NewTerm
  <2> QED BY <1>1, <2>1, <2>2, <2>3 DEF VotesOK, InTurn, DecisionOK
<1>4. CASE Grant
  <2>1. /\ event.at = "grant" /\ event'.at = "idle" /\ votedFor' = event.from /\ term' = term
        /\ ballots' = ballots \cup {[term |-> event.read, candidate |-> event.from]}
    BY <1>4, DoneRests DEF Grant, At
  <2>2. event.from \in Other /\ event.read = term /\ votedFor \in {NoServer, event.from}
    BY <1>1, <2>1 DEF VotesOK, DecisionOK, TypeInv, EventOK, Handling, HandlerStep
  <2>3. BallotsOK'
    BY <1>1, <2>1, <2>2, VoteCounts DEF VotesOK, TypeInv, NewTerm
  <2> QED BY <1>1, <2>1, <2>3 DEF VotesOK, InTurn, DecisionOK
<1> QED BY <1>2, <1>3, <1>4

\* The handlers that decide what to do about a vote.
LEMMA VotesDecided ==
  ASSUME Shape, VotesOK,
         \/ CompareTerm \/ FallBehind \/ AssignFollower \/ AnswerNewerTerm
         \/ HandleVoteRequest \/ CheckVote
  PROVE  VotesOK'
<1>1. timer.at = "idle" /\ event \in Handling /\ UNCHANGED <<timer, term, votedFor, ballots>>
  BY HandlerAlone, InHandler DEF VotesOK, EventStep, CompareTerm, FallBehind, AssignFollower,
     AnswerNewerTerm, HandleVoteRequest, CheckVote, member, history
<1>2. event.at # "clear" /\ event'.at # "clear" /\ DecisionOK'
  <2>1. CASE CompareTerm
    <3>1. \/ event'.at \in {"idle", "handle"}
          \/ event'.at = "adopt" /\ term < event.term /\ event' = [event EXCEPT !.at = "adopt"]
      BY <1>1, <2>1, DoneRests, GoOnMoves DEF CompareTerm, HandlerStep, GoOn
    <3> QED BY <1>1, <2>1, <3>1 DEF CompareTerm, At, DecisionOK, Handling
  <2>2. CASE FallBehind
    <3>1. event.at = "fallBehind" /\ event'.at \in {"idle", "assignFollower"}
      BY <1>1, <2>2, DoneRests, GoOnMoves DEF FallBehind, HandlerStep, At
    <3> QED BY <1>1, <3>1 DEF VotesOK, DecisionOK
  <2>3. CASE AssignFollower
    <3>1. event.at = "assignFollower" /\ event'.at \in {"idle", "handle", "answer"}
      BY <1>1, <2>3, DoneRests, GoOnMoves DEF AssignFollower, HandlerStep, At
    <3> QED BY <1>1, <3>1 DEF VotesOK, DecisionOK
  <2>4. CASE AnswerNewerTerm
    <3>1. event.at = "answer" /\ event'.at = "grant" /\ event'.read = term
      BY <1>1, <2>4 DEF AnswerNewerTerm, Handling, At
    <3> QED BY <1>1, <3>1 DEF VotesOK, DecisionOK
  <2>5. CASE HandleVoteRequest
    <3>1. /\ event.at = "handle"
          /\ event'.at = "idle" \/ (event'.at = "check" /\ event'.read = term)
      BY <1>1, <2>5, DoneRests DEF HandleVoteRequest, Handling, At
    <3> QED BY <1>1, <3>1 DEF DecisionOK
  <2>6. CASE CheckVote
    <3>1. event.at = "check" /\ event.read = term
      BY <2>6 DEF CheckVote, At, VotesOK, DecisionOK
    <3>2. CASE MayGrant
      <4>1. event'.at = "grant" /\ event'.read = event.read /\ event'.from = event.from
        BY <1>1, <2>6, <3>2 DEF CheckVote, GoOn, Handling
      <4> QED BY <1>1, <3>1, <3>2, <4>1 DEF DecisionOK, MayGrant
    <3>3. CASE ~MayGrant
      <4>1. event'.at = "idle"
        BY <2>6, <3>3, DoneRests DEF CheckVote
      <4> QED BY <3>1, <4>1 DEF DecisionOK
    <3> QED BY <3>2, <3>3
  <2> QED BY <2>1, <2>2, <2>3, <2>4, <2>5, <2>6
<1>3. BallotsOK'
  BY <1>1, <1>2, VotesRest DEF VotesOK, NewTerm
<1> QED BY <1>1, <1>2, <1>3 DEF VotesOK, InTurn

\* The handlers that are not about votes given.
LEMMA VotesOther ==
  ASSUME Shape, VotesOK,
         \/ HandleVoteResponse \/ Merge \/ BecomeMaster \/ Lead \/ AssignLeader
         \/ HandleAppendRequest
  PROVE  VotesOK'
<1>1. timer.at = "idle" /\ event \in Handling /\ UNCHANGED <<term, votedFor, ballots>>
  BY HandlerAlone, InHandler DEF VotesOK, EventStep, HandleVoteResponse, Merge, BecomeMaster,
     Lead, AssignLeader, HandleAppendRequest, member, history
<1>2. /\ event.at # "clear"
      /\ timer'.at = "idle" \/ (timer'.at = "exited" /\ event'.at = "exited")
  BY <1>1 DEF HandleVoteResponse, Merge, BecomeMaster, Lead, AssignLeader, HandleAppendRequest,
     ExitOnAppend, ResetTimer, At
<1>3. event'.at \in {"idle", "exited", "merge", "elected", "lead", "assignLeader"}
  <2>1. CASE HandleVoteResponse
    BY <1>1, <2>1, DoneRests DEF HandleVoteResponse, Handling
  <2>2. CASE Merge \/ BecomeMaster \/ Lead \/ AssignLeader
    BY <1>1, <2>2, DoneRests, GoOnMoves DEF Merge, BecomeMaster, Lead, AssignLeader, HandlerStep
  <2>3. CASE HandleAppendRequest
    BY <2>3, DoneRests DEF HandleAppendRequest, ExitOnAppend, ResetTimer
  <2> QED BY <2>1, <2>2, <2>3
<1>4. BallotsOK'
  BY <1>1, <1>2, <1>3, VotesRest DEF VotesOK, NewTerm
<1> QED BY <1>2, <1>3, <1>4 DEF VotesOK, InTurn, DecisionOK

LEMMA VotesStep == Shape /\ TypeInv /\ VotesInv /\ [Next]_vars => VotesInv'
<1> SUFFICES ASSUME Shape, TypeInv, VotesInv, [Next]_vars, ~raced' PROVE VotesOK'
  BY DEF VotesInv
<1>1. ~raced
  BY RacedStays
<1>2. VotesOK /\ FieldsOK
  BY <1>1 DEF VotesInv, TypeInv
<1>3. ASSUME NEW kind \in Kind, NEW t \in 1 .. MaxTerm, NEW from \in Other \cup {NoServer},
             NEW ok \in BOOLEAN, Pick(kind, t, from, ok)
      PROVE  VotesOK'
  <2>1. /\ event.at = "idle" /\ event'.at = "compare" /\ timer.at = "idle"
        /\ UNCHANGED <<timer, term, votedFor, ballots>>
    BY <1>3 DEF Pick, At, member
  <2> QED BY <1>2, <2>1, VotesRest DEF VotesOK, InTurn, DecisionOK, NewTerm
<1>4. CASE FailVote \/ UNCHANGED vars
  <2>1. UNCHANGED <<event, timer, term, votedFor, ballots>>
    BY <1>4 DEF FailVote, vars, member, history
  <2> QED BY <1>2, <2>1, VotesRest DEF VotesOK, InTurn, DecisionOK, NewTerm
<1>5. CASE EventStep
  BY <1>2, <1>5, VotesHandled, VotesDecided, VotesOther DEF EventStep
<1> QED BY <1>2, <1>3, <1>4, <1>5, VotesTimer DEF Next

\* As long as no timeout overlaps a handler, a term gets one vote, and
\* votedFor is the vote of the present term (updateTerm, the handler of a vote
\* request and CandidateState.wakeup agree on it), however many servers ask.
THEOREM VotesSafety == Spec => []VotesInStep
<1>1. Init => VotesInv
  <2> SUFFICES ASSUME Init PROVE VotesOK
    BY DEF VotesInv
  <2> QED BY DEF Init, EventIdle, TimerIdle, VotesOK, InTurn, DecisionOK, BallotsOK
<1>2. VotesInv => VotesInStep
  BY DEF VotesInv, VotesOK, BallotsOK, NewTerm, VotesInStep, AtRest
<1>3. ElectedInv /\ TypeInv /\ VotesInv /\ [Next]_vars => VotesInv'
  BY VotesStep DEF ElectedInv
<1> QED BY <1>1, <1>2, <1>3, ShapedSafety, PTL DEF Spec
=============================================================================
