-------------------------- MODULE ReplicateTaskProofs --------------------------
(***************************************************************************)
(* For any number of threads and tasks, start and stop of a ReplicateTask  *)
(* never overlap, and a task that is lost is lost in one of three ways.    *)
(***************************************************************************)
EXTENDS ReplicateTask, TLAPS

InStart == {"submit", "keep", "release"}
InStop  == {"cancel", "clear"}

IsInside(x) == x \in Actor /\ (pc[x] \in InStop \/ (x \in Caller /\ pc[x] \in InStart))

LEMMA InsideIs == \A x : /\ x \in Inside <=> IsInside(x)
                         /\ x \in Inside' <=> IsInside(x)'
  BY DEF Inside, IsInside, InStart, InStop, Actor

\* What OneCallAtATime says, with the flags spelled out.
Lock ==
  /\ \A x, y : IsInside(x) /\ IsInside(y) => x = y
  /\ (\E x : IsInside(x)) => started /\ stopped
  /\ ~(\E x : IsInside(x)) => (started <=> ~stopped)

\* A task that is alive, and not one that only keeps its successor's future.
Alive(t) == t \in Task /\ pc[t] \notin {"ended", "keep"}

Loop ==
  /\ started /\ ~stopped /\ ~lost => \E t : Alive(t)
  /\ ~lost /\ (\E c \in Caller : pc[c] \in {"keep", "release"}) => \E t : Alive(t)

IInv == TypeOK /\ Lock /\ Loop

LEMMA ActorFacts ==
  /\ Caller \subseteq Actor /\ Task \subseteq Actor /\ Event \in Caller /\ Joiner \subseteq Caller
  /\ \A c \in Caller, t \in Task : c # t
  BY ActorAssumption DEF Actor, Caller

LEMMA InvariantInit == Init => IInv
<1> SUFFICES ASSUME Init PROVE IInv
  OBVIOUS
<1>1. TypeOK
  BY ActorFacts DEF Init, TypeOK, CallerStep, TaskStep
<1>2. ~(\E x : IsInside(x)) /\ started = FALSE /\ stopped = TRUE
  BY DEF Init, IsInside, InStart, InStop, Actor
<1>3. Lock
  BY <1>2 DEF Lock
<1>4. Loop
  BY <1>2, ActorAssumption DEF Loop, Init, Actor
<1> QED BY <1>1, <1>3, <1>4 DEF IInv

LEMMA TypeStep == TypeOK /\ [Next]_vars => TypeOK'
<1> SUFFICES ASSUME TypeOK, [Next]_vars PROVE TypeOK'
  OBVIOUS
<1> USE ActorFacts DEF TypeOK, CallerStep, TaskStep
<1>1. ASSUME NEW c \in Caller, TryStart(c), leading' \in BOOLEAN PROVE TypeOK'
  BY <1>1 DEF TryStart, Goes
<1>2. ASSUME NEW x \in Actor, TryStop(x), leading' \in BOOLEAN PROVE TypeOK'
  BY <1>2 DEF TryStop, Goes, After
<1>3. ASSUME NEW c \in Joiner, JoinRequest(c) PROVE TypeOK'
  BY <1>3 DEF JoinRequest, Goes
<1>4. ASSUME NEW c \in Caller, Release(c) PROVE TypeOK'
  BY <1>4 DEF Release, Goes
<1>5. ASSUME NEW x \in Actor, Submit(x) PROVE TypeOK'
  BY <1>5 DEF Submit
<1>6. ASSUME NEW x \in Actor, KeepFuture(x) PROVE TypeOK'
  BY <1>6 DEF KeepFuture, Goes
<1>7. ASSUME NEW x \in Actor, Cancel(x) PROVE TypeOK'
  BY <1>7 DEF Cancel
<1>8. ASSUME NEW x \in Actor, Clear(x) PROVE TypeOK'
  BY <1>8 DEF Clear, Goes, After
<1>9. ASSUME NEW t \in Task, Execute(t) \/ Send(t) \/ Answered(t) \/ Vanish(t) PROVE TypeOK'
  BY <1>9 DEF Execute, Send, Answered, Vanish, Goes
<1>10. CASE UNCHANGED vars
  BY <1>10 DEF vars
<1> QED
  BY <1>1, <1>2, <1>3, <1>4, <1>5, <1>6, <1>7, <1>8, <1>9, <1>10
  DEF Next, WakeUp, Suspect, JoinStart, NoConnection
-----------------------------------------------------------------------------
(* The flags are a lock.                                                    *)

\* A step that changes no flag and leaves the same actors inside.
LEMMA LockKept ==
  ASSUME Lock, UNCHANGED <<started, stopped>>, \A x : IsInside(x)' <=> IsInside(x)
  PROVE  Lock'
  BY DEF Lock

LEMMA EnterKeeps ==
  ASSUME TypeOK, Lock, NEW x \in Actor, ~IsInside(x), \A y : IsInside(y)' <=> IsInside(y) \/ y = x,
         \/ ~started /\ started' = TRUE /\ stopped' = stopped
         \/ ~stopped /\ stopped' = TRUE /\ started' = started
  PROVE  Lock'
<1>1. (started \/ stopped) /\ ~(\E y : IsInside(y))
  BY DEF Lock, TypeOK
<1>2. started' = TRUE /\ stopped' = TRUE
  BY <1>1 DEF TypeOK
<1> QED BY <1>1, <1>2 DEF Lock

LEMMA LeaveKeeps ==
  ASSUME TypeOK, Lock, NEW x, IsInside(x), \A y : IsInside(y)' <=> IsInside(y) /\ y # x,
         \/ started' = FALSE /\ stopped' = stopped
         \/ stopped' = FALSE /\ started' = started
  PROVE  Lock'
<1>1. started /\ stopped /\ \A y : ~IsInside(y)'
  BY DEF Lock
<1> QED BY <1>1 DEF Lock, TypeOK

LEMMA TryStartLock ==
  ASSUME TypeOK, Lock, NEW c \in Caller, pc[c] \in {"idle", "joining"}, TryStart(c)
  PROVE  Lock'
<1> USE ActorFacts
<1>1. CASE started /\ Goes(c, "idle") /\ UNCHANGED <<started, stopped>>
  <2>1. \A x : IsInside(x)' <=> IsInside(x)
    BY <1>1 DEF Goes, IsInside, InStart, InStop, TypeOK, CallerStep, TaskStep
  <2> QED BY <1>1, <2>1, LockKept
<1>2. CASE ~started /\ started' = TRUE /\ Goes(c, "submit") /\ UNCHANGED stopped
  <2>1. ~IsInside(c) /\ \A x : IsInside(x)' <=> IsInside(x) \/ x = c
    BY <1>2 DEF Goes, IsInside, InStart, InStop, TypeOK, CallerStep, TaskStep
  <2> QED BY <1>2, <2>1, EnterKeeps
<1> QED BY <1>1, <1>2 DEF TryStart

LEMMA TryStopLock ==
  ASSUME TypeOK, Lock, NEW x \in Actor, TryStop(x),
         pc[x] = "idle" \/ (x \in Task /\ pc[x] = "replicate")
  PROVE  Lock'
<1> USE ActorFacts
<1>1. CASE stopped /\ Goes(x, After(x)) /\ UNCHANGED <<started, stopped>>
  <2>1. \A y : IsInside(y)' <=> IsInside(y)
    BY <1>1 DEF Goes, After, IsInside, InStart, InStop, TypeOK, CallerStep, TaskStep
  <2> QED BY <1>1, <2>1, LockKept
<1>2. CASE ~stopped /\ stopped' = TRUE /\ Goes(x, "cancel") /\ UNCHANGED started
  <2>1. ~IsInside(x) /\ \A y : IsInside(y)' <=> IsInside(y) \/ y = x
    BY <1>2 DEF Goes, IsInside, InStart, InStop, TypeOK, CallerStep, TaskStep
  <2> QED BY <1>2, <2>1, EnterKeeps
<1> QED BY <1>1, <1>2 DEF TryStop

LEMMA ReleaseLock ==
  ASSUME TypeOK, Lock, NEW c \in Caller, Release(c)
  PROVE  Lock'
<1>1. IsInside(c) /\ \A y : IsInside(y)' <=> IsInside(y) /\ y # c
  BY ActorFacts DEF Release, Goes, IsInside, InStart, InStop, TypeOK, CallerStep, TaskStep
<1> QED BY <1>1, LeaveKeeps DEF Release

LEMMA ClearLock ==
  ASSUME TypeOK, Lock, NEW x \in Actor, Clear(x)
  PROVE  Lock'
<1>1. IsInside(x)
  BY DEF Clear, IsInside, InStop
<1>2. \A y : IsInside(y)' <=> IsInside(y) /\ y # x
  BY ActorFacts DEF Clear, Goes, After, IsInside, InStart, InStop, TypeOK, CallerStep, TaskStep
<1> QED BY <1>1, <1>2, LeaveKeeps DEF Clear

LEMMA OtherLock ==
  ASSUME TypeOK, Lock,
         \/ \E c \in Joiner : JoinRequest(c)
         \/ \E x \in Actor : Submit(x) \/ KeepFuture(x) \/ Cancel(x)
         \/ \E t \in Task : Execute(t) \/ Send(t) \/ Answered(t) \/ Vanish(t)
         \/ UNCHANGED vars
  PROVE  Lock'
<1> USE ActorFacts
<1>1. ASSUME NEW c \in Joiner, JoinRequest(c) PROVE \A y : IsInside(y)' <=> IsInside(y)
  BY <1>1 DEF JoinRequest, Goes, IsInside, InStart, InStop, TypeOK, CallerStep, TaskStep
<1>2. ASSUME NEW x \in Actor, Submit(x) PROVE \A y : IsInside(y)' <=> IsInside(y)
  BY <1>2 DEF Submit, IsInside, InStart, InStop, TypeOK, CallerStep, TaskStep
<1>3. ASSUME NEW x \in Actor, KeepFuture(x) PROVE \A y : IsInside(y)' <=> IsInside(y)
  BY <1>3, ActorAssumption DEF KeepFuture, Goes, IsInside, InStart, InStop, TypeOK,
     CallerStep, TaskStep, Actor
<1>4. ASSUME NEW x \in Actor, Cancel(x) PROVE \A y : IsInside(y)' <=> IsInside(y)
  BY <1>4 DEF Cancel, IsInside, InStart, InStop, TypeOK, CallerStep, TaskStep
<1>5. ASSUME NEW t \in Task, Execute(t) \/ Send(t) \/ Answered(t) \/ Vanish(t)
      PROVE  \A y : IsInside(y)' <=> IsInside(y)
  BY <1>5 DEF Execute, Send, Answered, Vanish, Goes, IsInside, InStart, InStop, TypeOK,
     CallerStep, TaskStep
<1>6. CASE UNCHANGED vars
  BY <1>6 DEF vars, IsInside, Lock
<1>7. CASE ~UNCHANGED vars
  <2>1. UNCHANGED <<started, stopped>>
    BY <1>7 DEF JoinRequest, Submit, KeepFuture, Cancel, Execute, Send, Answered, Vanish
  <2> QED BY <1>1, <1>2, <1>3, <1>4, <1>5, <1>7, <2>1, LockKept
<1> QED BY <1>6, <1>7

LEMMA LockStep == TypeOK /\ Lock /\ [Next]_vars => Lock'
<1> SUFFICES ASSUME TypeOK, Lock, [Next]_vars PROVE Lock'
  OBVIOUS
<1> QED
  BY ActorFacts, TryStartLock, TryStopLock, ReleaseLock, ClearLock, OtherLock
  DEF Next, WakeUp, Suspect, JoinStart, NoConnection
-----------------------------------------------------------------------------
(* The loop.                                                                *)

\* Nobody is in start while an actor is in stop, nor while the flags differ.
LEMMA NoStarter ==
  ASSUME Lock, \/ \E x \in Actor : pc[x] \in InStop
               \/ ~started \/ ~stopped
  PROVE  \A c \in Caller : pc[c] \notin InStart
<1> SUFFICES ASSUME NEW c \in Caller, pc[c] \in InStart PROVE FALSE
  OBVIOUS
<1>1. IsInside(c) /\ started /\ stopped
  BY ActorFacts DEF Lock, IsInside
<1>2. PICK x \in Actor : pc[x] \in InStop
  BY <1>1
<1>3. x = c
  BY <1>1, <1>2 DEF Lock, IsInside
<1> QED BY <1>2, <1>3 DEF InStart, InStop

LEMMA LoopStep ==
  ASSUME TypeOK, Lock, Loop, [Next]_vars
  PROVE  Loop'
<1> USE ActorFacts
<1> DEFINE Starting == \E c \in Caller : pc[c] \in {"keep", "release"}
<1>1. ASSUME NEW c \in Caller, pc[c] \in {"idle", "joining"}, TryStart(c) PROVE Loop'
  <2>1. CASE started /\ Goes(c, "idle") /\ UNCHANGED <<started, stopped, lost>>
    BY <2>1, <1>1 DEF Goes, Loop, Alive, TypeOK, CallerStep, TaskStep
  <2>2. CASE ~started /\ Goes(c, "submit") /\ UNCHANGED stopped
    <3>1. stopped /\ \A d \in Caller : pc[d] \notin InStart
      BY <2>2, NoStarter DEF Lock
    <3>2. \A d \in Caller : pc'[d] \notin {"keep", "release"}
      BY <2>2, <3>1 DEF Goes, TypeOK, InStart
    <3> QED BY <2>2, <3>1, <3>2 DEF Loop
  <2> QED BY <1>1, <2>1, <2>2 DEF TryStart
<1>2. ASSUME NEW x \in Actor, TryStop(x),
             pc[x] = "idle" \/ (x \in Task /\ pc[x] = "replicate")
      PROVE  Loop'
  <2>1. CASE stopped /\ Goes(x, After(x)) /\ UNCHANGED <<started, stopped, lost>>
    BY <2>1, <1>2 DEF Goes, After, Loop, Alive, TypeOK, CallerStep, TaskStep
  <2>2. CASE ~stopped /\ stopped' = TRUE /\ Goes(x, "cancel")
    <3>1. \A d \in Caller : pc'[d] \notin {"keep", "release"}
      BY <2>2, NoStarter DEF Goes, TypeOK, InStart
    <3> QED BY <2>2, <3>1 DEF Loop
  <2> QED BY <1>2, <2>1, <2>2 DEF TryStop
<1>3. ASSUME NEW c \in Joiner, JoinRequest(c) PROVE Loop'
  BY <1>3 DEF JoinRequest, Goes, Loop, Alive, TypeOK, CallerStep, TaskStep
<1>4. ASSUME NEW c \in Caller, Release(c) PROVE Loop'
  BY <1>4 DEF Release, Goes, Loop, Alive, TypeOK, CallerStep, TaskStep
<1>5. ASSUME NEW x \in Actor, Submit(x) PROVE Loop'
  <2>1. PICK t \in Task : pc[t] = "ended" /\ pc' = [pc EXCEPT ![x] = "keep", ![t] = "queued"]
    BY <1>5 DEF Submit
  <2>2. Alive(t)'
    BY <2>1 DEF Alive, TypeOK
  <2> QED BY <2>2 DEF Loop
<1>6. ASSUME NEW x \in Actor, KeepFuture(x) PROVE Loop'
  BY <1>6 DEF KeepFuture, Goes, Loop, Alive, TypeOK, CallerStep, TaskStep
<1>7. ASSUME NEW x \in Actor, Cancel(x) \/ Clear(x) PROVE Loop'
  <2>1. IsInside(x) /\ pc[x] \in InStop
    BY <1>7 DEF Cancel, Clear, IsInside, InStop
  <2>2. started /\ stopped /\ \A c \in Caller : pc[c] \notin {"keep", "release"}
    BY <2>1, NoStarter DEF Lock, InStart
  <2>3. \A c \in Caller : pc'[c] \notin {"keep", "release"}
    BY <1>7, <2>2 DEF Cancel, Clear, Goes, After, TypeOK
  <2>4. ~(started' /\ ~stopped')
    BY <1>7, <2>2 DEF Cancel, Clear
  <2> QED BY <2>3, <2>4 DEF Loop
<1>8. ASSUME NEW t \in Task, Execute(t) PROVE Loop'
  <2>1. CASE stopped
    BY <1>8, <2>1 DEF Execute, Goes, Loop, Alive, TypeOK, CallerStep, TaskStep
  <2>2. CASE ~stopped
    <3>1. Alive(t)'
      BY <1>8, <2>2 DEF Execute, Goes, Alive, TypeOK
    <3> QED BY <3>1 DEF Loop
  <2> QED BY <2>1, <2>2
<1>9. ASSUME NEW t \in Task, Send(t) \/ Answered(t) PROVE Loop'
  <2>1. Alive(t)'
    BY <1>9 DEF Send, Answered, Goes, Alive, TypeOK
  <2> QED BY <2>1 DEF Loop
<1>10. ASSUME NEW t \in Task, Vanish(t) PROVE Loop'
  BY <1>10 DEF Vanish, Loop
<1>11. CASE UNCHANGED vars
  BY <1>11 DEF vars, Loop, Alive
<1> QED
  BY <1>1, <1>2, <1>3, <1>4, <1>5, <1>6, <1>7, <1>8, <1>9, <1>10, <1>11
  DEF Next, WakeUp, Suspect, JoinStart, NoConnection

LEMMA Invariant == Spec => []IInv
<1>1. IInv /\ [Next]_vars => IInv'
  BY TypeStep, LockStep, LoopStep DEF IInv
<1> QED BY <1>1, InvariantInit, PTL DEF Spec

\* Although start and stop each set two flags in three steps, from the event
\* thread, the pool threads and the task itself, no two of them overlap.
THEOREM CallSafety == Spec => []OneCallAtATime
<1>1. IInv => OneCallAtATime
  <2> SUFFICES ASSUME TypeOK, Lock PROVE OneCallAtATime
    BY DEF IInv
  <2>1. \A x, y \in Inside : x = y
    BY InsideIs DEF Lock
  <2>2. CASE \E x : IsInside(x)
    <3>1. Inside # {} /\ started /\ stopped
      BY <2>2, InsideIs DEF Lock
    <3> QED BY <2>1, <3>1 DEF OneCallAtATime, TypeOK
  <2>3. CASE ~(\E x : IsInside(x))
    <3>1. Inside = {} /\ (started <=> ~stopped)
      BY <2>3, InsideIs DEF Lock
    <3>2. started # stopped /\ (started \/ stopped)
      BY <3>1 DEF TypeOK
    <3> QED BY <2>1, <3>1, <3>2 DEF OneCallAtATime
  <2> QED BY <2>2, <2>3
<1> QED BY <1>1, Invariant, PTL

\* A started member keeps its task, unless the executor runs it before start
\* has released it, it throws, or its request is thrown away.
THEOREM LoopSafety == Spec => []LoopIsThere
<1>1. IInv => LoopIsThere
  BY DEF IInv, Loop, Alive, LoopIsThere
<1> QED BY <1>1, Invariant, PTL
=============================================================================
