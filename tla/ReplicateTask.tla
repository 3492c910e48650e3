----------------------------- MODULE ReplicateTask -----------------------------
(***************************************************************************)
(* The ReplicateTask of one member at one server: a task that submits      *)
(* itself again whenever its request has ended, a flag "started", a flag   *)
(* "stopped" and a future, none of them read and written together.         *)
(*                                                                         *)
(* start is called by the event thread, when the server becomes leader,    *)
(* and by a pool thread that handles a JoinRequest; stop by the event      *)
(* thread, when the server leads no more, and by the task itself, when the *)
(* member cannot be connected.                                             *)
(***************************************************************************)
EXTENDS Integers, FiniteSets

CONSTANTS
  Joiner,  \* pool threads that handle a JoinRequest
  Event,   \* the event thread
  Task,    \* tasks, used again once they have ended; bounds those in flight
  None     \* no task

Caller == Joiner \cup {Event}
Actor  == Caller \cup Task

ASSUME ActorAssumption == /\ Event \notin Joiner /\ Caller \cap Task = {}
                          /\ None \notin Actor

VARIABLES
  started, stopped,  \* the flags
  future,            \* the task whose future is kept
  pc,                \* where each caller and each task is
  submitted,         \* the task an actor has submitted and not yet kept
  leading,           \* the event thread has made the server leader
  lost               \* since the last start a task has ended unstopped

vars == <<started, stopped, future, pc, submitted, leading, lost>>

Goes(x, to) == pc' = [pc EXCEPT ![x] = to]

\* Where an actor goes on after stop.
After(x) == IF x \in Task THEN "answered" ELSE "idle"

Init ==
  /\ started = FALSE /\ stopped = TRUE /\ future = None
  /\ pc = [x \in Actor |-> IF x \in Task THEN "ended" ELSE "idle"]
  /\ submitted = [x \in Actor |-> None] /\ leading = FALSE /\ lost = FALSE
-----------------------------------------------------------------------------
(* start: the flag, submit, the future, the other flag.                     *)

\* Bound: a task is left to be submitted when every other one is in a loop.
Room == Cardinality({t \in Task : pc[t] \notin {"ended", "keep"}}) + 1 < Cardinality(Task)

\* Deviation: whoever finds the task stopped starts it.
TryStartStopped(c) ==
  /\ \/ ~stopped /\ Goes(c, "idle") /\ UNCHANGED <<started, lost>>
     \/ stopped /\ Room /\ started' = TRUE /\ Goes(c, "submit") /\ lost' = FALSE
  /\ UNCHANGED <<stopped, future, submitted>>

TryStart(c) ==
  /\ \/ started /\ Goes(c, "idle") /\ UNCHANGED <<started, lost>>
     \/ ~started /\ Room /\ started' = TRUE /\ Goes(c, "submit") /\ lost' = FALSE
  /\ UNCHANGED <<stopped, future, submitted>>

\* LeaderState.wakeup.
WakeUp == /\ pc[Event] = "idle" /\ ~leading /\ leading' = TRUE /\ TryStart(Event)

\* LeaderState.handle(JoinRequest) of a member: the role is checked before.
JoinRequest(c) ==
  /\ pc[c] = "idle" /\ leading /\ Goes(c, "joining")
  /\ UNCHANGED <<started, stopped, future, submitted, leading, lost>>

JoinStart(c) == pc[c] = "joining" /\ TryStart(c) /\ UNCHANGED leading

\* EXECUTOR.submit(this::execute), in start and when a request has ended.
\* The future of a task that has ended cancels nothing.
Submit(x) ==
  /\ pc[x] \in {"submit", "answered"}
  /\ \E t \in Task :
       /\ pc[t] = "ended" /\ \A y \in Actor : submitted[y] # t
       /\ submitted' = [submitted EXCEPT ![x] = t]
       /\ pc' = [pc EXCEPT ![x] = "keep", ![t] = "queued"]
       /\ future' = IF future = t THEN None ELSE future
  /\ UNCHANGED <<started, stopped, leading, lost>>

KeepFuture(x) ==
  /\ pc[x] = "keep" /\ Goes(x, IF x \in Task THEN "ended" ELSE "release")
  /\ future' = submitted[x] /\ submitted' = [submitted EXCEPT ![x] = None]
  /\ UNCHANGED <<started, stopped, leading, lost>>

Release(c) ==
  /\ pc[c] = "release" /\ Goes(c, "idle") /\ stopped' = FALSE
  /\ UNCHANGED <<started, future, submitted, leading, lost>>
-----------------------------------------------------------------------------
(* stop: the flag, cancel, the other flag.                                  *)

TryStop(x) ==
  /\ IF stopped THEN Goes(x, After(x)) /\ UNCHANGED stopped
     ELSE stopped' = TRUE /\ Goes(x, "cancel")
  /\ UNCHANGED <<started, future, submitted, lost>>

\* LeaderState.suspect.
Suspect == /\ pc[Event] = "idle" /\ leading /\ leading' = FALSE /\ TryStop(Event)

\* future.cancel(false): of a task that has not begun.
Cancel(x) ==
  /\ pc[x] = "cancel"
  /\ pc' = [y \in Actor |->
              IF y = x THEN "clear"
              ELSE IF y = future /\ pc[y] = "queued" THEN "ended" ELSE pc[y]]
  /\ UNCHANGED <<started, stopped, future, submitted, leading, lost>>

Clear(x) ==
  /\ pc[x] = "clear" /\ Goes(x, After(x)) /\ started' = FALSE
  /\ UNCHANGED <<stopped, future, submitted, leading, lost>>
-----------------------------------------------------------------------------
(* The task.                                                                *)

\* Deviation: the flag is not looked at.
ExecuteAnyway(t) ==
  /\ pc[t] = "queued" /\ Goes(t, "replicate") /\ lost' = lost
  /\ UNCHANGED <<started, stopped, future, submitted, leading>>

\* execute; one that overtakes start finds it has not been released yet.
Execute(t) ==
  /\ pc[t] = "queued" /\ Goes(t, IF stopped THEN "ended" ELSE "replicate")
  /\ lost' = (lost \/ (stopped /\ \E c \in Caller : pc[c] \in {"keep", "release"}))
  /\ UNCHANGED <<started, stopped, future, submitted, leading>>

\* replicateTo without a connection.
NoConnection(t) == pc[t] = "replicate" /\ TryStop(t) /\ UNCHANGED leading

Send(t) ==
  /\ pc[t] = "replicate" /\ Goes(t, "sending")
  /\ UNCHANGED <<started, stopped, future, submitted, leading, lost>>

\* Deviation: a request that fails is not followed by another.
EndAnswered(t) ==
  /\ pc[t] = "sending" /\ \E to \in {"answered", "ended"} : Goes(t, to)
  /\ UNCHANGED <<started, stopped, future, submitted, leading, lost>>

\* An answer, handled by the event thread, or the end of the wait for it.
Answered(t) ==
  /\ pc[t] = "sending" /\ Goes(t, "answered")
  /\ UNCHANGED <<started, stopped, future, submitted, leading, lost>>

\* replicateTo throws, or the request is thrown away by a connection that is
\* closed (Connection): the task is not submitted again.
Vanish(t) ==
  /\ pc[t] \in {"replicate", "sending"} /\ Goes(t, "ended") /\ lost' = TRUE
  /\ UNCHANGED <<started, stopped, future, submitted, leading>>
-----------------------------------------------------------------------------
Next ==
  \/ WakeUp \/ Suspect
  \/ \E c \in Joiner : JoinRequest(c) \/ JoinStart(c)
  \/ \E c \in Caller : Release(c)
  \/ \E x \in Actor : Submit(x) \/ KeepFuture(x) \/ Cancel(x) \/ Clear(x)
  \/ \E t \in Task : Execute(t) \/ NoConnection(t) \/ Send(t) \/ Answered(t) \/ Vanish(t)

\* Threads run what they have begun, the executor runs what is submitted, and
\* a request ends one way or another; a task submitted again and again gets
\* its turn, whatever else is submitted.
Fairness ==
  /\ \A c \in Joiner : WF_vars(JoinStart(c))
  /\ \A c \in Caller : WF_vars(Release(c))
  /\ \A x \in Actor : /\ SF_vars(Submit(x)) /\ WF_vars(KeepFuture(x))
                      /\ WF_vars(Cancel(x)) /\ WF_vars(Clear(x))
  /\ \A t \in Task : /\ WF_vars(Execute(t)) /\ WF_vars(NoConnection(t) \/ Send(t))
                     /\ WF_vars(Answered(t) \/ Vanish(t))

Spec == Init /\ [][Next]_vars /\ Fairness
-----------------------------------------------------------------------------
(* Properties.                                                              *)

CallerStep == {"idle", "joining", "submit", "keep", "release", "cancel", "clear"}
TaskStep   == {"ended", "queued", "replicate", "sending", "answered", "keep",
               "cancel", "clear"}

\* Every variable keeps its type.
TypeOK ==
  /\ {started, stopped, leading, lost} \subseteq BOOLEAN
  /\ future \in Task \cup {None}
  /\ pc \in [Actor -> CallerStep \cup TaskStep]
  /\ \A c \in Caller : pc[c] \in CallerStep
  /\ \A t \in Task : pc[t] \in TaskStep
  /\ submitted \in [Actor -> Task \cup {None}]

\* Actors between the two flags of start or of stop; a task that keeps the
\* future of its successor is not.
Inside ==
  {x \in Actor : pc[x] \in {"cancel", "clear"}}
    \cup {c \in Caller : pc[c] \in {"submit", "keep", "release"}}

\* The two flags are a lock: no start overlaps a start or a stop, and while
\* nobody is inside, one of the flags says what the other one does.
OneCallAtATime ==
  /\ \A x, y \in Inside : x = y
  /\ Inside = {} <=> started # stopped
  /\ started \/ stopped

\* Once started and not stopped, the member has a task, unless the task has
\* overtaken start, thrown or waited for a request that was thrown away.
LoopIsThere ==
  started /\ ~stopped /\ ~lost => \E t \in Task : pc[t] # "ended"

\* When the member stays stopped its tasks come to an end, those that an
\* earlier start has left behind too.
StoppedDrains == <>[]stopped => <>[](\A t \in Task : pc[t] = "ended")
=============================================================================
