---------------------------- MODULE RequestReply ----------------------------
(***************************************************************************)
(* What a caller of Connection.request may rely on: its request is carried *)
(* out at most once, its future is given at most one response, and an      *)
(* answer is the answer to the request carried out under its own id.       *)
(***************************************************************************)
EXTENDS Naturals

CONSTANT Request

VARIABLES
  future,    \* how the future of a request stands
  served,    \* how often the other side has carried it out
  responses  \* how many responses its future was given

vars == <<future, served, responses>>

Init ==
  /\ future = [r \in Request |-> "none"]
  /\ served = [r \in Request |-> 0] /\ responses = [r \in Request |-> 0]

Call(r) ==
  /\ future[r] = "none" /\ served[r] = 0
  /\ future' = [future EXCEPT ![r] = "pending"]
  /\ UNCHANGED <<served, responses>>

\* The other side carries r out; a message without a future may be carried
\* out too.
Serve(r) ==
  /\ served[r] = 0
  /\ served' = [served EXCEPT ![r] = 1]
  /\ UNCHANGED <<future, responses>>

Response(r) == {"timeout"} \cup (IF served[r] = 1 THEN {"answer", "remoteError"} ELSE {})

\* The one response of r; when the write has failed already it comes too late.
Respond(r) ==
  /\ future[r] \in {"pending", "unsent"} /\ responses[r] = 0
  /\ responses' = [responses EXCEPT ![r] = 1]
  /\ \E end \in Response(r) :
       future' = [future EXCEPT ![r] = IF @ = "pending" THEN end ELSE @]
  /\ UNCHANGED served

\* The request could not be written, as far as the caller can tell.
Fail(r) ==
  /\ future[r] = "pending" /\ future' = [future EXCEPT ![r] = "unsent"]
  /\ UNCHANGED <<served, responses>>

Next == \E r \in Request : Call(r) \/ Serve(r) \/ Respond(r) \/ Fail(r)

Spec == Init /\ [][Next]_vars
=============================================================================
