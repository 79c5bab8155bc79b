--------------------------- MODULE RequestContract ---------------------------
(***************************************************************************)
(* What a caller of LoxiLBClient._request is promised: the request is put  *)
(* to the endpoints of the cluster, to each at most once, and it is        *)
(* reported as failed only when every endpoint has been asked and none of  *)
(* them answered.  Nothing is said of the order, of the health flags or of *)
(* the shared index: those belong to LoxiLBClient, which implements this   *)
(* specification for a single calling thread.                              *)
(***************************************************************************)
EXTENDS Naturals

CONSTANTS Threads,      \* the threads that call the client
          Endpoints     \* the LoxiLB nodes of the cluster

VARIABLES phase,        \* phase[t]: where the request of thread t stands
          asked         \* asked[t]: the endpoints that failed to answer it

vars == <<phase, asked>>

TypeOK == /\ phase \in [Threads -> {"idle", "running", "answered", "failed"}]
          /\ asked \in [Threads -> SUBSET Endpoints]

Init == /\ phase = [t \in Threads |-> "idle"]
        /\ asked = [t \in Threads |-> {}]

Begin(t) == /\ phase[t] = "idle"
            /\ phase' = [phase EXCEPT ![t] = "running"]
            /\ asked' = asked

\* An endpoint that was not asked before fails to answer.
Ask(t, e) == /\ phase[t] = "running"
             /\ e \notin asked[t]
             /\ asked' = [asked EXCEPT ![t] = @ \cup {e}]
             /\ phase' = phase

\* The last endpoint fails to answer, and the request with it.
AskLast(t, e) == /\ phase[t] = "running"
                 /\ e \notin asked[t]
                 /\ asked[t] \cup {e} = Endpoints
                 /\ asked' = [asked EXCEPT ![t] = Endpoints]
                 /\ phase' = [phase EXCEPT ![t] = "failed"]

\* Some endpoint answers, which takes one that has not failed.
Answer(t) == /\ phase[t] = "running"
             /\ asked[t] # Endpoints
             /\ phase' = [phase EXCEPT ![t] = "answered"]
             /\ asked' = asked

End(t) == /\ phase[t] \in {"answered", "failed"}
          /\ phase' = [phase EXCEPT ![t] = "idle"]
          /\ asked' = [asked EXCEPT ![t] = {}]

Next == \E t \in Threads : \/ Begin(t) \/ Answer(t) \/ End(t)
                           \/ \E e \in Endpoints : Ask(t, e) \/ AskLast(t, e)

SafeSpec == Init /\ [][Next]_vars

\* A request that was begun comes to its end.
Resolves == \A t \in Threads : phase[t] = "running" ~> phase[t] = "idle"

Spec == SafeSpec /\ Resolves
=============================================================================
