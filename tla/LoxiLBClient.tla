---------------------------- MODULE LoxiLBClient ----------------------------
(***************************************************************************)
(* octavia_loxilb/client/client.py: the REST client one driver process     *)
(* shares between the API worker threads and the StatsCollector thread.    *)
(*                                                                         *)
(* The client keeps a health flag per endpoint and the index of the        *)
(* current endpoint.  Neither is protected by a lock, so every read and    *)
(* every write of them is a step of its own.  A call of session.request is *)
(* two steps: what the LoxiLB node and the HTTP session make of the        *)
(* request, and what _request then does with the response or exception.    *)
(*                                                                         *)
(* The LoxiLB nodes are external.  A node keeps a set of service rules; a  *)
(* POST adds one, a DELETE removes one, a GET reads one.  The nodes do not *)
(* copy rules to each other: nothing in the repository makes them.         *)
(***************************************************************************)
EXTENDS Integers

CONSTANTS Threads,      \* the threads that use the client
          N,            \* the number of configured api_endpoints
          Retries,      \* api_retries: resends by the HTTP session itself
          Methods,      \* the HTTP methods the callers use
          Services,     \* the service rules they use them on
          Up,           \* endpoints that answer every request they are sent
          Late,         \* may a request be applied after its sender gave up?
          NoRequest     \* the request of a thread that has made none

ASSUME NAssumption == N \in Nat \ {0}
ASSUME RetriesAssumption == Retries \in Nat
ASSUME UpAssumption == Up \subseteq 0 .. N - 1
ASSUME LateAssumption == Late \in BOOLEAN
ASSUME MethodsAssumption == Methods \subseteq {"GET", "POST", "DELETE"}

Endpoints == 0 .. N - 1
Requests == [method : Methods, service : Services]

ASSUME NoRequestAssumption == NoRequest \notin Requests

VARIABLES
  healthy,                  \* endpoints[e]["healthy"]
  current_endpoint_index,   \* self.current_endpoint_index
  pc,                       \* pc[t]: the next statement of thread t
  request,                  \* request[t]: what it asks for
  i,                        \* i[t]: loop variable of _get_active_endpoint
  endpoint,                 \* endpoint[t]: index of the endpoint it was given
  attempts,                 \* attempts[t]: failed attempts of this request
  resends,                  \* resends[t]: retries the session has made
  response,                 \* response[t]: what session.request came back with
  outcome,                  \* outcome[t]: what the caller is handed
  tried,                    \* tried[t]: endpoints this request failed on (history)
  rules,                    \* rules[e]: the services node e holds (external)
  delayed                   \* delayed[e]: requests node e has yet to apply

shared == <<healthy, current_endpoint_index>>
nodes == <<rules, delayed>>
local == <<request, i, endpoint, attempts, resends, response, outcome, tried>>
vars == <<shared, pc, local, nodes>>

\* A status code _request tells apart, or the exception the session raised:
\* "retries" is urllib3 giving up on 429 and 5xx answers (RetryError).
Codes == {"2xx", "404", "409"}
Refusals == {"401", "4xx"}
Exceptions == {"timeout", "connection", "retries"}
Errors == {"timeout", "connection", "api", "authentication"}
Results == {"created", "deleted", "found", "none", "not_found", "conflict"}

\* Statements of _get_active_endpoint and _request.
Statements == {"idle", "scan", "take", "reset", "send", "handle", "answered", "failed"}
Running == Statements \ {"idle", "answered", "failed"}

TypeOK ==
  /\ healthy \in [Endpoints -> BOOLEAN]
  /\ current_endpoint_index \in Endpoints
  /\ pc \in [Threads -> Statements]
  /\ request \in [Threads -> Requests \cup {NoRequest}]
  /\ \A t \in Threads : pc[t] # "idle" => request[t] \in Requests
  /\ i \in [Threads -> 0 .. N]
  /\ endpoint \in [Threads -> Endpoints]
  /\ attempts \in [Threads -> 0 .. N]
  /\ \A t \in Threads : pc[t] \in Running \cup {"idle"} => attempts[t] < N
  /\ resends \in [Threads -> 0 .. Retries]
  /\ response \in [Threads -> Codes \cup Refusals \cup Exceptions \cup {"none"}]
  /\ outcome \in [Threads -> Results \cup Errors \cup {"none"}]
  /\ tried \in [Threads -> SUBSET Endpoints]
  /\ rules \in [Endpoints -> SUBSET Services]
  /\ delayed \in [Endpoints -> SUBSET Requests]

Init ==
  /\ healthy = [e \in Endpoints |-> TRUE]
  /\ current_endpoint_index = 0
  /\ pc = [t \in Threads |-> "idle"]
  /\ request = [t \in Threads |-> NoRequest]
  /\ i = [t \in Threads |-> 0]
  /\ endpoint = [t \in Threads |-> 0]
  /\ attempts = [t \in Threads |-> 0]
  /\ resends = [t \in Threads |-> 0]
  /\ response = [t \in Threads |-> "none"]
  /\ outcome = [t \in Threads |-> "none"]
  /\ tried = [t \in Threads |-> {}]
  /\ rules = [e \in Endpoints |-> {}]
  /\ delayed = [e \in Endpoints |-> {}]
-----------------------------------------------------------------------------
\* A caller enters create_loadbalancer, delete_loadbalancer, get_loadbalancer ...
Invoke(t) ==
  /\ pc[t] = "idle"
  /\ \E r \in Requests : request' = [request EXCEPT ![t] = r]
  /\ pc' = [pc EXCEPT ![t] = "scan"]
  /\ UNCHANGED <<shared, i, endpoint, attempts, resends, response, outcome, tried, nodes>>

\* _get_active_endpoint, one iteration of the search.  The current index is
\* read again each time, and another thread may have moved it.
Candidate(t) == (current_endpoint_index + i[t]) % N

FindHealthy(t) ==
  /\ pc[t] = "scan" /\ i[t] < N
  /\ healthy[Candidate(t)]
  /\ endpoint' = [endpoint EXCEPT ![t] = Candidate(t)]
  /\ i' = [i EXCEPT ![t] = 0]
  /\ pc' = [pc EXCEPT ![t] = "take"]
  /\ UNCHANGED <<shared, request, attempts, resends, response, outcome, tried, nodes>>

\* Faulty variant: the loop runs once too often.
SkipOneTooMany(t) ==
  /\ pc[t] = "scan" /\ i[t] <= N
  /\ ~ healthy[Candidate(t)]
  /\ i' = [i EXCEPT ![t] = @ + 1]
  /\ UNCHANGED <<shared, pc, request, endpoint, attempts, resends, response, outcome,
                 tried, nodes>>

SkipUnhealthy(t) ==
  /\ pc[t] = "scan" /\ i[t] < N
  /\ ~ healthy[Candidate(t)]
  /\ i' = [i EXCEPT ![t] = @ + 1]
  /\ UNCHANGED <<shared, pc, request, endpoint, attempts, resends, response, outcome,
                 tried, nodes>>

\* self.current_endpoint_index = idx; return self.endpoints[idx]
Take(t) ==
  /\ pc[t] = "take"
  /\ current_endpoint_index' = endpoint[t]
  /\ pc' = [pc EXCEPT ![t] = "send"]
  /\ resends' = [resends EXCEPT ![t] = 0]
  /\ UNCHANGED <<healthy, request, i, endpoint, attempts, response, outcome, tried, nodes>>

\* The search found nothing: reset the health flags, one after the other.
AllUnhealthy(t) ==
  /\ pc[t] = "scan" /\ i[t] = N
  /\ i' = [i EXCEPT ![t] = 0]
  /\ pc' = [pc EXCEPT ![t] = "reset"]
  /\ UNCHANGED <<shared, request, endpoint, attempts, resends, response, outcome,
                 tried, nodes>>

ResetHealth(t) ==
  /\ pc[t] = "reset" /\ i[t] < N
  /\ healthy' = [healthy EXCEPT ![i[t]] = TRUE]
  /\ i' = [i EXCEPT ![t] = @ + 1]
  /\ UNCHANGED <<current_endpoint_index, pc, request, endpoint, attempts, resends,
                 response, outcome, tried, nodes>>

\* Faulty variant: the search goes on where it stood.
UseCurrent(t) ==
  /\ pc[t] = "reset" /\ i[t] = N
  /\ endpoint' = [endpoint EXCEPT ![t] = current_endpoint_index]
  /\ i' = [i EXCEPT ![t] = 0]
  /\ pc' = [pc EXCEPT ![t] = "take"]
  /\ UNCHANGED <<shared, request, attempts, resends, response, outcome, tried, nodes>>

\* Every flag is set: on to endpoint 0.
UseFirst(t) ==
  /\ pc[t] = "reset" /\ i[t] = N
  /\ endpoint' = [endpoint EXCEPT ![t] = 0]
  /\ i' = [i EXCEPT ![t] = 0]
  /\ pc' = [pc EXCEPT ![t] = "take"]
  /\ UNCHANGED <<shared, request, attempts, resends, response, outcome, tried, nodes>>
-----------------------------------------------------------------------------
\* External: the rules of a node that applied request r.
Applied(r, held) == CASE r.method = "POST"   -> held \cup {r.service}
                      [] r.method = "DELETE" -> held \ {r.service}
                      [] OTHER               -> held

\* External: what a node that holds these rules may answer to request r.
Answers(r, held) ==
  IF r.method = "POST"
  THEN {"2xx"} \cup (IF r.service \in held THEN {"409"} ELSE {})
  ELSE IF r.service \in held THEN {"2xx"} ELSE {"404"}

\* External: the node answers, and a 2xx means it did what it was asked.
Answer(t) ==
  /\ pc[t] = "send"
  /\ LET e == endpoint[t] IN
       \E code \in Answers(request[t], rules[e]) :
         /\ response' = [response EXCEPT ![t] = code]
         /\ rules' = IF code = "2xx"
                     THEN [rules EXCEPT ![e] = Applied(request[t], @)] ELSE rules
  /\ pc' = [pc EXCEPT ![t] = "handle"]
  /\ UNCHANGED <<shared, request, i, endpoint, attempts, resends, outcome, tried, delayed>>

\* External: the node refuses the request, for its credentials or otherwise.
Refuse(t) ==
  /\ pc[t] = "send" /\ endpoint[t] \notin Up
  /\ \E code \in Refusals : response' = [response EXCEPT ![t] = code]
  /\ pc' = [pc EXCEPT ![t] = "handle"]
  /\ UNCHANGED <<shared, request, i, endpoint, attempts, resends, outcome, tried, nodes>>

\* The connection breaks, a timeout expires or the node answers 429 or 5xx: the
\* node may have applied the request, or not.
Lost(t) == LET e == endpoint[t] IN
             rules' \in {rules, [rules EXCEPT ![e] = Applied(request[t], @)]}

\* ... and the session sends the request again (status_forcelist,
\* allowed_methods: every method, POST too).
Resend(t) ==
  /\ pc[t] = "send" /\ endpoint[t] \notin Up
  /\ resends[t] < Retries
  /\ Lost(t)
  /\ resends' = [resends EXCEPT ![t] = @ + 1]
  /\ UNCHANGED <<shared, pc, request, i, endpoint, attempts, response, outcome, tried,
                 delayed>>

\* ... or has no retry left and raises; the node may apply the request later.
Abandon(t) ==
  /\ pc[t] = "send" /\ endpoint[t] \notin Up
  /\ resends[t] = Retries
  /\ \/ Lost(t) /\ delayed' = delayed
     \/ /\ Late
        /\ delayed' = [delayed EXCEPT ![endpoint[t]] = @ \cup {request[t]}]
        /\ rules' = rules
  /\ \E x \in Exceptions : response' = [response EXCEPT ![t] = x]
  /\ pc' = [pc EXCEPT ![t] = "handle"]
  /\ UNCHANGED <<shared, request, i, endpoint, attempts, resends, outcome, tried>>

\* External: a node gets round to a request nobody waits for any more.
ApplyDelayed(e) ==
  /\ \E r \in delayed[e] : /\ delayed' = [delayed EXCEPT ![e] = @ \ {r}]
                           /\ rules' = [rules EXCEPT ![e] = Applied(r, @)]
  /\ UNCHANGED <<shared, pc, local>>
-----------------------------------------------------------------------------
\* What the public operation makes of an answer that ends _request.
OperationResult(method, code) ==
  CASE code = "409"                       -> "conflict"
    [] method = "DELETE"                  -> "deleted"
    [] method = "GET" /\ code = "2xx"     -> "found"
    [] method = "GET" /\ code = "404"     -> "none"
    [] method = "POST" /\ code = "2xx"    -> "created"
    [] method = "POST" /\ code = "404"    -> "not_found"

\* Faulty variant: delete_loadbalancer takes any exception for "already deleted".
HandleAnswerOrException(t) ==
  /\ pc[t] = "handle"
  /\ response[t] \in Codes \/ request[t].method = "DELETE"
  /\ outcome' = [outcome EXCEPT ![t] = OperationResult(request[t].method, response[t])]
  /\ pc' = [pc EXCEPT ![t] = "answered"]
  /\ UNCHANGED <<shared, request, i, endpoint, attempts, resends, response, tried, nodes>>

\* 2xx returns; 404 and 409 are raised at once, from whichever endpoint.
HandleAnswer(t) ==
  /\ pc[t] = "handle" /\ response[t] \in Codes
  /\ outcome' = [outcome EXCEPT ![t] = OperationResult(request[t].method, response[t])]
  /\ pc' = [pc EXCEPT ![t] = "answered"]
  /\ UNCHANGED <<shared, request, i, endpoint, attempts, resends, response, tried, nodes>>

\* The exception _request keeps as last_error.  LoxiLBAuthenticationException is
\* caught by "except Exception" too, and replaced by a LoxiLBAPIException.
LastError(x) == IF x \in {"timeout", "connection"} THEN x ELSE "api"

\* What the other answers and exceptions do: mark the endpoint unhealthy, count
\* the attempt and go on to the next one, if there is one.  Before each, a faulty
\* variant: the mark is forgotten, a timeout is not counted, one attempt is lost.
MarkForgotten(t) == healthy
MarkedUnhealthy(t) == [healthy EXCEPT ![endpoint[t]] = FALSE]

TimeoutsNotCounted(t) == IF response[t] = "timeout" THEN attempts
                         ELSE [attempts EXCEPT ![t] = @ + 1]
Counted(t) == [attempts EXCEPT ![t] = @ + 1]

AfterAttemptButOne(t) == IF attempts[t] + 2 < N THEN "scan" ELSE "failed"
AfterAttempt(t) == IF attempts[t] + 1 < N THEN "scan" ELSE "failed"

HandleFailure(t) ==
  /\ pc[t] = "handle" /\ response[t] \in Refusals \cup Exceptions
  /\ healthy' = MarkedUnhealthy(t)
  /\ attempts' = Counted(t)
  /\ tried' = [tried EXCEPT ![t] = @ \cup {endpoint[t]}]
  /\ outcome' = [outcome EXCEPT ![t] = LastError(response[t])]
  /\ pc' = [pc EXCEPT ![t] = AfterAttempt(t)]
  /\ UNCHANGED <<current_endpoint_index, request, i, endpoint, resends, response, nodes>>

\* The caller has its result, or the exception; _request's locals are gone.
Finish(t) ==
  /\ pc[t] \in {"answered", "failed"}
  /\ pc' = [pc EXCEPT ![t] = "idle"]
  /\ request' = [request EXCEPT ![t] = NoRequest]
  /\ endpoint' = [endpoint EXCEPT ![t] = 0]
  /\ attempts' = [attempts EXCEPT ![t] = 0]
  /\ resends' = [resends EXCEPT ![t] = 0]
  /\ response' = [response EXCEPT ![t] = "none"]
  /\ outcome' = [outcome EXCEPT ![t] = "none"]
  /\ tried' = [tried EXCEPT ![t] = {}]
  /\ UNCHANGED <<shared, i, nodes>>

Step(t) == \/ FindHealthy(t) \/ SkipUnhealthy(t) \/ Take(t)
           \/ AllUnhealthy(t) \/ ResetHealth(t) \/ UseFirst(t)
           \/ Answer(t) \/ Refuse(t) \/ Resend(t) \/ Abandon(t)
           \/ HandleAnswer(t) \/ HandleFailure(t) \/ Finish(t)

Next == \/ \E t \in Threads : Invoke(t) \/ Step(t)
        \/ \E e \in Endpoints : ApplyDelayed(e)

\* A thread inside the client runs on: the session's timeout bounds its wait.
\* Nobody is obliged to call, and a node need not apply what it was late with.
Fairness == \A t \in Threads : WF_vars(Step(t))

Spec == Init /\ [][Next]_vars
FairSpec == Spec /\ Fairness
-----------------------------------------------------------------------------
(* Properties *)

\* A request is reported as failed only after every endpoint failed it.
\* _request counts N attempts and relies on _get_active_endpoint to hand out a
\* different endpoint for each of them, through flags and an index that outlive
\* the request and that earlier requests left in any state.
Exhaustive == \A t \in Threads : pc[t] = "failed" => tried[t] = Endpoints

\* Why it holds when one thread at a time is in the client.  The endpoints
\* below some k are the unhealthy ones, and the current index never passes k.
UnhealthyBelow(k) == /\ \A e \in Endpoints : healthy[e] <=> e >= k
                     /\ current_endpoint_index <= k

\* A request that began at k0 has failed on k0 .. k - 1; or on k0 .. N - 1 and,
\* after the flags were reset, on 0 .. k - 1.
TriedFrom(t, k0, k) ==
  \/ /\ k0 <= k
     /\ tried[t] = k0 .. k - 1
     /\ attempts[t] = k - k0
  \/ /\ k <= k0
     /\ tried[t] = (k0 .. N - 1) \cup (0 .. k - 1)
     /\ attempts[t] = N - k0 + k

SequentialAt(t, k0, k) ==
  /\ TriedFrom(t, k0, k)
  /\ pc[t] = "idle" => tried[t] = {} /\ attempts[t] = 0
  /\ pc[t] = "failed" => attempts[t] = N
  /\ pc[t] \notin {"scan", "reset"} => i[t] = 0
  /\ pc[t] = "scan" /\ k < N => current_endpoint_index + i[t] <= k
  /\ pc[t] \in {"take", "send", "handle"} => k < N /\ endpoint[t] = k
  /\ pc[t] = "take" => \A e \in Endpoints : healthy[e] <=> e >= k
  /\ pc[t] = "reset" => /\ k = N /\ k0 <= N
                         /\ attempts[t] = N - k0
                         /\ \A e \in Endpoints : healthy[e] <=> e < i[t]
  /\ pc[t] \notin {"take", "reset"} => UnhealthyBelow(k)

\* Every state of a client that one thread uses is such a state.
SequentialInv ==
  \A t \in Threads : \E k0, k \in 0 .. N : SequentialAt(t, k0, k)

\* One thread: the condition under which the client keeps its promise.
SingleCaller == \A t, u \in Threads : t = u

\* What a caller is told is so on the current endpoint, the one the next request
\* will go to: a rule reported created is there, and a rule reported deleted is
\* not, whatever answers were lost, whatever the session sent twice, and though
\* "deleted" is also what the code makes of a 404.
AnswersAreTrue ==
  \A t \in Threads : pc[t] = "answered" =>
     LET held == rules[current_endpoint_index] IN
       /\ outcome[t] = "created" => request[t].service \in held
       /\ outcome[t] = "deleted" => request[t].service \notin held

\* Every request ends, with an answer or an exception.
Terminates == \A t \in Threads : pc[t] \in Running ~> pc[t] = "idle"
-----------------------------------------------------------------------------
(* The client implements RequestContract. *)

phaseBar == [t \in Threads |-> IF pc[t] \in Running THEN "running" ELSE pc[t]]

Contract == INSTANCE RequestContract WITH phase <- phaseBar, asked <- tried

ImplementsContract == Contract!Spec
ImplementsContractSafely == Contract!SafeSpec
=============================================================================
