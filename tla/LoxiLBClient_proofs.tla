------------------------ MODULE LoxiLBClient_proofs ------------------------
(***************************************************************************)
(* Theorems about LoxiLBClient, for every number of endpoints, of session  *)
(* retries, of threads and of services.                                    *)
(***************************************************************************)
EXTENDS LoxiLBClient, TLAPS

\* (cur + i) % num_endpoints is an index of self.endpoints ...
LEMMA ModInRange == ASSUME NEW a \in Nat PROVE a % N \in Endpoints
  BY NAssumption DEF Endpoints

\* ... and the sum itself as long as the search has not wrapped around.
LEMMA ModBelow == ASSUME NEW a \in Nat, a < N PROVE a % N = a
  BY NAssumption

\* The search looks at an endpoint that exists.
LEMMA CandidateInRange ==
  ASSUME TypeOK, NEW t \in Threads PROVE Candidate(t) \in Endpoints
<1>1. current_endpoint_index \in Nat /\ i[t] \in Nat
  BY NAssumption DEF TypeOK, Endpoints
<1> QED BY <1>1, ModInRange DEF Candidate
-----------------------------------------------------------------------------
\* A node that applies a request still holds services only.
LEMMA AppliedInRange ==
  ASSUME NEW r \in Requests, NEW held \in SUBSET Services
  PROVE  Applied(r, held) \in SUBSET Services
  BY DEF Applied, Requests

LEMMA LostInRange ==
  ASSUME TypeOK, NEW t \in Threads, pc[t] # "idle", Lost(t)
  PROVE  rules' \in [Endpoints -> SUBSET Services]
<1>1. request[t] \in Requests /\ endpoint[t] \in Endpoints
  BY DEF TypeOK
<1>2. Applied(request[t], rules[endpoint[t]]) \in SUBSET Services
  BY <1>1, AppliedInRange DEF TypeOK
<1> QED BY <1>1, <1>2 DEF TypeOK, Lost

LEMMA TypeInit == Init => TypeOK
  BY NAssumption, RetriesAssumption DEF Init, TypeOK, Endpoints, Statements, Running

LEMMA TypeStep == TypeOK /\ [Next]_vars => TypeOK'
<1> SUFFICES ASSUME TypeOK, [Next]_vars PROVE TypeOK'
  OBVIOUS
<1> USE DEF TypeOK, shared, nodes, local
<1>1. ASSUME NEW t \in Threads, Invoke(t) PROVE TypeOK'
  BY <1>1, NAssumption, RetriesAssumption DEF Invoke, Statements, Running
<1>2. ASSUME NEW t \in Threads, FindHealthy(t) PROVE TypeOK'
  BY <1>2, CandidateInRange, NAssumption DEF FindHealthy, Statements, Running
<1>3. ASSUME NEW t \in Threads, SkipUnhealthy(t) PROVE TypeOK'
  BY <1>3, NAssumption, RetriesAssumption DEF SkipUnhealthy, Statements, Running
<1>4. ASSUME NEW t \in Threads, Take(t) PROVE TypeOK'
  BY <1>4, NAssumption, RetriesAssumption DEF Take, Statements, Running
<1>5. ASSUME NEW t \in Threads, AllUnhealthy(t) PROVE TypeOK'
  BY <1>5, NAssumption, RetriesAssumption DEF AllUnhealthy, Statements, Running
<1>6. ASSUME NEW t \in Threads, ResetHealth(t) PROVE TypeOK'
  BY <1>6, NAssumption, RetriesAssumption, SMTT(20) DEF ResetHealth, Statements, Running, Endpoints
<1>7. ASSUME NEW t \in Threads, UseFirst(t) PROVE TypeOK'
  BY <1>7, NAssumption, RetriesAssumption DEF UseFirst, Statements, Running, Endpoints
<1>8. ASSUME NEW t \in Threads, Answer(t) PROVE TypeOK'
  <2>1. request[t] \in Requests /\ endpoint[t] \in Endpoints
    BY <1>8 DEF Answer
  <2>2. Applied(request[t], rules[endpoint[t]]) \in SUBSET Services
    BY <2>1, AppliedInRange
  <2>3. rules' \in [Endpoints -> SUBSET Services]
    BY <1>8, <2>1, <2>2 DEF Answer
  <2>4. PICK code \in Answers(request[t], rules[endpoint[t]]) :
           response' = [response EXCEPT ![t] = code]
    BY <1>8 DEF Answer
  <2>5. code \in Codes
    BY <2>4 DEF Answers, Codes
  <2> QED BY <1>8, <2>3, <2>4, <2>5 DEF Answer, Statements, Running
<1>9. ASSUME NEW t \in Threads, Refuse(t) PROVE TypeOK'
  BY <1>9, NAssumption, RetriesAssumption DEF Refuse, Statements, Running, Refusals
<1>10. ASSUME NEW t \in Threads, Resend(t) PROVE TypeOK'
  <2>1. rules' \in [Endpoints -> SUBSET Services]
    BY <1>10, LostInRange DEF Resend
  <2> QED BY <1>10, <2>1, RetriesAssumption DEF Resend, Statements, Running
<1>11. ASSUME NEW t \in Threads, Abandon(t) PROVE TypeOK'
  <2>1. rules' \in [Endpoints -> SUBSET Services]
    BY <1>11, LostInRange DEF Abandon
  <2> QED BY <1>11, <2>1, RetriesAssumption DEF Abandon, Statements, Running, Exceptions
<1>12. ASSUME NEW t \in Threads, HandleAnswer(t) PROVE TypeOK'
  <2>1. request[t].method \in {"GET", "POST", "DELETE"} /\ response[t] \in Codes
    BY <1>12, MethodsAssumption DEF HandleAnswer, Requests
  <2>2. OperationResult(request[t].method, response[t]) \in Results
    BY <2>1 DEF OperationResult, Results, Codes
  <2> QED BY <1>12, <2>2 DEF HandleAnswer, Statements, Running
<1>13. ASSUME NEW t \in Threads, HandleFailure(t) PROVE TypeOK'
  BY <1>13, NAssumption, RetriesAssumption DEF HandleFailure, MarkedUnhealthy, Counted, AfterAttempt, Statements, Running, LastError, Errors
<1>14. ASSUME NEW t \in Threads, Finish(t) PROVE TypeOK'
  BY <1>14, NAssumption, RetriesAssumption DEF Finish, Statements, Running, Endpoints
<1>15. ASSUME NEW e \in Endpoints, ApplyDelayed(e) PROVE TypeOK'
  <2>1. PICK r \in delayed[e] : /\ delayed' = [delayed EXCEPT ![e] = @ \ {r}]
                                /\ rules' = [rules EXCEPT ![e] = Applied(r, @)]
    BY <1>15 DEF ApplyDelayed
  <2>2. Applied(r, rules[e]) \in SUBSET Services
    BY AppliedInRange
  <2> QED BY <1>15, <2>1, <2>2 DEF ApplyDelayed
<1>16. CASE UNCHANGED vars
  BY <1>16 DEF vars
<1> QED BY <1>1, <1>2, <1>3, <1>4, <1>5, <1>6, <1>7, <1>8, <1>9, <1>10, <1>11, <1>12, <1>13, <1>14, <1>15, <1>16 DEF Next, Step

\* TypeOK holds in every behaviour of the client, whatever the number of
\* endpoints, threads and retries: no step hands out an endpoint that does not
\* exist, and no request makes more attempts than there are endpoints.
THEOREM TypeCorrect == Spec => []TypeOK
  BY TypeInit, TypeStep, PTL DEF Spec
-----------------------------------------------------------------------------
(***************************************************************************)
(* One thread in the client: SequentialInv is inductive.                   *)
(***************************************************************************)

LEMMA SequentialInit == Init => SequentialInv
<1> SUFFICES ASSUME Init, NEW t \in Threads
             PROVE  \E k0, k \in 0 .. N : SequentialAt(t, k0, k)
  BY DEF SequentialInv
<1>1. \A e \in Endpoints : healthy[e] <=> e >= 0
  BY NAssumption DEF Endpoints, Init
<1>2. UnhealthyBelow(0)
  <2>1. current_endpoint_index <= 0
    BY DEF Init
  <2> QED BY <1>1, <2>1 DEF UnhealthyBelow
<1>3. TriedFrom(t, 0, 0)
  BY DEF Init, TriedFrom
<1>4. SequentialAt(t, 0, 0)
  BY <1>2, <1>3, NAssumption DEF Init, SequentialAt
<1> QED BY <1>4, NAssumption

\* The steps that only concern the node and the session leave it alone.
LEMMA SequentialExchange ==
  ASSUME TypeOK, NEW t \in Threads, NEW k0 \in 0 .. N, NEW k \in 0 .. N,
         SequentialAt(t, k0, k),
         Answer(t) \/ Refuse(t) \/ Resend(t) \/ Abandon(t)
  PROVE  SequentialAt(t, k0, k)'
<1>1. /\ pc[t] = "send" /\ pc'[t] \in {"send", "handle"}
      /\ UNCHANGED <<shared, i, endpoint, attempts, tried>>
  BY DEF Answer, Refuse, Resend, Abandon, TypeOK, shared
<1> QED BY <1>1 DEF SequentialAt, TriedFrom, UnhealthyBelow, shared

\* Before it wraps around, the search looks at the endpoints in their order.
LEMMA CandidateBelow ==
  ASSUME TypeOK, NEW t \in Threads, current_endpoint_index + i[t] < N
  PROVE  Candidate(t) = current_endpoint_index + i[t]
<1>1. current_endpoint_index + i[t] \in Nat
  BY NAssumption DEF TypeOK, Endpoints
<1> QED BY <1>1, ModBelow DEF Candidate

\* The search finds endpoint k, the first that is not marked unhealthy.
LEMMA SequentialFind ==
  ASSUME TypeOK, NEW t \in Threads, NEW k0 \in 0 .. N, NEW k \in 0 .. N,
         SequentialAt(t, k0, k), FindHealthy(t)
  PROVE  SequentialAt(t, k0, k)'
<1>1. Candidate(t) \in Endpoints
  BY CandidateInRange
<1>2. pc[t] = "scan" /\ (\A e \in Endpoints : healthy[e] <=> e >= k)
  BY DEF FindHealthy, SequentialAt, UnhealthyBelow
<1>3. Candidate(t) >= k
  BY <1>1, <1>2 DEF FindHealthy
<1>4. k < N
  BY <1>1, <1>3, NAssumption DEF Endpoints
<1>5. current_endpoint_index + i[t] <= k
  BY <1>2, <1>4 DEF SequentialAt
<1>6. current_endpoint_index + i[t] < N
  BY <1>4, <1>5, NAssumption DEF TypeOK, Endpoints
<1>7. Candidate(t) = k
  <2>1. Candidate(t) = current_endpoint_index + i[t]
    BY <1>6, CandidateBelow
  <2> QED BY <2>1, <1>1, <1>3, <1>5, NAssumption DEF Endpoints
<1>8. pc'[t] = "take" /\ endpoint'[t] = k /\ i'[t] = 0
  BY <1>7 DEF FindHealthy, TypeOK
<1> QED BY <1>2, <1>4, <1>8 DEF FindHealthy, shared, SequentialAt, TriedFrom

LEMMA SequentialSkip ==
  ASSUME TypeOK, NEW t \in Threads, NEW k0 \in 0 .. N, NEW k \in 0 .. N,
         SequentialAt(t, k0, k), SkipUnhealthy(t)
  PROVE  SequentialAt(t, k0, k)'
<1>1. Candidate(t) \in Endpoints
  BY CandidateInRange
<1>2. pc[t] = "scan" /\ (\A e \in Endpoints : healthy[e] <=> e >= k)
  BY DEF SkipUnhealthy, SequentialAt, UnhealthyBelow
<1>3. ~ (Candidate(t) >= k)
  BY <1>1, <1>2 DEF SkipUnhealthy
<1>4. k < N => current_endpoint_index + i[t] < k
  <2> SUFFICES ASSUME k < N PROVE current_endpoint_index + i[t] < k
    OBVIOUS
  <2>1. current_endpoint_index + i[t] <= k
    BY <1>2 DEF SequentialAt
  <2>2. current_endpoint_index + i[t] < N
    BY <2>1, NAssumption DEF TypeOK, Endpoints
  <2>3. Candidate(t) = current_endpoint_index + i[t]
    BY <2>2, CandidateBelow
  <2> QED BY <2>3, <1>1, <1>3, NAssumption DEF Endpoints
<1>5. i'[t] = i[t] + 1 /\ UNCHANGED <<shared, pc, endpoint, attempts, tried>>
  BY DEF SkipUnhealthy, TypeOK
<1>6. k < N => current_endpoint_index + i'[t] <= k
  BY <1>4, <1>5, NAssumption DEF TypeOK, Endpoints
<1> QED BY <1>2, <1>5, <1>6 DEF SequentialAt, TriedFrom, UnhealthyBelow, shared

LEMMA SequentialTake ==
  ASSUME TypeOK, NEW t \in Threads, NEW k0 \in 0 .. N, NEW k \in 0 .. N,
         SequentialAt(t, k0, k), Take(t)
  PROVE  SequentialAt(t, k0, k)'
<1>1. pc'[t] = "send" /\ current_endpoint_index' = k
  BY DEF Take, SequentialAt, TypeOK
<1> QED BY <1>1 DEF Take, SequentialAt, TriedFrom, UnhealthyBelow

\* The search fails only when every endpoint is marked: k = N.
LEMMA SequentialAllUnhealthy ==
  ASSUME TypeOK, NEW t \in Threads, NEW k0 \in 0 .. N, NEW k \in 0 .. N,
         SequentialAt(t, k0, k), AllUnhealthy(t)
  PROVE  SequentialAt(t, k0, k)'
<1>1. pc[t] = "scan" /\ i[t] = N /\ (\A e \in Endpoints : healthy[e] <=> e >= k)
  BY DEF AllUnhealthy, SequentialAt, UnhealthyBelow
<1>2. k = N
  <2> SUFFICES ASSUME k < N PROVE FALSE
    BY NAssumption
  <2>1. current_endpoint_index + N <= k
    BY <1>1 DEF SequentialAt
  <2> QED BY <2>1, NAssumption DEF TypeOK, Endpoints
<1>3. attempts[t] < N
  BY <1>1 DEF TypeOK, Running, Statements
<1>4. attempts[t] = N - k0
  <2>1. CASE attempts[t] = k - k0
    BY <2>1, <1>2
  <2>2. CASE k <= k0 /\ attempts[t] = N - k0 + k
    BY <2>2, <1>2, <1>3, NAssumption
  <2> QED BY <2>1, <2>2 DEF SequentialAt, TriedFrom
<1>5. pc'[t] = "reset" /\ i'[t] = 0 /\ UNCHANGED <<shared, attempts, tried, endpoint>>
  BY DEF AllUnhealthy, TypeOK
<1>6. \A e \in Endpoints : healthy[e] <=> e < 0
  BY <1>1, <1>2, NAssumption DEF Endpoints
<1> QED BY <1>2, <1>4, <1>5, <1>6 DEF SequentialAt, TriedFrom, shared

LEMMA SequentialReset ==
  ASSUME TypeOK, NEW t \in Threads, NEW k0 \in 0 .. N, NEW k \in 0 .. N,
         SequentialAt(t, k0, k), ResetHealth(t)
  PROVE  SequentialAt(t, k0, k)'
<1>1. /\ pc[t] = "reset" /\ i'[t] = i[t] + 1
      /\ UNCHANGED <<pc, attempts, tried, endpoint, current_endpoint_index>>
  BY DEF ResetHealth, TypeOK
<1>2. \A e \in Endpoints : healthy[e] <=> e < i[t]
  BY <1>1 DEF SequentialAt
<1>3. \A e \in Endpoints : healthy'[e] <=> e < i[t] + 1
  <2> SUFFICES ASSUME NEW e \in Endpoints PROVE healthy'[e] <=> e < i[t] + 1
    OBVIOUS
  <2>1. e \in Int /\ i[t] \in Int
    BY NAssumption DEF TypeOK, Endpoints
  <2>2. CASE e = i[t]
    BY <2>1, <2>2 DEF ResetHealth, TypeOK
  <2>3. CASE e # i[t]
    <3>1. healthy'[e] <=> healthy[e]
      BY <2>3 DEF ResetHealth, TypeOK
    <3> QED BY <3>1, <2>1, <2>3, <1>2
  <2> QED BY <2>2, <2>3
<1> QED BY <1>1, <1>3 DEF SequentialAt, TriedFrom

\* After the reset the search restarts at 0: the request continues with k = 0.
LEMMA SequentialUseFirst ==
  ASSUME TypeOK, NEW t \in Threads, NEW k0 \in 0 .. N, NEW k \in 0 .. N,
         SequentialAt(t, k0, k), UseFirst(t)
  PROVE  SequentialAt(t, k0, 0)'
<1>1. /\ pc[t] = "reset" /\ i[t] = N
      /\ pc'[t] = "take" /\ endpoint'[t] = 0 /\ i'[t] = 0
      /\ UNCHANGED <<attempts, tried, healthy>>
  BY DEF UseFirst, shared, TypeOK
<1>2. k = N /\ attempts[t] = N - k0 /\ (\A e \in Endpoints : healthy[e] <=> e < N)
  BY <1>1 DEF SequentialAt
<1>3. attempts[t] < N
  BY <1>1 DEF TypeOK, Running, Statements
<1>4. tried[t] = k0 .. N - 1
  <2>1. CASE tried[t] = k0 .. k - 1
    BY <2>1, <1>2
  <2>2. CASE k <= k0 /\ attempts[t] = N - k0 + k
    BY <2>2, <1>2, <1>3, NAssumption    \* k0 = N: not a request that still runs
  <2> QED BY <2>1, <2>2 DEF SequentialAt, TriedFrom
<1>5. \A e \in Endpoints : healthy[e] <=> e >= 0
  BY <1>2, NAssumption DEF Endpoints
<1>6. TriedFrom(t, k0, 0)'
  <2>1. \A x : x \in 0 .. 0 - 1 => FALSE
    OBVIOUS
  <2>2. tried'[t] = (k0 .. N - 1) \cup (0 .. 0 - 1)
    BY <1>1, <1>4, <2>1
  <2>3. attempts'[t] = N - k0 + 0 /\ 0 <= k0
    BY <1>1, <1>2, NAssumption
  <2> QED BY <2>2, <2>3 DEF TriedFrom
<1> QED BY <1>1, <1>2, <1>5, <1>6, NAssumption DEF SequentialAt

\* Endpoint k fails: it joins the unhealthy ones and the tried ones.
LEMMA SequentialFailure ==
  ASSUME TypeOK, NEW t \in Threads, NEW k0 \in 0 .. N, NEW k \in 0 .. N,
         SequentialAt(t, k0, k), HandleFailure(t)
  PROVE  k + 1 \in 0 .. N /\ SequentialAt(t, k0, k + 1)'
<1>1. /\ pc[t] = "handle" /\ k < N /\ endpoint[t] = k /\ i[t] = 0
      /\ (\A e \in Endpoints : healthy[e] <=> e >= k) /\ current_endpoint_index <= k
  BY DEF HandleFailure, MarkedUnhealthy, Counted, AfterAttempt, SequentialAt, UnhealthyBelow
<1>2. attempts[t] < N
  BY <1>1 DEF TypeOK, Running, Statements
<1>3. /\ attempts'[t] = attempts[t] + 1 /\ tried'[t] = tried[t] \cup {k}
      /\ healthy' = [healthy EXCEPT ![k] = FALSE]
      /\ pc'[t] = (IF attempts[t] + 1 < N THEN "scan" ELSE "failed")
      /\ UNCHANGED <<i, current_endpoint_index, endpoint>>
  BY <1>1 DEF HandleFailure, MarkedUnhealthy, Counted, AfterAttempt, TypeOK
<1>4. \A e \in Endpoints : healthy'[e] <=> e >= k + 1
  <2> SUFFICES ASSUME NEW e \in Endpoints PROVE healthy'[e] <=> e >= k + 1
    OBVIOUS
  <2>1. e \in Int
    BY NAssumption DEF Endpoints
  <2>2. CASE e = k
    BY <2>1, <2>2, <1>3 DEF TypeOK
  <2>3. CASE e # k
    <3>1. healthy'[e] <=> healthy[e]
      BY <2>3, <1>3 DEF TypeOK
    <3> QED BY <3>1, <2>1, <2>3, <1>1
  <2> QED BY <2>2, <2>3
<1>5. TriedFrom(t, k0, k + 1)'
  <2>1. CASE k0 <= k /\ tried[t] = k0 .. k - 1 /\ attempts[t] = k - k0
    <3>1. tried'[t] = k0 .. (k + 1) - 1 /\ attempts'[t] = (k + 1) - k0
      BY <2>1, <1>3
    <3> QED BY <3>1, <2>1 DEF TriedFrom
  <2>2. CASE /\ k <= k0 /\ tried[t] = (k0 .. N - 1) \cup (0 .. k - 1)
             /\ attempts[t] = N - k0 + k
    <3>1. k + 1 <= k0
      BY <2>2, <1>2, NAssumption
    <3>2. (0 .. k - 1) \cup {k} = 0 .. (k + 1) - 1
      OBVIOUS
    <3>3. /\ tried'[t] = (k0 .. N - 1) \cup (0 .. (k + 1) - 1)
          /\ attempts'[t] = N - k0 + (k + 1)
      BY <2>2, <1>3, <3>2, NAssumption
    <3> QED BY <3>1, <3>3 DEF TriedFrom
  <2> QED BY <2>1, <2>2 DEF SequentialAt, TriedFrom
<1>6. current_endpoint_index' + i'[t] <= k + 1
  BY <1>1, <1>3, NAssumption DEF TypeOK, Endpoints
<1>7. pc'[t] = "failed" => attempts'[t] = N
  BY <1>2, <1>3, NAssumption DEF TypeOK
<1>8. UnhealthyBelow(k + 1)'
  <2>1. current_endpoint_index' <= k + 1
    BY <1>1, <1>3, NAssumption DEF TypeOK, Endpoints
  <2> QED BY <2>1, <1>4 DEF UnhealthyBelow
<1> QED BY <1>1, <1>3, <1>5, <1>6, <1>7, <1>8, NAssumption DEF SequentialAt

\* The next request begins where this one left the flags: with k0 = k.
LEMMA SequentialFinish ==
  ASSUME TypeOK, NEW t \in Threads, NEW k0 \in 0 .. N, NEW k \in 0 .. N,
         SequentialAt(t, k0, k), Finish(t)
  PROVE  SequentialAt(t, k, k)'
<1>1. /\ pc[t] \in {"answered", "failed"} /\ pc'[t] = "idle"
      /\ tried'[t] = {} /\ attempts'[t] = 0 /\ UNCHANGED <<shared, i>>
  BY DEF Finish, TypeOK
<1>2. TriedFrom(t, k, k)'
  BY <1>1 DEF TriedFrom
<1> QED BY <1>1, <1>2 DEF SequentialAt, UnhealthyBelow, shared

LEMMA SequentialOther ==
  ASSUME TypeOK, NEW t \in Threads, NEW k0 \in 0 .. N, NEW k \in 0 .. N,
         SequentialAt(t, k0, k),
         \/ Invoke(t) \/ HandleAnswer(t) \/ UNCHANGED vars
         \/ \E e \in Endpoints : ApplyDelayed(e)
  PROVE  SequentialAt(t, k0, k)'
<1>1. CASE Invoke(t)
  <2>1. /\ pc[t] = "idle" /\ pc'[t] = "scan"
        /\ UNCHANGED <<shared, i, endpoint, attempts, tried>>
    BY <1>1 DEF Invoke, TypeOK
  <2>2. current_endpoint_index + i[t] <= k
    BY <2>1, NAssumption DEF SequentialAt, UnhealthyBelow, TypeOK, Endpoints
  <2> QED BY <2>1, <2>2 DEF SequentialAt, TriedFrom, UnhealthyBelow, shared
<1>2. CASE HandleAnswer(t)
  <2>1. /\ pc[t] = "handle" /\ pc'[t] = "answered"
        /\ UNCHANGED <<shared, i, endpoint, attempts, tried>>
    BY <1>2 DEF HandleAnswer, TypeOK
  <2> QED BY <2>1 DEF SequentialAt, TriedFrom, UnhealthyBelow, shared
<1>3. CASE UNCHANGED vars \/ \E e \in Endpoints : ApplyDelayed(e)
  <2>1. UNCHANGED <<shared, pc, i, endpoint, attempts, tried>>
    BY <1>3 DEF vars, local, ApplyDelayed
  <2> QED BY <2>1 DEF SequentialAt, TriedFrom, UnhealthyBelow, shared
<1> QED BY <1>1, <1>2, <1>3

LEMMA SequentialStep ==
  ASSUME SingleCaller, TypeOK, SequentialInv, [Next]_vars PROVE SequentialInv'
<1> SUFFICES ASSUME NEW t \in Threads
             PROVE  \E k0, k \in 0 .. N : SequentialAt(t, k0, k)'
  BY DEF SequentialInv
<1>1. PICK k0 \in 0 .. N, k \in 0 .. N : SequentialAt(t, k0, k)
  BY DEF SequentialInv
<1>2. \/ Invoke(t) \/ Step(t) \/ UNCHANGED vars
      \/ \E e \in Endpoints : ApplyDelayed(e)
  <2>1. \A u \in Threads : u = t
    BY DEF SingleCaller
  <2> QED BY <2>1 DEF Next
<1>3. CASE \/ Invoke(t) \/ HandleAnswer(t) \/ UNCHANGED vars
           \/ \E e \in Endpoints : ApplyDelayed(e)
  BY <1>1, <1>3, SequentialOther
<1>4. CASE Answer(t) \/ Refuse(t) \/ Resend(t) \/ Abandon(t)
  BY <1>1, <1>4, SequentialExchange
<1>5. CASE FindHealthy(t)
  BY <1>1, <1>5, SequentialFind
<1>6. CASE SkipUnhealthy(t)
  BY <1>1, <1>6, SequentialSkip
<1>7. CASE Take(t)
  BY <1>1, <1>7, SequentialTake
<1>8. CASE AllUnhealthy(t)
  BY <1>1, <1>8, SequentialAllUnhealthy
<1>9. CASE ResetHealth(t)
  BY <1>1, <1>9, SequentialReset
<1>10. CASE UseFirst(t)
  BY <1>1, <1>10, SequentialUseFirst, NAssumption
<1>11. CASE HandleFailure(t)
  BY <1>1, <1>11, SequentialFailure
<1>12. CASE Finish(t)
  BY <1>1, <1>12, SequentialFinish
<1> QED BY <1>2, <1>3, <1>4, <1>5, <1>6, <1>7, <1>8, <1>9, <1>10, <1>11, <1>12 DEF Step

\* When one thread uses the client, its flags and index always have the shape
\* SequentialInv describes.
THEOREM SequentialShape == SingleCaller => (Spec => []SequentialInv)
<1> SUFFICES ASSUME SingleCaller PROVE Spec => []SequentialInv
  OBVIOUS
<1>1. Init => SequentialInv
  BY SequentialInit
<1>2. TypeOK /\ SequentialInv /\ [Next]_vars => SequentialInv'
  BY SequentialStep
<1> QED BY <1>1, <1>2, TypeCorrect, PTL DEF Spec

\* A request counted to its N failures has failed on every endpoint.
LEMMA SequentialExhaustive == TypeOK /\ SequentialInv => Exhaustive
<1> SUFFICES ASSUME TypeOK, SequentialInv, NEW t \in Threads, pc[t] = "failed"
             PROVE  tried[t] = Endpoints
  BY DEF Exhaustive
<1>1. PICK k0 \in 0 .. N, k \in 0 .. N : SequentialAt(t, k0, k)
  BY DEF SequentialInv
<1>2. attempts[t] = N /\ TriedFrom(t, k0, k)
  BY <1>1 DEF SequentialAt
<1>3. CASE k0 <= k /\ tried[t] = k0 .. k - 1 /\ attempts[t] = k - k0
  BY <1>2, <1>3, NAssumption DEF Endpoints
<1>4. CASE /\ k <= k0 /\ tried[t] = (k0 .. N - 1) \cup (0 .. k - 1)
           /\ attempts[t] = N - k0 + k
  <2>1. k = k0
    BY <1>2, <1>4, NAssumption
  <2> QED BY <2>1, <1>4, NAssumption DEF Endpoints
<1> QED BY <1>2, <1>3, <1>4 DEF TriedFrom

\* One thread in the client: a request is reported as failed only after every
\* endpoint failed it, in whatever state earlier requests left the flags.
THEOREM ExhaustiveFailover == SingleCaller => (Spec => []Exhaustive)
<1> SUFFICES ASSUME SingleCaller PROVE Spec => []Exhaustive
  OBVIOUS
<1>1. Spec => []SequentialInv
  BY SequentialShape
<1> QED BY <1>1, TypeCorrect, SequentialExhaustive, PTL
-----------------------------------------------------------------------------
(***************************************************************************)
(* One thread in the client: it implements RequestContract.                *)
(***************************************************************************)

\* The endpoint a request is about to hear from is one it has not failed on.
LEMMA FreshEndpoint ==
  ASSUME TypeOK, SequentialInv, NEW t \in Threads, pc[t] = "handle"
  PROVE  endpoint[t] \in Endpoints \ tried[t]
<1>1. PICK k0 \in 0 .. N, k \in 0 .. N : SequentialAt(t, k0, k)
  BY DEF SequentialInv
<1>2. k < N /\ endpoint[t] = k /\ attempts[t] < N
  BY <1>1 DEF SequentialAt, TypeOK, Running, Statements
<1>3. CASE tried[t] = k0 .. k - 1
  BY <1>2, <1>3, NAssumption DEF Endpoints
<1>4. CASE /\ k <= k0 /\ tried[t] = (k0 .. N - 1) \cup (0 .. k - 1)
           /\ attempts[t] = N - k0 + k
  <2>1. k < k0
    BY <1>2, <1>4, NAssumption
  <2> QED BY <1>2, <1>4, <2>1, NAssumption DEF Endpoints
<1> QED BY <1>1, <1>3, <1>4 DEF SequentialAt, TriedFrom

\* A step that leaves phase and failures of every request alone is a stutter.
LEMMA ContractStutter ==
  ASSUME NEW t \in Threads, TypeOK, tried' = tried,
         \/ pc' = pc
         \/ /\ pc[t] \in Running
            /\ \E s \in Running : pc' = [pc EXCEPT ![t] = s]
  PROVE  UNCHANGED Contract!vars
<1>1. ASSUME NEW u \in Threads
      PROVE  (IF pc'[u] \in Running THEN "running" ELSE pc'[u])
              = (IF pc[u] \in Running THEN "running" ELSE pc[u])
  BY DEF TypeOK
<1> QED BY <1>1 DEF Contract!vars, phaseBar

\* phaseBar after a step of t that is not a stutter.
LEMMA PhaseStep ==
  ASSUME NEW t \in Threads, TypeOK,
         NEW s \in Statements, pc' = [pc EXCEPT ![t] = s]
  PROVE  phaseBar' = [phaseBar EXCEPT ![t] = IF s \in Running THEN "running" ELSE s]
<1>1. ASSUME NEW u \in Threads
      PROVE  (IF pc'[u] \in Running THEN "running" ELSE pc'[u])
              = (IF u = t THEN IF s \in Running THEN "running" ELSE s
                          ELSE IF pc[u] \in Running THEN "running" ELSE pc[u])
  BY DEF TypeOK
<1> QED BY <1>1 DEF phaseBar

LEMMA ContractInit == Init => Contract!Init
  BY DEF Init, Contract!Init, phaseBar, Running, Statements

LEMMA ContractStep ==
  ASSUME SingleCaller, TypeOK, TypeOK', SequentialInv, SequentialInv', [Next]_vars
  PROVE  [Contract!Next]_(Contract!vars)
<1> USE DEF Running, Statements
<1>1. ASSUME NEW t \in Threads, Invoke(t) PROVE Contract!Begin(t)
  <2>1. phaseBar' = [phaseBar EXCEPT ![t] = "running"]
    BY <1>1, PhaseStep DEF Invoke
  <2> QED BY <1>1, <2>1 DEF Invoke, Contract!Begin, phaseBar
<1>2. ASSUME NEW t \in Threads, HandleAnswer(t) PROVE Contract!Answer(t)
  <2>1. phaseBar' = [phaseBar EXCEPT ![t] = "answered"]
    BY <1>2, PhaseStep DEF HandleAnswer
  <2>2. tried[t] # Endpoints
    BY <1>2, FreshEndpoint DEF HandleAnswer
  <2> QED BY <1>2, <2>1, <2>2 DEF HandleAnswer, Contract!Answer, phaseBar
<1>3. ASSUME NEW t \in Threads, HandleFailure(t)
      PROVE  \E e \in Endpoints : Contract!Ask(t, e) \/ Contract!AskLast(t, e)
  <2>1. endpoint[t] \in Endpoints \ tried[t]
    BY <1>3, FreshEndpoint DEF HandleFailure, MarkedUnhealthy, Counted, AfterAttempt
  <2>2. phaseBar[t] = "running"
    BY <1>3 DEF HandleFailure, MarkedUnhealthy, Counted, AfterAttempt, phaseBar
  <2>3. CASE attempts[t] + 1 < N
    <3>1. pc' = [pc EXCEPT ![t] = "scan"]
      BY <1>3, <2>3 DEF HandleFailure, MarkedUnhealthy, Counted, AfterAttempt
    <3>2. \A u \in Threads : phaseBar'[u] = phaseBar[u]
      BY <1>3, <3>1 DEF HandleFailure, MarkedUnhealthy, Counted, AfterAttempt, phaseBar, TypeOK
    <3>3. phaseBar' = phaseBar
      BY <3>2 DEF phaseBar
    <3>4. Contract!Ask(t, endpoint[t])
      BY <1>3, <2>1, <2>2, <3>3 DEF HandleFailure, MarkedUnhealthy, Counted, AfterAttempt, Contract!Ask
    <3> QED BY <2>1, <3>4
  <2>4. CASE ~ (attempts[t] + 1 < N)
    <3>1. pc' = [pc EXCEPT ![t] = "failed"]
      BY <1>3, <2>4 DEF HandleFailure, MarkedUnhealthy, Counted, AfterAttempt
    <3>2. phaseBar' = [phaseBar EXCEPT ![t] = "failed"]
      BY <3>1, PhaseStep
    <3>3. pc'[t] = "failed"
      BY <3>1 DEF TypeOK
    <3>4. Exhaustive'
      BY SequentialExhaustive, PTL
    <3>5. tried'[t] = Endpoints
      BY <3>3, <3>4 DEF Exhaustive
    <3>6. tried' = [tried EXCEPT ![t] = @ \cup {endpoint[t]}]
      BY <1>3 DEF HandleFailure, MarkedUnhealthy, Counted, AfterAttempt
    <3>7. tried[t] \cup {endpoint[t]} = Endpoints /\ tried' = [tried EXCEPT ![t] = Endpoints]
      BY <3>5, <3>6 DEF TypeOK
    <3>8. Contract!AskLast(t, endpoint[t])
      BY <2>1, <2>2, <3>2, <3>7 DEF Contract!AskLast
    <3> QED BY <2>1, <3>8
  <2> QED BY <2>3, <2>4
<1>4. ASSUME NEW t \in Threads, Finish(t) PROVE Contract!End(t)
  <2>1. phaseBar' = [phaseBar EXCEPT ![t] = "idle"]
    BY <1>4, PhaseStep DEF Finish
  <2> QED BY <1>4, <2>1 DEF Finish, Contract!End, phaseBar
<1>5. ASSUME NEW t \in Threads,
             \/ FindHealthy(t) \/ SkipUnhealthy(t) \/ Take(t) \/ AllUnhealthy(t)
             \/ ResetHealth(t) \/ UseFirst(t) \/ Answer(t) \/ Refuse(t)
             \/ Resend(t) \/ Abandon(t)
      PROVE  UNCHANGED Contract!vars
  <2>1. tried' = tried
    BY <1>5 DEF FindHealthy, SkipUnhealthy, Take, AllUnhealthy, ResetHealth, UseFirst,
                Answer, Refuse, Resend, Abandon
  <2>2. pc[t] \in Running
    BY <1>5 DEF FindHealthy, SkipUnhealthy, Take, AllUnhealthy, ResetHealth, UseFirst,
                Answer, Refuse, Resend, Abandon
  <2>3. pc' = pc \/ \E s \in Running : pc' = [pc EXCEPT ![t] = s]
    BY <1>5 DEF FindHealthy, SkipUnhealthy, Take, AllUnhealthy, ResetHealth, UseFirst,
                Answer, Refuse, Resend, Abandon
  <2> QED BY <2>1, <2>2, <2>3, ContractStutter
<1>6. CASE UNCHANGED vars \/ \E e \in Endpoints : ApplyDelayed(e)
  <2>1. UNCHANGED <<pc, tried>>
    BY <1>6 DEF vars, local, ApplyDelayed
  <2> QED BY <2>1 DEF Contract!vars, phaseBar
<1>7. CASE \E t \in Threads : Invoke(t) \/ Step(t)
  <2>1. PICK t \in Threads : Invoke(t) \/ Step(t)
    BY <1>7
  <2> QED BY <2>1, <1>1, <1>2, <1>3, <1>4, <1>5 DEF Step, Contract!Next
<1> QED BY <1>6, <1>7 DEF Next

\* One thread in the client: every behaviour of the failover code is one the
\* contract allows, for any number of endpoints and of session retries.
THEOREM ClientImplementsContract == SingleCaller => (Spec => ImplementsContractSafely)
<1> SUFFICES ASSUME SingleCaller PROVE Spec => Contract!SafeSpec
  BY DEF ImplementsContractSafely
<1>1. Init => Contract!Init
  BY ContractInit
<1>2. TypeOK /\ TypeOK' /\ SequentialInv /\ SequentialInv' /\ [Next]_vars
        => [Contract!Next]_(Contract!vars)
  BY ContractStep
<1>3. Spec => []SequentialInv
  BY SequentialShape
<1> QED BY <1>1, <1>2, <1>3, TypeCorrect, PTL DEF Spec, Contract!SafeSpec
-----------------------------------------------------------------------------
(***************************************************************************)
(* What callers are told.  The endpoint of a request is the current one    *)
(* from the moment it is taken, and the answer a thread is about to handle *)
(* is still true of it: nobody else sends, and nothing arrives late.       *)
(***************************************************************************)

\* The rules of the endpoint t was given agree with the answer it holds.
AnswerAgrees(t) ==
  LET held == rules[endpoint[t]]
      service == request[t].service
  IN  /\ request[t].method = "POST" /\ response[t] = "2xx" => service \in held
      /\ request[t].method = "DELETE" =>
           /\ response[t] # "409"
           /\ response[t] \in {"2xx", "404"} => service \notin held

ResultAgrees(t) ==
  LET held == rules[endpoint[t]]
      service == request[t].service
  IN  /\ outcome[t] = "created" => service \in held
      /\ outcome[t] = "deleted" => service \notin held

AnswersAt(t) ==
  /\ pc[t] \in {"send", "handle", "answered"} => current_endpoint_index = endpoint[t]
  /\ pc[t] = "handle" => AnswerAgrees(t)
  /\ pc[t] = "answered" => ResultAgrees(t)

NothingDelayed == \A e \in Endpoints : delayed[e] = {}

AnswersInv == NothingDelayed /\ \A t \in Threads : AnswersAt(t)

\* A node that says 2xx has done what it was asked, and says 404 only of a rule
\* it does not hold.
LEMMA AnswerIsTrue ==
  ASSUME TypeOK, NEW t \in Threads, AnswersAt(t), Answer(t)
  PROVE  AnswersAt(t)' /\ delayed' = delayed
<1> DEFINE e == endpoint[t]
<1>1. request[t] \in Requests /\ e \in Endpoints /\ request' = request /\ endpoint' = endpoint
  BY DEF Answer, TypeOK, local
<1>2. PICK code \in Answers(request[t], rules[e]) :
        /\ response'[t] = code
        /\ rules'[e] = IF code = "2xx" THEN Applied(request[t], rules[e]) ELSE rules[e]
  BY <1>1 DEF Answer, TypeOK
<1>3. AnswerAgrees(t)'
  BY <1>1, <1>2 DEF AnswerAgrees, Answers, Applied
<1>4. pc'[t] = "handle" /\ current_endpoint_index' = endpoint'[t]
  BY DEF Answer, AnswersAt, TypeOK, shared
<1> QED BY <1>3, <1>4 DEF Answer, AnswersAt

\* Nothing else that happens to a request changes a rule it has been told of.
LEMMA ExchangeKeepsAnswers ==
  ASSUME TypeOK, ~ Late, NEW t \in Threads, AnswersAt(t),
         Refuse(t) \/ Resend(t) \/ Abandon(t)
  PROVE  AnswersAt(t)' /\ delayed' = delayed
<1>1. pc[t] = "send" /\ current_endpoint_index = endpoint[t]
  BY DEF AnswersAt, Refuse, Resend, Abandon
<1>2. UNCHANGED <<current_endpoint_index, endpoint, delayed>> /\ pc'[t] \in {"send", "handle"}
  BY <1>1 DEF Refuse, Resend, Abandon, TypeOK, shared, nodes
<1>3. pc'[t] = "handle" => response'[t] \in Refusals \cup Exceptions
  BY <1>1 DEF Refuse, Resend, Abandon, TypeOK
<1> QED BY <1>1, <1>2, <1>3 DEF AnswersAt, AnswerAgrees, Refusals, Exceptions

\* The result the caller is handed says what the answer says.
LEMMA ResultIsTrue ==
  ASSUME TypeOK, NEW t \in Threads, AnswersAt(t), HandleAnswer(t)
  PROVE  AnswersAt(t)' /\ delayed' = delayed
<1>1. /\ pc[t] = "handle" /\ response[t] \in {"2xx", "404", "409"}
      /\ current_endpoint_index = endpoint[t] /\ AnswerAgrees(t)
  BY DEF HandleAnswer, AnswersAt, Codes
<1>2. /\ outcome'[t] = OperationResult(request[t].method, response[t])
      /\ pc'[t] = "answered"
      /\ UNCHANGED <<current_endpoint_index, request, endpoint, rules, delayed>>
  BY DEF HandleAnswer, TypeOK, shared, nodes
<1>3. request[t].method \in {"GET", "POST", "DELETE"}
  BY <1>1, MethodsAssumption DEF TypeOK, Requests
<1>4. ResultAgrees(t)'
  BY <1>1, <1>2, <1>3 DEF ResultAgrees, AnswerAgrees, OperationResult
<1> QED BY <1>1, <1>2, <1>4 DEF AnswersAt

\* Before the endpoint is taken there is no answer; after the end none any more.
LEMMA SearchKeepsAnswers ==
  ASSUME TypeOK, NEW t \in Threads, AnswersAt(t),
         \/ Invoke(t) \/ FindHealthy(t) \/ SkipUnhealthy(t) \/ Take(t) \/ AllUnhealthy(t)
         \/ ResetHealth(t) \/ UseFirst(t) \/ HandleFailure(t) \/ Finish(t)
  PROVE  AnswersAt(t)' /\ delayed' = delayed
<1>1. CASE Take(t)
  BY <1>1 DEF Take, AnswersAt, TypeOK, nodes
<1>2. CASE \/ Invoke(t) \/ FindHealthy(t) \/ SkipUnhealthy(t) \/ AllUnhealthy(t)
           \/ ResetHealth(t) \/ UseFirst(t) \/ HandleFailure(t) \/ Finish(t)
  <2>1. pc'[t] \notin {"send", "handle", "answered"} /\ delayed' = delayed
    BY <1>2 DEF Invoke, FindHealthy, SkipUnhealthy, AllUnhealthy, ResetHealth, UseFirst,
                HandleFailure, AfterAttempt, Finish, TypeOK, nodes
  <2> QED BY <2>1 DEF AnswersAt
<1> QED BY <1>1, <1>2

LEMMA AnswersStep ==
  ASSUME SingleCaller, ~ Late, TypeOK, AnswersInv, [Next]_vars
  PROVE  AnswersInv'
<1>1. CASE \E t \in Threads : Invoke(t) \/ Step(t)
  <2>1. PICK t \in Threads : Invoke(t) \/ Step(t)
    BY <1>1
  <2>2. AnswersAt(t)' /\ delayed' = delayed
    BY <2>1, AnswerIsTrue, ExchangeKeepsAnswers, ResultIsTrue, SearchKeepsAnswers
       DEF Step, AnswersInv
  <2>3. \A u \in Threads : u = t
    BY DEF SingleCaller
  <2> QED BY <2>2, <2>3 DEF AnswersInv, NothingDelayed
<1>2. CASE \E e \in Endpoints : ApplyDelayed(e)
  BY <1>2 DEF ApplyDelayed, AnswersInv, NothingDelayed
<1>3. CASE UNCHANGED vars
  BY <1>3 DEF vars, shared, local, nodes, AnswersInv, NothingDelayed, AnswersAt, AnswerAgrees,
              ResultAgrees
<1> QED BY <1>1, <1>2, <1>3 DEF Next

\* With one calling thread, and requests that are applied while their sender
\* waits or never, a rule reported created is on the current endpoint and one
\* reported deleted is not, whatever the retries and the failovers.
THEOREM AnswersCanBeTrusted == SingleCaller /\ ~ Late => (Spec => []AnswersAreTrue)
<1> SUFFICES ASSUME SingleCaller, ~ Late PROVE Spec => []AnswersAreTrue
  OBVIOUS
<1>1. Init => AnswersInv
  BY DEF Init, AnswersInv, NothingDelayed, AnswersAt, Endpoints
<1>2. TypeOK /\ AnswersInv /\ [Next]_vars => AnswersInv'
  BY AnswersStep
<1>3. AnswersInv => AnswersAreTrue
  BY DEF AnswersInv, AnswersAreTrue, AnswersAt, ResultAgrees
<1> QED BY <1>1, <1>2, <1>3, TypeCorrect, PTL DEF Spec
=============================================================================
