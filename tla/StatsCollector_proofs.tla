------------------------ MODULE StatsCollector_proofs ------------------------
(***************************************************************************)
(* The collector's worker goes on; the bytes reported of a listener are    *)
(* bytes that went by, and never go back until a stop leaves a worker      *)
(* behind: for any number of rules, endpoints and connections, any traffic *)
(* and any number of failures.                                             *)
(***************************************************************************)
EXTENDS StatsCollector, TLAPS, FiniteSetTheorems, WellFoundedInduction

Statements == {"ended", "while", "list", "track", "push", "wait"}

ControlTypeOK == /\ thread \in Workers \cup {None}
                 /\ stopping \in BOOLEAN
                 /\ caller \in {"idle", "clear", "spawn", "join"}
                 /\ pc \in [Workers -> Statements]
                 /\ timed_out \in BOOLEAN

\* A worker that lives is the one the collector knows of; a caller of start that is
\* about to make one has seen that there is none.  Until a stop gives up waiting.
OnlyOne == /\ \A w \in Workers : pc[w] # "ended" => thread = w
           /\ caller \in {"clear", "spawn"} => \A w \in Workers : pc[w] = "ended"

\* The event is cleared before the worker is made and set only by stop, which does
\* not return before the collector has forgotten the worker.
GoesOn == /\ caller = "spawn" => ~ stopping
          /\ caller = "idle" /\ thread # None => Alive(thread) /\ ~ stopping

CollectorInv == ControlTypeOK /\ GoesOn

UntilTimeout == ~ timed_out => OnlyOne
-----------------------------------------------------------------------------
LEMMA Spawned ==
  ASSUME ControlTypeOK, Spawn
  PROVE  /\ thread' \in Workers /\ ~ Alive(thread')
         /\ pc' = [pc EXCEPT ![thread'] = "while"]
BY DEF Spawn, ControlTypeOK

LEMMA InitEstablishes == Init => CollectorInv /\ OnlyOne
BY DEF Init, CollectorInv, ControlTypeOK, GoesOn, OnlyOne, Statements

\* What the node does is not seen by start, stop and the loop.
LEMMA EnvironmentIsUnseen ==
  ASSUME Environment
  PROVE  UNCHANGED <<control, pc>>
BY DEF Environment, PostRule, DeleteRule, Close, Traffic, round

\* A step of a worker: it moves, or ends because it is told to.
LEMMA WorkerMoves ==
  ASSUME ControlTypeOK, NEW w \in Workers, Run(w)
  PROVE  /\ UNCHANGED control
         /\ pc[w] # "ended"
         /\ \E next \in Statements : /\ pc' = [pc EXCEPT ![w] = next]
                                     /\ next = "ended" => stopping
<1>1. CASE While(w)
  BY <1>1 DEF While, Goes, Statements
<1>2. CASE List(w)
  BY <1>2 DEF List, Goes, Statements
<1>3. CASE Track(w)
  BY <1>3 DEF Track, Goes, Statements
<1>4. CASE Push(w)
  BY <1>4 DEF Push, Goes, Statements
<1>5. CASE Fails(w)
  BY <1>5 DEF Fails, AfterFailure, Statements
<1>6. CASE Wait(w)
  BY <1>6 DEF Wait, Goes, Statements
<1> QED BY <1>1, <1>2, <1>3, <1>4, <1>5, <1>6 DEF Run
-----------------------------------------------------------------------------
(* The worker goes on *)

\* Where the event is set and cleared, and when the worker must be alive.
THEOREM CollectorInvariant == Spec => []CollectorInv
<1>1. CollectorInv /\ [Next]_vars => CollectorInv'
  <2> SUFFICES ASSUME CollectorInv, [Next]_vars PROVE CollectorInv'
    OBVIOUS
  <2> USE CollectorAssumption DEF CollectorInv
  <2>1. CASE Environment
    BY <2>1, EnvironmentIsUnseen DEF control, ControlTypeOK, GoesOn, Alive
  <2>2. CASE start
    BY <2>2 DEF start, Caller, round, ControlTypeOK, GoesOn, Alive
  <2>3. CASE stop
    BY <2>3 DEF stop, Caller, round, ControlTypeOK, GoesOn, Alive
  <2>4. CASE Clear
    BY <2>4 DEF Clear, Caller, round, ControlTypeOK, GoesOn, Alive
  <2>5. CASE Spawn
    BY <2>5, Spawned DEF Spawn, Caller, ControlTypeOK, GoesOn, Alive, Statements
  <2>6. CASE Join
    BY <2>6 DEF Join, Caller, round, ControlTypeOK, GoesOn, Alive
  <2>7. CASE \E w \in Workers : Run(w)
    BY <2>7, WorkerMoves DEF control, ControlTypeOK, GoesOn, Alive
  <2>8. CASE UNCHANGED vars
    BY <2>8 DEF vars, control, round, ControlTypeOK, GoesOn, Alive
  <2> QED BY <2>1, <2>2, <2>3, <2>4, <2>5, <2>6, <2>7, <2>8 DEF Next, Control
<1> QED BY <1>1, InitEstablishes, PTL DEF Spec

\* Between start and stop the worker lives and is not told to end, whatever the
\* requests and pushes come to and however long a round lasts.
THEOREM CollectorGoesOn == Spec => []KeepsCollecting
<1>1. CollectorInv => KeepsCollecting
  BY DEF CollectorInv, GoesOn, KeepsCollecting
<1> QED BY <1>1, CollectorInvariant, PTL
-----------------------------------------------------------------------------
(* There is one worker *)

LEMMA TimeoutStays ==
  ASSUME ControlTypeOK, [Next]_vars, ~ timed_out'
  PROVE  ~ timed_out
BY EnvironmentIsUnseen, WorkerMoves
   DEF Next, Control, start, stop, Clear, Spawn, Join, vars, control, ControlTypeOK

\* As long as no join has timed out, no worker lives that is not known.
LEMMA OnlyOneInvariant == Spec => []UntilTimeout
<1>1. CollectorInv /\ UntilTimeout /\ [Next]_vars => UntilTimeout'
  <2> SUFFICES ASSUME CollectorInv, UntilTimeout, [Next]_vars, ~ timed_out' PROVE OnlyOne'
    BY DEF UntilTimeout
  <2> USE CollectorAssumption DEF CollectorInv
  <2>2. OnlyOne
    BY TimeoutStays DEF UntilTimeout
  <2>3. CASE Environment
    BY <2>2, <2>3, EnvironmentIsUnseen DEF control, OnlyOne
  <2>4. CASE start
    BY <2>2, <2>4 DEF start, Caller, round, ControlTypeOK, OnlyOne, Alive
  <2>5. CASE stop \/ Clear
    BY <2>2, <2>5 DEF stop, Clear, Caller, round, OnlyOne
  <2>6. CASE Spawn
    BY <2>2, <2>6, Spawned DEF Spawn, Caller, ControlTypeOK, OnlyOne
  <2>7. CASE Join
    BY <2>2, <2>7 DEF Join, Caller, round, ControlTypeOK, OnlyOne, Alive
  <2>8. CASE \E w \in Workers : Run(w)
    BY <2>2, <2>8, WorkerMoves DEF control, ControlTypeOK, OnlyOne
  <2>9. CASE UNCHANGED vars
    BY <2>2, <2>9 DEF vars, control, round, OnlyOne
  <2> QED BY <2>3, <2>4, <2>5, <2>6, <2>7, <2>8, <2>9 DEF Next, Control
<1>2. Init => UntilTimeout
  BY InitEstablishes DEF UntilTimeout
<1> QED BY <1>1, <1>2, InitEstablishes, CollectorInvariant, PTL DEF Spec
-----------------------------------------------------------------------------
(* The arithmetic of the two directions *)

\* What is shown as in and out adds up to what was counted, a single byte excepted.
THEOREM BytesAddUp ==
  ASSUME NEW bytes \in Nat
  PROVE  bytes_in(bytes) + bytes_out(bytes) = IF bytes = 1 THEN 2 ELSE bytes
BY DEF bytes_in, bytes_out

\* More bytes are never shown as fewer in either direction.
THEOREM BytesAreMonotone ==
  ASSUME NEW a \in Nat, NEW b \in Nat, a <= b
  PROVE  bytes_in(a) <= bytes_in(b) /\ bytes_out(a) <= bytes_out(b)
BY DEF bytes_in, bytes_out
-----------------------------------------------------------------------------
(* Sums *)

\* A sum takes the elements of a set one after the other, as they are chosen.
Pick(s) == CHOOSE x \in s : TRUE

IsSum(g, f, S) ==
  g = [s \in SUBSET S |-> IF s = {} THEN 0 ELSE f[Pick(s)] + g[s \ {Pick(s)}]]

Sums(f, S) == CHOOSE g : IsSum(g, f, S)
SumOver(f, S) == Sums(f, S)[S]

LEMMA Picked ==
  ASSUME NEW s, s # {}
  PROVE  Pick(s) \in s
BY DEF Pick

\* Of some subsets of a finite set one contains no other.
LEMMA SmallestSubset ==
  ASSUME NEW S, IsFiniteSet(S), NEW T \in SUBSET (SUBSET S), T # {}
  PROVE  \E t \in T : \A u \in T : u \subseteq t => u = t
<1>1. IsWellFoundedOn(StrictSubsetOrdering(S), SUBSET S)
  BY FS_StrictSubsetOrderingWellFounded, FS_FiniteSubsetsOfFinite
<1>2. PICK t \in T : \A u \in T : ~ (<<u, t>> \in StrictSubsetOrdering(S))
  BY <1>1, WFMin
<1>3. ASSUME NEW u \in T, u \subseteq t, u # t PROVE FALSE
  <2>1. <<u, t>> \in StrictSubsetOrdering(S)
    BY <1>3 DEF StrictSubsetOrdering
  <2> QED BY <1>2, <2>1
<1> QED BY <1>3

\* What a table of sums shows, and how it is recognised.
LEMMA SumTable ==
  ASSUME NEW g, NEW f, NEW S, IsSum(g, f, S)
  PROVE  /\ g = [s \in SUBSET S |-> g[s]]
         /\ g[{}] = 0
         /\ \A s \in SUBSET S : s # {} => /\ Pick(s) \in s
                                          /\ s \ {Pick(s)} \in SUBSET S
                                          /\ g[s] = f[Pick(s)] + g[s \ {Pick(s)}]
<1>1. \A s \in SUBSET S : g[s] = IF s = {} THEN 0 ELSE f[Pick(s)] + g[s \ {Pick(s)}]
  BY DEF IsSum
<1>2. g = [s \in SUBSET S |-> g[s]]
  BY DEF IsSum
<1>3. {} \in SUBSET S
  OBVIOUS
<1> QED BY <1>1, <1>2, <1>3, Picked

LEMMA SumStep ==
  ASSUME NEW g, NEW f, NEW S, IsSum(g, f, S), NEW s \in SUBSET S, s # {}
  PROVE  /\ Pick(s) \in s /\ s \ {Pick(s)} \in SUBSET S
         /\ g[s] = f[Pick(s)] + g[s \ {Pick(s)}]
BY SumTable

LEMMA TableOfSums ==
  ASSUME NEW g, NEW f, NEW S, g = [s \in SUBSET S |-> g[s]], g[{}] = 0,
         \A s \in SUBSET S : s # {} => g[s] = f[Pick(s)] + g[s \ {Pick(s)}]
  PROVE  IsSum(g, f, S)
<1>1. \A s \in SUBSET S : g[s] = IF s = {} THEN 0 ELSE f[Pick(s)] + g[s \ {Pick(s)}]
  OBVIOUS
<1>2. [s \in SUBSET S |-> g[s]] = [s \in SUBSET S |-> IF s = {} THEN 0 ELSE f[Pick(s)] + g[s \ {Pick(s)}]]
  BY <1>1
<1> QED BY <1>2 DEF IsSum

\* Tables of the same sums show the same.
LEMMA SumsAgree ==
  ASSUME NEW S, IsFiniteSet(S), NEW R, NEW f, NEW g, NEW h, IsSum(g, f, S), IsSum(h, f, R), S \subseteq R
  PROVE  \A s \in SUBSET S : g[s] = h[s]
<1> DEFINE T == {s \in SUBSET S : g[s] # h[s]}
<1> SUFFICES ASSUME T # {} PROVE FALSE
  OBVIOUS
<1>0. T \in SUBSET (SUBSET S)
  OBVIOUS
<1> HIDE DEF T
<1>1. PICK t \in T : \A u \in T : u \subseteq t => u = t
  BY <1>0, SmallestSubset
<1>2. t \in SUBSET S /\ t \in SUBSET R /\ g[t] # h[t]
  BY <1>1 DEF T
<1>3. g[{}] = 0 /\ h[{}] = 0
  BY SumTable
<1>8. t # {}
  BY <1>2, <1>3
<1>4. Pick(t) \in t /\ g[t] = f[Pick(t)] + g[t \ {Pick(t)}]
  <2>1. IsSum(g, f, S)
    OBVIOUS
  <2> QED BY ONLY <2>1, <1>2, <1>8, SumStep
<1>5. h[t] = f[Pick(t)] + h[t \ {Pick(t)}]
  <2>1. IsSum(h, f, R)
    OBVIOUS
  <2> QED BY ONLY <2>1, <1>2, <1>8, SumStep
<1> DEFINE u == t \ {Pick(t)}
<1>6. u \notin T /\ u \in SUBSET S
  BY <1>1, <1>2, <1>4
<1>7. g[u] = h[u]
  BY <1>6 DEF T
<1> QED BY <1>2, <1>4, <1>5, <1>7

LEMMA SumsExist ==
  ASSUME NEW S, IsFiniteSet(S), NEW f
  PROVE  IsSum(Sums(f, S), f, S)
<1> DEFINE T == {s \in SUBSET S : ~ \E g : IsSum(g, f, s)}
<1>1. ASSUME T # {} PROVE FALSE
  <2>0. T \in SUBSET (SUBSET S)
    OBVIOUS
  <2> HIDE DEF T
  <2>1. PICK t \in T : \A u \in T : u \subseteq t => u = t
    BY <1>1, <2>0, SmallestSubset
  <2>9. t \in SUBSET S /\ ~ \E g : IsSum(g, f, t)
    BY <2>1 DEF T
  <2>2. ASSUME NEW s \in SUBSET t, s # t PROVE IsSum(Sums(f, s), f, s)
    <3>0. s \notin T /\ s \in SUBSET S
      BY <2>1, <2>2, <2>9
    <3>1. \E g : IsSum(g, f, s)
      BY <3>0 DEF T
    <3> QED BY <3>1 DEF Sums
  <2> DEFINE g == [s \in SUBSET t |->
                     IF s = {} THEN 0
                     ELSE IF s = t THEN f[Pick(t)] + SumOver(f, t \ {Pick(t)})
                     ELSE SumOver(f, s)]
  <2>3. ASSUME NEW s \in SUBSET t, s # {}, s # t
        PROVE  SumOver(f, s) = f[Pick(s)] + SumOver(f, s \ {Pick(s)})
    <3> DEFINE u == s \ {Pick(s)}
    <3>1. Pick(s) \in s /\ u \in SUBSET s /\ u \in SUBSET t /\ u # t
      BY <2>3, Picked
    <3>2. IsSum(Sums(f, s), f, s) /\ IsSum(Sums(f, u), f, u)
      BY <2>2, <2>3, <3>1
    <3>3. Sums(f, s)[s] = f[Pick(s)] + Sums(f, s)[u]
      <4>1. PICK h : h = Sums(f, s)
        OBVIOUS
      <4>2. IsSum(h, f, s) /\ s \in SUBSET s
        BY <3>2, <4>1
      <4>3. h[s] = f[Pick(s)] + h[s \ {Pick(s)}]
        BY <2>3, <4>2, SumTable
      <4> QED BY <4>1, <4>3
    <3>4. IsFiniteSet(u)
      BY <2>9, <3>1, FS_Subset
    <3> HIDE DEF u
    <3>5. Sums(f, u)[u] = Sums(f, s)[u]
      BY <3>1, <3>2, <3>4, SumsAgree
    <3> QED BY <3>3, <3>5 DEF SumOver, u
  <2>4. ASSUME NEW s \in SUBSET t, s # {} PROVE g[s] = f[Pick(s)] + g[s \ {Pick(s)}]
    <3> DEFINE u == s \ {Pick(s)}
    <3>1. Pick(s) \in s /\ u \in SUBSET t /\ u # t
      BY <2>4, Picked
    <3>2. g[u] = SumOver(f, u)
      <4>1. CASE u # {}
        BY <3>1, <4>1
      <4>2. CASE u = {}
        <5>1. IsSum(Sums(f, u), f, u)
          BY <2>2, <3>1
        <5> HIDE DEF u
        <5>2. Sums(f, u)[{}] = 0
          BY <5>1, SumTable
        <5> QED BY <3>1, <4>2, <5>2 DEF SumOver
      <4> QED BY <4>1, <4>2
    <3>3. g[s] = f[Pick(s)] + SumOver(f, u)
      BY <2>3, <2>4
    <3> QED BY <3>2, <3>3
  <2>5. g = [s \in SUBSET t |-> g[s]] /\ g[{}] = 0
    OBVIOUS
  <2> HIDE DEF g
  <2>6. IsSum(g, f, t)
    BY <2>4, <2>5, TableOfSums
  <2> QED BY <2>9, <2>6
<1>2. \E g : IsSum(g, f, S)
  BY <1>1
<1> QED BY <1>2 DEF Sums

LEMMA SumEmpty == ASSUME NEW f PROVE SumOver(f, {}) = 0
<1>1. IsFiniteSet({})
  BY FS_EmptySet
<1>2. PICK g : g = Sums(f, {})
  OBVIOUS
<1>3. IsSum(g, f, {})
  BY <1>1, <1>2, SumsExist
<1>4. g[{}] = 0
  BY <1>3, SumTable
<1> QED BY <1>2, <1>4 DEF SumOver

LEMMA SumPick ==
  ASSUME NEW S, IsFiniteSet(S), NEW f, S # {}
  PROVE  /\ Pick(S) \in S
         /\ SumOver(f, S) = f[Pick(S)] + SumOver(f, S \ {Pick(S)})
<1> DEFINE u == S \ {Pick(S)}
<1>1. IsFiniteSet(u) /\ u \subseteq S
  BY FS_Subset
<1> HIDE DEF u
<1>2. PICK g : g = Sums(f, S)
  OBVIOUS
<1>3. PICK h : h = Sums(f, u)
  OBVIOUS
<1>4. IsSum(g, f, S) /\ IsSum(h, f, u)
  BY <1>1, <1>2, <1>3, SumsExist
<1>5. h[u] = g[u]
  BY <1>1, <1>4, SumsAgree
<1>6. S \in SUBSET S
  OBVIOUS
<1>7. Pick(S) \in S /\ g[S] = f[Pick(S)] + g[u]
  BY <1>4, <1>6, SumStep DEF u
<1> QED BY <1>2, <1>3, <1>5, <1>7 DEF SumOver, u

LEMMA SumNat ==
  ASSUME NEW S, IsFiniteSet(S), NEW f, \A x \in S : f[x] \in Nat
  PROVE  SumOver(f, S) \in Nat
<1> DEFINE T == {s \in SUBSET S : SumOver(f, s) \notin Nat}
<1> SUFFICES ASSUME T # {} PROVE FALSE
  OBVIOUS
<1>1. T \in SUBSET (SUBSET S)
  OBVIOUS
<1> HIDE DEF T
<1>2. PICK t \in T : \A u \in T : u \subseteq t => u = t
  BY <1>1, SmallestSubset
<1>3. t \in SUBSET S /\ SumOver(f, t) \notin Nat /\ IsFiniteSet(t)
  BY <1>2, FS_Subset DEF T
<1>4. t # {}
  BY <1>3, SumEmpty
<1> DEFINE u == t \ {Pick(t)}
<1>5. Pick(t) \in t /\ SumOver(f, t) = f[Pick(t)] + SumOver(f, u)
  BY <1>3, <1>4, SumPick
<1>6. u \subseteq t /\ u # t /\ u \in SUBSET S
  BY <1>3, <1>5
<1> HIDE DEF u
<1>7. SumOver(f, u) \in Nat
  BY <1>2, <1>6 DEF T
<1>8. f[Pick(t)] \in Nat
  BY <1>3, <1>5
<1> QED BY <1>3, <1>5, <1>7, <1>8

\* The order in which the elements are taken does not matter.
LEMMA SumSplit ==
  ASSUME NEW S, IsFiniteSet(S), NEW f, \A x \in S : f[x] \in Nat, NEW x \in S
  PROVE  SumOver(f, S) = f[x] + SumOver(f, S \ {x})
<1> DEFINE T == {s \in SUBSET S : \E y \in s : SumOver(f, s) # f[y] + SumOver(f, s \ {y})}
<1> SUFFICES ASSUME T # {} PROVE FALSE
  OBVIOUS
<1>1. T \in SUBSET (SUBSET S)
  OBVIOUS
<1> HIDE DEF T
<1>2. PICK t \in T : \A u \in T : u \subseteq t => u = t
  BY <1>1, SmallestSubset
<1>3. t \in SUBSET S
  BY <1>2 DEF T
<1>4. PICK y \in t : SumOver(f, t) # f[y] + SumOver(f, t \ {y})
  BY <1>2 DEF T
<1>5. PICK p : p = Pick(t)
  OBVIOUS
<1> DEFINE u == t \ {p}
           v == t \ {y}
           w == t \ {p, y}
<1>6. IsFiniteSet(t) /\ IsFiniteSet(w)
  BY <1>3, FS_Subset
<1>7. p \in t /\ SumOver(f, t) = f[p] + SumOver(f, u)
  BY <1>4, <1>5, <1>6, SumPick
<1>8. p # y
  BY <1>4, <1>7
<1>9. /\ u \in SUBSET S /\ u \notin T /\ y \in u /\ u \ {y} = w
      /\ v \in SUBSET S /\ v \notin T /\ p \in v /\ v \ {p} = w
  BY <1>2, <1>3, <1>7, <1>8
<1> HIDE DEF u, v, w
<1>10. SumOver(f, u) = f[y] + SumOver(f, w)
  BY <1>9 DEF T
<1>11. SumOver(f, v) = f[p] + SumOver(f, w)
  BY <1>9 DEF T
<1>12. f[p] \in Nat /\ f[y] \in Nat
  BY <1>3, <1>4, <1>7
<1>13. \A z \in w : f[z] \in Nat
  BY <1>3 DEF w
<1>14. SumOver(f, w) \in Nat
  BY <1>6, <1>13, SumNat
<1>15. SumOver(f, t) # f[y] + SumOver(f, v)
  BY <1>4 DEF v
<1> QED BY <1>7, <1>10, <1>11, <1>12, <1>14, <1>15

\* Larger summands make no smaller sum.
LEMMA SumAtMost ==
  ASSUME NEW S, IsFiniteSet(S), NEW f, NEW h,
         \A x \in S : f[x] \in Nat /\ h[x] \in Nat /\ f[x] <= h[x]
  PROVE  SumOver(f, S) <= SumOver(h, S)
<1> DEFINE T == {s \in SUBSET S : ~ (SumOver(f, s) <= SumOver(h, s))}
<1> SUFFICES ASSUME T # {} PROVE FALSE
  OBVIOUS
<1>1. T \in SUBSET (SUBSET S)
  OBVIOUS
<1> HIDE DEF T
<1>2. PICK t \in T : \A u \in T : u \subseteq t => u = t
  BY <1>1, SmallestSubset
<1>3. t \in SUBSET S /\ ~ (SumOver(f, t) <= SumOver(h, t)) /\ IsFiniteSet(t)
  BY <1>2, FS_Subset DEF T
<1>4. t # {}
  BY <1>3, SumEmpty
<1>5. PICK p : p = Pick(t)
  OBVIOUS
<1> DEFINE u == t \ {p}
<1>6. p \in t /\ SumOver(f, t) = f[p] + SumOver(f, u)
  BY <1>3, <1>4, <1>5, SumPick
<1>7. SumOver(h, t) = h[p] + SumOver(h, u)
  BY <1>3, <1>4, <1>5, SumPick
<1>8. u \subseteq t /\ u # t /\ u \in SUBSET S /\ IsFiniteSet(u)
  BY <1>3, <1>6, FS_Subset
<1> HIDE DEF u
<1>9. SumOver(f, u) <= SumOver(h, u)
  BY <1>2, <1>8 DEF T
<1>10. SumOver(f, u) \in Nat /\ SumOver(h, u) \in Nat
  BY <1>8, SumNat
<1>11. f[p] \in Nat /\ h[p] \in Nat /\ f[p] <= h[p]
  BY <1>3, <1>6
<1> QED BY <1>3, <1>6, <1>7, <1>9, <1>10, <1>11

\* The same summands make the same sum, and one that is raised raises the sum.
LEMMA SumSame ==
  ASSUME NEW S, IsFiniteSet(S), NEW f, NEW h,
         \A x \in S : f[x] \in Nat /\ h[x] = f[x]
  PROVE  SumOver(h, S) = SumOver(f, S)
<1>1. SumOver(f, S) <= SumOver(h, S)
  BY SumAtMost
<1>2. SumOver(h, S) <= SumOver(f, S)
  BY SumAtMost
<1>3. SumOver(f, S) \in Nat /\ SumOver(h, S) \in Nat
  BY SumNat
<1> QED BY <1>1, <1>2, <1>3

LEMMA SumRaised ==
  ASSUME NEW S, IsFiniteSet(S), NEW f, NEW h, NEW x \in S, NEW b \in Nat,
         \A y \in S : f[y] \in Nat,
         \A y \in S : h[y] = IF y = x THEN f[y] + b ELSE f[y]
  PROVE  SumOver(h, S) = SumOver(f, S) + b
<1> DEFINE u == S \ {x}
<1>1. IsFiniteSet(u)
  BY FS_Subset
<1>2. SumOver(f, S) = f[x] + SumOver(f, u)
  BY SumSplit
<1>3. \A y \in S : h[y] \in Nat
  OBVIOUS
<1>4. SumOver(h, S) = h[x] + SumOver(h, u)
  BY <1>3, SumSplit
<1>5. SumOver(h, u) = SumOver(f, u)
  BY <1>1, SumSame
<1>6. SumOver(f, u) \in Nat
  BY <1>1, SumNat
<1> QED BY <1>2, <1>4, <1>5, <1>6

\* The sums of the model are such sums.
LEMMA TotalIsSum ==
  ASSUME NEW counters, IsFiniteSet(DOMAIN counters), NEW field
  PROVE  Total(counters, field)
           = SumOver([e \in DOMAIN counters |-> counters[e][field]], DOMAIN counters)
<1> DEFINE D == DOMAIN counters
           f == [e \in D |-> counters[e][field]]
           Table(g) == g = [s \in SUBSET D |->
                              IF s = {} THEN 0
                              ELSE counters[CHOOSE x \in s : TRUE][field]
                                     + g[s \ {CHOOSE x \in s : TRUE}]]
           G == CHOOSE g : Table(g)
<1>1. Total(counters, field) = G[D]
  BY DEF Total, MapThenSumSet, MapThenFoldSet
<1>2. ASSUME NEW g PROVE IsSum(g, f, D) <=> Table(g)
  <2>1. ASSUME NEW s \in SUBSET D, s # {} PROVE f[Pick(s)] = counters[CHOOSE x \in s : TRUE][field]
    BY <2>1, Picked DEF Pick
  <2>2. [s \in SUBSET D |-> IF s = {} THEN 0 ELSE f[Pick(s)] + g[s \ {Pick(s)}]]
          = [s \in SUBSET D |-> IF s = {} THEN 0
                                ELSE counters[CHOOSE x \in s : TRUE][field]
                                       + g[s \ {CHOOSE x \in s : TRUE}]]
    <3> HIDE DEF f
    <3> QED BY <2>1 DEF Pick
  <2> HIDE DEF f
  <2> QED BY <2>2 DEF IsSum
<1> HIDE DEF f, Table
<1>3. IsSum(Sums(f, D), f, D)
  BY SumsExist
<1>4. IsSum(G, f, D)
  BY <1>2, <1>3
<1> HIDE DEF G
<1>5. D \in SUBSET D
  OBVIOUS
<1>6. PICK h : h = Sums(f, D)
  OBVIOUS
<1>7. G[D] = h[D]
  BY <1>3, <1>4, <1>5, <1>6, SumsAgree
<1> QED BY <1>1, <1>6, <1>7 DEF SumOver, f

LEMMA TrackedIsSum ==
  ASSUME NEW table, IsFiniteSet(DOMAIN table), NEW service, NEW field
  PROVE  Tracked(table, service, field)
           = SumOver([f \in entries_of(table, service) |-> table[f][field]],
                     entries_of(table, service))
<1> DEFINE D == entries_of(table, service)
           v == [f \in D |-> table[f][field]]
           Table(g) == g = [s \in SUBSET D |->
                              IF s = {} THEN 0
                              ELSE table[CHOOSE x \in s : TRUE][field]
                                     + g[s \ {CHOOSE x \in s : TRUE}]]
           G == CHOOSE g : Table(g)
<1>1. Tracked(table, service, field) = G[D]
  BY DEF Tracked, MapThenSumSet, MapThenFoldSet
<1>8. IsFiniteSet(D)
  BY FS_Subset DEF entries_of
<1> HIDE DEF D
<1>2. ASSUME NEW g PROVE IsSum(g, v, D) <=> Table(g)
  <2>1. ASSUME NEW s \in SUBSET D, s # {} PROVE v[Pick(s)] = table[CHOOSE x \in s : TRUE][field]
    BY <2>1, Picked DEF Pick
  <2>2. [s \in SUBSET D |-> IF s = {} THEN 0 ELSE v[Pick(s)] + g[s \ {Pick(s)}]]
          = [s \in SUBSET D |-> IF s = {} THEN 0
                                ELSE table[CHOOSE x \in s : TRUE][field]
                                       + g[s \ {CHOOSE x \in s : TRUE}]]
    <3> HIDE DEF v
    <3> QED BY <2>1 DEF Pick
  <2> HIDE DEF v
  <2> QED BY <2>2 DEF IsSum
<1> HIDE DEF v, Table
<1>3. IsSum(Sums(v, D), v, D)
  BY <1>8, SumsExist
<1>4. IsSum(G, v, D)
  BY <1>2, <1>3
<1> HIDE DEF G
<1>5. D \in SUBSET D
  OBVIOUS
<1>6. PICK h : h = Sums(v, D)
  OBVIOUS
<1>7. G[D] = h[D]
  BY <1>3, <1>4, <1>5, <1>6, <1>8, SumsAgree
<1> QED BY <1>1, <1>6, <1>7 DEF SumOver, v, D

\* A part of the summands makes no larger sum.
LEMMA SumPart ==
  ASSUME NEW R, IsFiniteSet(R), NEW S \in SUBSET R, NEW f, \A x \in R : f[x] \in Nat
  PROVE  SumOver(f, S) <= SumOver(f, R)
<1> DEFINE T == {s \in SUBSET R : S \subseteq s /\ ~ (SumOver(f, S) <= SumOver(f, s))}
<1> SUFFICES ASSUME T # {} PROVE FALSE
  OBVIOUS
<1>1. T \in SUBSET (SUBSET R)
  OBVIOUS
<1> HIDE DEF T
<1>2. PICK t \in T : \A u \in T : u \subseteq t => u = t
  BY <1>1, SmallestSubset
<1>3. t \in SUBSET R /\ S \subseteq t /\ ~ (SumOver(f, S) <= SumOver(f, t)) /\ IsFiniteSet(t)
  BY <1>2, FS_Subset DEF T
<1>4. IsFiniteSet(S) /\ SumOver(f, S) \in Nat
  BY FS_Subset, SumNat
<1>5. PICK x \in t : x \notin S
  BY <1>3, <1>4
<1> DEFINE u == t \ {x}
<1>6. SumOver(f, t) = f[x] + SumOver(f, u)
  BY <1>3, SumSplit
<1>7. u \in SUBSET R /\ S \subseteq u /\ u \subseteq t /\ u # t /\ IsFiniteSet(u)
  BY <1>3, <1>5, FS_Subset
<1> HIDE DEF u
<1>8. SumOver(f, S) <= SumOver(f, u)
  BY <1>2, <1>7 DEF T
<1>9. SumOver(f, u) \in Nat /\ f[x] \in Nat
  BY <1>3, <1>7, SumNat
<1> QED BY <1>3, <1>4, <1>6, <1>8, <1>9
-----------------------------------------------------------------------------
(* What the counters of a rule and its connections come to *)

Counted == [packets : Nat, bytes : Nat]
Rules == [life : Nat, counters : [Endpoints -> Counted]]
Entries == [service : Listeners, established : BOOLEAN, packets : Nat, bytes : Nat]

Shown(l) == Total(rules[l].counters, "bytes")
Seen(l) == Tracked(conntrack, l, "bytes")

LEMMA TotalNat ==
  ASSUME NEW counters \in [Endpoints -> Counted]
  PROVE  Total(counters, "bytes") \in Nat
<1> DEFINE f == [e \in Endpoints |-> counters[e].bytes]
<1>1. DOMAIN counters = Endpoints /\ IsFiniteSet(Endpoints)
  BY CollectorAssumption
<1>2. Total(counters, "bytes") = SumOver(f, Endpoints)
  BY <1>1, TotalIsSum
<1>3. \A e \in Endpoints : f[e] \in Nat
  BY DEF Counted
<1> HIDE DEF f
<1> QED BY <1>1, <1>2, <1>3, SumNat

LEMMA TotalRaised ==
  ASSUME NEW counters \in [Endpoints -> Counted], NEW e \in Endpoints, NEW b \in Counted
  PROVE  LET after == [counters EXCEPT ![e] = Plus(@, b)]
         IN  /\ after \in [Endpoints -> Counted]
             /\ Total(after, "bytes") = Total(counters, "bytes") + b.bytes
<1> DEFINE after == [counters EXCEPT ![e] = Plus(@, b)]
           f == [x \in Endpoints |-> counters[x].bytes]
           h == [x \in Endpoints |-> after[x].bytes]
<1>1. DOMAIN counters = Endpoints /\ IsFiniteSet(Endpoints)
  BY CollectorAssumption
<1>2. Total(counters, "bytes") = SumOver(f, Endpoints)
  BY <1>1, TotalIsSum
<1>3. after \in [Endpoints -> Counted]
  BY DEF Counted, Plus
<1>4. \A x \in Endpoints : h[x] = IF x = e THEN f[x] + b.bytes ELSE f[x]
  BY DEF Plus
<1> HIDE DEF after
<1>5. Total(after, "bytes") = SumOver(h, Endpoints)
  BY <1>1, <1>3, TotalIsSum
<1>6. (\A x \in Endpoints : f[x] \in Nat) /\ b.bytes \in Nat
  BY DEF Counted
<1> HIDE DEF f, h
<1>7. SumOver(h, Endpoints) = SumOver(f, Endpoints) + b.bytes
  BY <1>1, <1>4, <1>6, SumRaised
<1> QED BY <1>2, <1>3, <1>5, <1>7 DEF after

Table == [Flows -> Entries \cup {None}]

LEMMA TrackedAs ==
  ASSUME NEW table \in Table, NEW l, NEW S, S = entries_of(table, l),
         NEW f, \A x \in S : f[x] = table[x].bytes
  PROVE  /\ IsFiniteSet(S) /\ \A x \in S : f[x] \in Nat
         /\ Tracked(table, l, "bytes") = SumOver(f, S)
         /\ Tracked(table, l, "bytes") \in Nat
<1> DEFINE h == [x \in S |-> table[x].bytes]
<1>1. DOMAIN table = Flows /\ IsFiniteSet(Flows)
  BY CollectorAssumption DEF Table
<1>2. IsFiniteSet(S)
  BY <1>1, FS_Subset DEF entries_of
<1>3. Tracked(table, l, "bytes") = SumOver(h, S)
  BY <1>1, TrackedIsSum
<1>4. \A x \in S : h[x] \in Nat /\ f[x] = h[x]
  BY DEF entries_of, Table, Entries
<1> HIDE DEF h
<1>5. SumOver(f, S) = SumOver(h, S)
  BY <1>2, <1>4, SumSame
<1>6. SumOver(h, S) \in Nat
  BY <1>2, <1>4, SumNat
<1> QED BY <1>2, <1>3, <1>4, <1>5, <1>6

LEMMA NothingTracked ==
  ASSUME NEW table \in Table, NEW l, entries_of(table, l) = {}
  PROVE  Tracked(table, l, "bytes") = 0
<1> PICK f : f = [x \in {} |-> 0]
  OBVIOUS
<1>1. Tracked(table, l, "bytes") = SumOver(f, {})
  BY TrackedAs
<1> QED BY <1>1, SumEmpty

\* Fewer entries with the same figures come to no more.
LEMMA FewerTracked ==
  ASSUME NEW table \in Table, NEW after \in Table, NEW l,
         entries_of(after, l) \subseteq entries_of(table, l),
         \A x \in entries_of(after, l) : after[x].bytes = table[x].bytes
  PROVE  Tracked(after, l, "bytes") <= Tracked(table, l, "bytes")
<1>1. PICK S : S = entries_of(table, l)
  OBVIOUS
<1>2. PICK R : R = entries_of(after, l)
  OBVIOUS
<1>3. PICK f : f = [x \in S |-> table[x].bytes]
  OBVIOUS
<1>4. /\ IsFiniteSet(S) /\ \A x \in S : f[x] \in Nat
      /\ Tracked(table, l, "bytes") = SumOver(f, S)
  BY <1>1, <1>3, TrackedAs
<1>5. Tracked(after, l, "bytes") = SumOver(f, R)
  BY <1>1, <1>2, <1>3, TrackedAs
<1>6. R \in SUBSET S
  BY <1>1, <1>2
<1> QED BY <1>4, <1>5, <1>6, SumPart

\* A burst counts for one connection.
LEMMA BurstTracked ==
  ASSUME NEW table \in Table, NEW l \in Listeners, NEW x \in Flows, NEW b \in Counted,
         table[x] # None => table[x].service = l,
         NEW after \in Table,
         after[x] # None, after[x].service = l,
         after[x].bytes = (IF table[x] = None THEN 0 ELSE table[x].bytes) + b.bytes,
         \A y \in Flows \ {x} : after[y] = table[y]
  PROVE  /\ Tracked(after, l, "bytes") = Tracked(table, l, "bytes") + b.bytes
         /\ \A k \in Listeners \ {l} : Tracked(after, k, "bytes") <= Tracked(table, k, "bytes")
<1>0. DOMAIN table = Flows /\ DOMAIN after = Flows
  BY DEF Table
<1>1. ASSUME NEW k \in Listeners \ {l}
      PROVE  Tracked(after, k, "bytes") <= Tracked(table, k, "bytes")
  <2>1. /\ entries_of(after, k) \subseteq entries_of(table, k)
        /\ \A y \in entries_of(after, k) : after[y].bytes = table[y].bytes
    BY <1>0 DEF entries_of
  <2> QED BY <2>1, FewerTracked
<1>2. PICK S : S = entries_of(table, l)
  OBVIOUS
<1>3. PICK R : R = entries_of(after, l)
  OBVIOUS
<1>4. PICK f : f = [y \in Flows |-> table[y].bytes]
  OBVIOUS
<1>5. PICK h : h = [y \in Flows |-> after[y].bytes]
  OBVIOUS
<1>6. S \subseteq Flows /\ R \subseteq Flows /\ x \in R /\ S \ {x} = R \ {x}
  BY <1>0, <1>2, <1>3 DEF entries_of
<1>7. /\ IsFiniteSet(S) /\ \A y \in S : f[y] \in Nat
      /\ Tracked(table, l, "bytes") = SumOver(f, S)
  BY <1>2, <1>4, <1>6, TrackedAs
<1>8. /\ IsFiniteSet(R) /\ \A y \in R : h[y] \in Nat
      /\ Tracked(after, l, "bytes") = SumOver(h, R)
  <2>1. \A y \in R : h[y] = after[y].bytes
    BY <1>5, <1>6
  <2>2. after \in Table
    OBVIOUS
  <2> QED BY ONLY <2>1, <2>2, <1>3, TrackedAs
<1> DEFINE u == R \ {x}
<1>9. SumOver(h, R) = h[x] + SumOver(h, u)
  BY <1>6, <1>8, SumSplit
<1>10. IsFiniteSet(u) /\ (\A y \in u : f[y] \in Nat /\ h[y] = f[y])
  <2>1. IsFiniteSet(u)
    BY <1>8, FS_Subset
  <2>2. ASSUME NEW y \in u PROVE f[y] \in Nat /\ h[y] = f[y]
    <3>1. y \in S /\ y \in Flows \ {x}
      BY <1>6
    <3> QED BY <3>1, <1>4, <1>5, <1>7
  <2> QED BY <2>1, <2>2
<1>11. SumOver(h, u) = SumOver(f, u) /\ SumOver(f, u) \in Nat
  BY <1>10, SumSame, SumNat
<1>12. SumOver(f, S) + b.bytes = h[x] + SumOver(f, u)
  <2>1. CASE table[x] = None
    <3>1. x \notin S
      BY <2>1, <1>2 DEF entries_of
    <3>2. S = u
      BY <3>1, <1>6
    <3>3. h[x] = b.bytes
      BY <2>1, <1>5 DEF Counted
    <3>4. b.bytes \in Nat
      BY DEF Counted
    <3> HIDE DEF u
    <3> QED BY <3>2, <3>3, <3>4, <1>11
  <2>2. CASE table[x] # None
    <3>1. x \in S
      BY <2>2, <1>0, <1>2 DEF entries_of
    <3>2. S \ {x} = u
      BY <1>6
    <3>3. SumOver(f, S) = f[x] + SumOver(f, S \ {x})
      BY <3>1, <1>7, SumSplit
    <3>4. h[x] = f[x] + b.bytes /\ b.bytes \in Nat /\ f[x] \in Nat
      BY <2>2, <3>1, <1>4, <1>5, <1>7 DEF Counted
    <3> HIDE DEF u
    <3> QED BY <3>2, <3>3, <3>4, <1>11
  <2> QED BY <2>1, <2>2
<1> HIDE DEF u
<1>13. Tracked(after, l, "bytes") = Tracked(table, l, "bytes") + b.bytes
  BY <1>7, <1>8, <1>9, <1>11, <1>12
<1> QED BY <1>1, <1>13
-----------------------------------------------------------------------------
(* What an invariant has to say of the figures *)

Spent == [bursts : Nat, posts : Nat, failures : Nat]

CountTypeOK == /\ rules \in [Listeners -> Rules \cup {None}]
               /\ conntrack \in Table
               /\ spent \in Spent

\* The connections of a rule have counted no more than the rule.
Counts == \A l \in Listeners : rules[l] # None => rules[l].life <= spent.posts /\ Seen(l) <= Shown(l)

AtMost(stats, bytes) == /\ stats.bytes_in \in Nat /\ stats.bytes_in <= bytes_in(bytes)
                        /\ stats.bytes_out \in Nat /\ stats.bytes_out <= bytes_out(bytes)

\* A rule that was read earlier is of an earlier life, or has counted no more.
ReadEarlier(l, rule) ==
  /\ rule.life <= spent.posts
  /\ rules[l] # None => \/ rule.life < rules[l].life
                        \/ rule.life = rules[l].life /\ Total(rule.counters, "bytes") <= Shown(l)

IsFigures(figures) == /\ figures.life \in Nat
                      /\ figures.stats.bytes_in \in Nat /\ figures.stats.bytes_out \in Nat

\* Nor do figures show more of this life than the rule has counted.
NotAhead(l, figures) ==
  /\ IsFigures(figures) /\ figures.life <= spent.posts
  /\ rules[l] # None => \/ figures.life < rules[l].life
                        \/ figures.life = rules[l].life /\ AtMost(figures.stats, Shown(l))

ListedInv ==
  /\ listed \in [Workers -> [Listeners -> Rules \cup {None}]]
  /\ \A w \in Workers, l \in Listeners : listed[w][l] # None => ReadEarlier(l, listed[w][l])

RecordsInv ==
  /\ DOMAIN records = Workers
  /\ \A w \in Workers : /\ DOMAIN records[w] \subseteq Listeners
                        /\ \A l \in DOMAIN records[w] : NotAhead(l, records[w][l])

ReportedInv == /\ reported[LB] = None
               /\ \A l \in Listeners : reported[l] # None => NotAhead(l, reported[l])

CountInv == CountTypeOK /\ Counts /\ ListedInv /\ RecordsInv /\ ReportedInv

\* What every step does to the rules: one that stays counts on, and one that comes
\* is of a life that has not been.
Grows == /\ spent'.posts \in Nat /\ spent.posts <= spent'.posts
         /\ \A l \in Listeners : rules'[l] # None =>
              \/ rules'[l].life \in Nat /\ spent.posts < rules'[l].life
              \/ /\ rules[l] # None /\ rules'[l].life = rules[l].life
                 /\ Shown(l)' \in Nat /\ Shown(l) <= Shown(l)'
-----------------------------------------------------------------------------
LEMMA ShownNat ==
  ASSUME CountTypeOK, NEW l \in Listeners, rules[l] # None
  PROVE  /\ rules[l] \in Rules /\ rules[l].life \in Nat
         /\ rules[l].counters \in [Endpoints -> Counted]
         /\ Shown(l) \in Nat
<1>1. rules[l] \in Rules
  BY DEF CountTypeOK
<1>2. rules[l].life \in Nat /\ rules[l].counters \in [Endpoints -> Counted]
  BY <1>1 DEF Rules
<1> QED BY <1>1, <1>2, TotalNat DEF Shown

\* Figures that were not ahead are not ahead when the rules have gone on.
LEMMA StaysBehind ==
  ASSUME CountTypeOK, Grows, NEW l \in Listeners, NEW figures, NotAhead(l, figures)
  PROVE  /\ IsFigures(figures) /\ figures.life <= spent'.posts
         /\ rules'[l] # None => \/ figures.life < rules'[l].life
                                \/ figures.life = rules'[l].life /\ AtMost(figures.stats, Shown(l)')
<1>1. IsFigures(figures) /\ figures.life <= spent.posts /\ figures.life \in Nat
  BY DEF NotAhead, IsFigures
<1>2. spent.posts \in Nat /\ spent'.posts \in Nat /\ spent.posts <= spent'.posts
  BY DEF CountTypeOK, Spent, Grows
<1>3. ASSUME rules'[l] # None, rules[l] # None, rules'[l].life = rules[l].life,
             figures.life = rules[l].life
      PROVE  AtMost(figures.stats, Shown(l)')
  <2>1. AtMost(figures.stats, Shown(l))
    BY <1>3, ShownNat DEF NotAhead
  <2>2. Shown(l) \in Nat
    BY <1>3, ShownNat
  <2>3. CASE Shown(l)' \in Nat /\ Shown(l) <= Shown(l)'
    <3>1. PICK m : m = Shown(l)'
      OBVIOUS
    <3>2. PICK n : n = Shown(l)
      OBVIOUS
    <3>3. bytes_in(n) <= bytes_in(m) /\ bytes_out(n) <= bytes_out(m)
      BY <2>2, <2>3, <3>1, <3>2, BytesAreMonotone
    <3>4. m \in Nat /\ n \in Nat /\ AtMost(figures.stats, n)
      BY <2>1, <2>2, <2>3, <3>1, <3>2
    <3>5. bytes_in(n) \in Int /\ bytes_in(m) \in Int /\ bytes_out(n) \in Int /\ bytes_out(m) \in Int
      BY <3>4 DEF bytes_in, bytes_out
    <3>6. AtMost(figures.stats, m)
      BY <3>3, <3>4, <3>5 DEF AtMost
    <3> QED BY <3>1, <3>6
  <2>4. CASE rules'[l].life \in Nat /\ spent.posts < rules'[l].life
    BY <2>4, <1>1, <1>2, <1>3
  <2> QED BY <1>3, <2>3, <2>4 DEF Grows
<1>4. ASSUME rules'[l] # None
      PROVE  \/ figures.life < rules'[l].life
             \/ figures.life = rules'[l].life /\ AtMost(figures.stats, Shown(l)')
  <2>1. CASE rules'[l].life \in Nat /\ spent.posts < rules'[l].life
    BY <2>1, <1>1, <1>2
  <2>2. CASE rules[l] # None /\ rules'[l].life = rules[l].life
    BY <2>2, <1>3, <1>4 DEF NotAhead
  <2> QED BY <1>4, <2>1, <2>2 DEF Grows
<1>5. figures.life <= spent'.posts
  BY <1>1, <1>2
<1> QED BY <1>1, <1>4, <1>5

LEMMA StaysRead ==
  ASSUME CountTypeOK, Grows, NEW l \in Listeners, NEW rule \in Rules, ReadEarlier(l, rule)
  PROVE  /\ rule.life <= spent'.posts
         /\ rules'[l] # None => \/ rule.life < rules'[l].life
                                \/ /\ rule.life = rules'[l].life
                                   /\ Total(rule.counters, "bytes") <= Shown(l)'
<1>1. rule.life <= spent.posts /\ rule.life \in Nat /\ rule.counters \in [Endpoints -> Counted]
  BY DEF ReadEarlier, Rules
<1>2. spent.posts \in Nat /\ spent'.posts \in Nat /\ spent.posts <= spent'.posts
  BY DEF CountTypeOK, Spent, Grows
<1>3. PICK n : n = Total(rule.counters, "bytes")
  OBVIOUS
<1>4. n \in Nat
  BY <1>1, <1>3, TotalNat
<1>5. ASSUME rules'[l] # None
      PROVE  \/ rule.life < rules'[l].life
             \/ rule.life = rules'[l].life /\ n <= Shown(l)'
  <2>1. CASE rules'[l].life \in Nat /\ spent.posts < rules'[l].life
    BY <2>1, <1>1, <1>2
  <2>2. CASE /\ rules[l] # None /\ rules'[l].life = rules[l].life
             /\ Shown(l)' \in Nat /\ Shown(l) <= Shown(l)'
    <3>1. Shown(l) \in Nat
      BY <2>2, ShownNat
    <3>2. PICK a, b : a = Shown(l) /\ b = Shown(l)'
      OBVIOUS
    <3>3. n <= a => n <= b
      BY <1>4, <2>2, <3>1, <3>2
    <3>4. rule.life < rules[l].life \/ (rule.life = rules[l].life /\ n <= a)
      BY <2>2, <1>3, <3>2 DEF ReadEarlier
    <3> QED BY <2>2, <3>2, <3>3, <3>4
  <2> QED BY <1>5, <2>1, <2>2 DEF Grows
<1>6. rule.life <= spent'.posts
  BY <1>1, <1>2
<1> QED BY <1>3, <1>5, <1>6
-----------------------------------------------------------------------------
(* The node *)

\* Without the connections of the rule of l nothing is tracked for it.
LEMMA PurgedTable ==
  ASSUME ~ FlowsOutlive, conntrack \in Table, NEW l \in Listeners, NEW after, after = Purged(l)
  PROVE  /\ after \in Table
         /\ Tracked(after, l, "bytes") = 0
         /\ \A k \in Listeners : Tracked(after, k, "bytes") <= Tracked(conntrack, k, "bytes")
<1>1. after \in Table
  BY DEF Purged, Table
<1>2. DOMAIN after = Flows /\ DOMAIN conntrack = Flows
  BY DEF Purged, Table
<1>3. entries_of(after, l) = {}
  BY <1>2 DEF Purged, entries_of
<1>4. ASSUME NEW k \in Listeners
      PROVE  Tracked(after, k, "bytes") <= Tracked(conntrack, k, "bytes")
  <2>1. /\ entries_of(after, k) \subseteq entries_of(conntrack, k)
        /\ \A x \in entries_of(after, k) : after[x].bytes = conntrack[x].bytes
    BY <1>2 DEF Purged, entries_of
  <2> QED BY <1>1, <2>1, FewerTracked
<1> QED BY <1>1, <1>3, <1>4, NothingTracked

\* A rule goes on as it was.
LEMMA GoesOnAsItWas ==
  ASSUME CountTypeOK, NEW l \in Listeners, rules[l] # None, rules'[l] = rules[l]
  PROVE  Shown(l)' \in Nat /\ Shown(l)' = Shown(l)
BY ShownNat DEF Shown

LEMMA SeenNat == CountTypeOK => \A l \in Listeners : Seen(l) \in Nat
<1> SUFFICES ASSUME CountTypeOK, NEW l \in Listeners PROVE Seen(l) \in Nat
  OBVIOUS
<1>1. conntrack \in Table
  BY DEF CountTypeOK
<1>2. PICK S : S = entries_of(conntrack, l)
  OBVIOUS
<1>3. PICK f : f = [x \in S |-> conntrack[x].bytes]
  OBVIOUS
<1>4. \A x \in S : f[x] = conntrack[x].bytes
  BY <1>3
<1>5. Tracked(conntrack, l, "bytes") \in Nat
  BY ONLY <1>1, <1>2, <1>4, TrackedAs
<1> QED BY <1>5 DEF Seen

LEMMA SeenNatNext == CountTypeOK' => (\A l \in Listeners : Seen(l) \in Nat)'
BY SeenNat, PTL

LEMMA PostGrows ==
  ASSUME ~ FlowsOutlive, CountTypeOK, Counts, NEW l \in Listeners, PostRule(l)
  PROVE  CountTypeOK' /\ Counts' /\ Grows
<1> DEFINE new == [life |-> spent.posts + 1, counters |-> [e \in Endpoints |-> Zero]]
<1>1. /\ rules' = [rules EXCEPT ![l] = new] /\ conntrack' = Purged(l)
      /\ spent'.posts = spent.posts + 1 /\ spent' \in Spent
  BY DEF PostRule, CountTypeOK, Spent
<1>2. spent.posts \in Nat /\ spent'.posts \in Nat
  BY <1>1 DEF CountTypeOK, Spent
<1>3. new \in Rules
  BY <1>2 DEF Rules, Counted, Zero
<1>4. /\ conntrack' \in Table /\ Tracked(conntrack', l, "bytes") = 0
      /\ \A k \in Listeners : Tracked(conntrack', k, "bytes") <= Tracked(conntrack, k, "bytes")
  BY <1>1, PurgedTable DEF CountTypeOK
<1> HIDE DEF new
<1>5. /\ rules' \in [Listeners -> Rules \cup {None}]
      /\ rules'[l] = new /\ \A k \in Listeners \ {l} : rules'[k] = rules[k]
  BY <1>1, <1>3 DEF CountTypeOK
<1>6. CountTypeOK'
  BY <1>1, <1>4, <1>5 DEF CountTypeOK
<1>7. Shown(l)' \in Nat /\ new.life = spent.posts + 1
  <2>1. new.counters \in [Endpoints -> Counted]
    BY <1>3 DEF Rules
  <2>2. Shown(l)' = Total(new.counters, "bytes")
    BY <1>5 DEF Shown
  <2> QED BY <2>1, <2>2, TotalNat DEF new
<1>8. ASSUME NEW k \in Listeners, rules'[k] # None, k # l
      PROVE  /\ rules[k] # None /\ rules'[k].life = rules[k].life
             /\ Shown(k)' \in Nat /\ Shown(k)' = Shown(k)
  <2>1. rules'[k] = rules[k] /\ rules[k] # None
    BY <1>5, <1>8
  <2> QED BY <2>1, GoesOnAsItWas
<1>9. ASSUME NEW k \in Listeners, rules'[k] # None
      PROVE  rules'[k].life <= spent'.posts /\ Seen(k)' <= Shown(k)'
  <2>1. CASE k = l
    <3>1. Seen(k)' = 0
      BY <2>1, <1>4 DEF Seen
    <3> QED BY <2>1, <3>1, <1>1, <1>2, <1>5, <1>7
  <2>2. CASE k # l
    <3>1. rules[k] # None /\ rules'[k].life = rules[k].life /\ Shown(k)' \in Nat /\ Shown(k)' = Shown(k)
      BY <2>2, <1>8, <1>9
    <3>2. rules[k].life <= spent.posts /\ Seen(k) <= Shown(k) /\ rules[k].life \in Nat
      BY <3>1, ShownNat DEF Counts
    <3>3. Seen(k)' <= Seen(k) /\ Seen(k) \in Nat /\ Seen(k)' \in Nat
      BY <1>4, <1>6, SeenNat, SeenNatNext DEF Seen
    <3> QED BY <3>1, <3>2, <3>3, <1>1, <1>2
  <2> QED BY <2>1, <2>2
<1>10. Grows
  <2>1. ASSUME NEW k \in Listeners, rules'[k] # None
        PROVE  \/ rules'[k].life \in Nat /\ spent.posts < rules'[k].life
               \/ /\ rules[k] # None /\ rules'[k].life = rules[k].life
                  /\ Shown(k)' \in Nat /\ Shown(k) <= Shown(k)'
    <3>1. CASE k = l
      BY <3>1, <1>2, <1>5, <1>7
    <3>2. CASE k # l
      BY <2>1, <3>2, <1>8
    <3> QED BY <3>1, <3>2
  <2>2. spent.posts <= spent'.posts
    BY <1>1, <1>2
  <2> QED BY <2>1, <2>2, <1>2 DEF Grows
<1> QED BY <1>6, <1>9, <1>10 DEF Counts

\* When the rules that are there have counted on and their connections have counted
\* no more, Counts goes on.
LEMMA NodeGoesOn ==
  ASSUME CountTypeOK, Counts, CountTypeOK', spent'.posts = spent.posts,
         \A l \in Listeners : rules'[l] # None =>
            /\ rules[l] # None /\ rules'[l].life = rules[l].life
            /\ Shown(l)' \in Nat /\ Shown(l) <= Shown(l)' /\ Seen(l)' <= Shown(l)'
  PROVE  Counts' /\ Grows
<1>1. spent.posts \in Nat /\ spent'.posts \in Nat
  BY DEF CountTypeOK, Spent
<1>2. Counts'
  BY DEF Counts
<1>3. Grows
  BY <1>1 DEF Grows
<1> QED BY <1>2, <1>3

LEMMA DeleteGrows ==
  ASSUME ~ FlowsOutlive, CountTypeOK, Counts, NEW l \in Listeners, DeleteRule(l)
  PROVE  CountTypeOK' /\ Counts' /\ Grows
<1>1. /\ rules' = [rules EXCEPT ![l] = None] /\ conntrack' = Purged(l) /\ spent' = spent
  BY DEF DeleteRule
<1>2. /\ conntrack' \in Table
      /\ \A k \in Listeners : Tracked(conntrack', k, "bytes") <= Tracked(conntrack, k, "bytes")
  BY <1>1, PurgedTable DEF CountTypeOK
<1>3. CountTypeOK'
  BY <1>1, <1>2 DEF CountTypeOK
<1>4. ASSUME NEW k \in Listeners, rules'[k] # None
      PROVE  /\ rules[k] # None /\ rules'[k].life = rules[k].life
             /\ Shown(k)' \in Nat /\ Shown(k) <= Shown(k)' /\ Seen(k)' <= Shown(k)'
  <2>1. rules'[k] = rules[k] /\ rules[k] # None
    BY <1>1, <1>4 DEF CountTypeOK
  <2>2. Shown(k)' \in Nat /\ Shown(k)' = Shown(k)
    BY <2>1, GoesOnAsItWas
  <2>3. Seen(k)' <= Seen(k) /\ Seen(k) \in Nat /\ Seen(k)' \in Nat
    BY <1>2, <1>3, SeenNat, SeenNatNext DEF Seen
  <2>4. Seen(k) <= Shown(k)
    BY <2>1 DEF Counts
  <2> QED BY <2>1, <2>2, <2>3, <2>4
<1>5. spent'.posts = spent.posts
  BY <1>1
<1> QED BY <1>3, <1>4, <1>5, NodeGoesOn

LEMMA CloseGrows ==
  ASSUME CountTypeOK, Counts, NEW f \in Flows, Close(f)
  PROVE  CountTypeOK' /\ Counts' /\ Grows
<1>1. conntrack[f] # None /\ conntrack[f] \in Entries /\ rules' = rules /\ spent' = spent
  BY DEF Close, CountTypeOK, Table
<1>2. conntrack' \in Table
  BY <1>1 DEF Close, CountTypeOK, Table, Entries
<1>3. ASSUME NEW k \in Listeners
      PROVE  Tracked(conntrack', k, "bytes") <= Tracked(conntrack, k, "bytes")
  <2>1. \A x \in Flows \ {f} : conntrack'[x] = conntrack[x]
    BY DEF Close, CountTypeOK, Table
  <2>2. \/ conntrack'[f] = None
        \/ conntrack'[f].service = conntrack[f].service /\ conntrack'[f].bytes = conntrack[f].bytes
    BY <1>1 DEF Close, CountTypeOK, Table, Entries
  <2>3. DOMAIN conntrack = Flows /\ DOMAIN conntrack' = Flows /\ conntrack \in Table
    BY <1>2 DEF CountTypeOK, Table
  <2>4. /\ entries_of(conntrack', k) \subseteq entries_of(conntrack, k)
        /\ \A x \in entries_of(conntrack', k) : conntrack'[x].bytes = conntrack[x].bytes
    BY <1>1, <2>1, <2>2, <2>3 DEF entries_of
  <2>5. PICK before, after : before = conntrack /\ after = conntrack'
    OBVIOUS
  <2>6. Tracked(after, k, "bytes") <= Tracked(before, k, "bytes")
    BY ONLY <1>2, <2>3, <2>4, <2>5, FewerTracked
  <2> QED BY <2>5, <2>6
<1>4. CountTypeOK'
  BY <1>1, <1>2 DEF CountTypeOK
<1>5. ASSUME NEW k \in Listeners, rules'[k] # None
      PROVE  /\ rules[k] # None /\ rules'[k].life = rules[k].life
             /\ Shown(k)' \in Nat /\ Shown(k) <= Shown(k)' /\ Seen(k)' <= Shown(k)'
  <2>1. rules'[k] = rules[k] /\ rules[k] # None
    BY <1>1, <1>5
  <2>2. Shown(k)' \in Nat /\ Shown(k)' = Shown(k)
    BY <2>1, GoesOnAsItWas
  <2>3. Seen(k)' <= Seen(k) /\ Seen(k) \in Nat /\ Seen(k)' \in Nat
    BY <1>3, <1>4, SeenNat, SeenNatNext DEF Seen
  <2>4. Seen(k) <= Shown(k)
    BY <2>1 DEF Counts
  <2> QED BY <2>1, <2>2, <2>3, <2>4
<1>6. spent'.posts = spent.posts
  BY <1>1
<1> QED BY <1>4, <1>5, <1>6, NodeGoesOn

LEMMA TrafficGrows ==
  ASSUME CountTypeOK, Counts, NEW f \in Flows, NEW l \in Listeners, NEW e \in Endpoints,
         Traffic(f, l, e)
  PROVE  CountTypeOK' /\ Counts' /\ Grows
<1> DEFINE before == IF conntrack[f] = None THEN Zero ELSE conntrack[f]
<1>1. PICK b \in Bursts :
        /\ conntrack' = [conntrack EXCEPT
                           ![f] = [service |-> l, established |-> TRUE,
                                   packets |-> Plus(before, b).packets,
                                   bytes |-> Plus(before, b).bytes]]
        /\ rules' = [rules EXCEPT ![l].counters[e] = Plus(@, b)]
  BY DEF Traffic
<1>2. /\ rules[l] # None /\ (conntrack[f] # None => conntrack[f].service = l)
      /\ spent'.posts = spent.posts /\ spent' \in Spent
  BY DEF Traffic, CountTypeOK, Spent
<1>3. b \in Counted
  BY CollectorAssumption DEF Counted
<1>4. before.packets \in Nat /\ before.bytes \in Nat
  BY DEF CountTypeOK, Table, Entries, Zero
<1>5. before.bytes = IF conntrack[f] = None THEN 0 ELSE conntrack[f].bytes
  BY DEF Zero
<1> HIDE DEF before
<1> DEFINE entry == [service |-> l, established |-> TRUE,
                     packets |-> before.packets + b.packets, bytes |-> before.bytes + b.bytes]
<1>6. conntrack' = [conntrack EXCEPT ![f] = entry]
  BY <1>1 DEF Plus
<1>7. entry \in Entries /\ entry.service = l /\ entry.bytes = before.bytes + b.bytes
  BY <1>3, <1>4 DEF Entries, Counted
<1> HIDE DEF entry
<1>8. conntrack' \in Table /\ conntrack'[f] = entry /\ \A x \in Flows \ {f} : conntrack'[x] = conntrack[x]
  BY <1>6, <1>7 DEF CountTypeOK, Table
<1>9. rules[l] \in Rules /\ rules[l].counters \in [Endpoints -> Counted] /\ Shown(l) \in Nat
  BY <1>2, ShownNat
<1> DEFINE after == [rules[l].counters EXCEPT ![e] = Plus(@, b)]
<1>10. after \in [Endpoints -> Counted] /\ Total(after, "bytes") = Total(rules[l].counters, "bytes") + b.bytes
  BY <1>3, <1>9, TotalRaised
<1>11. /\ rules'[l].life = rules[l].life /\ rules'[l].counters = after
       /\ rules'[l] \in Rules
  <2>1. rules' = [rules EXCEPT ![l] = [rules[l] EXCEPT !.counters = after]]
    BY <1>1
  <2> HIDE DEF after
  <2>2. rules'[l] = [rules[l] EXCEPT !.counters = after]
    BY <2>1 DEF CountTypeOK
  <2> QED BY <2>2, <1>9, <1>10 DEF Rules
<1>12. \A k \in Listeners \ {l} : rules'[k] = rules[k]
  BY <1>1 DEF CountTypeOK
<1>13. rules' \in [Listeners -> Rules \cup {None}]
  <2>1. rules' = [k \in Listeners |-> rules'[k]]
    BY <1>1 DEF CountTypeOK
  <2> QED BY <2>1, <1>11, <1>12 DEF CountTypeOK
<1>14. CountTypeOK'
  BY <1>2, <1>8, <1>13 DEF CountTypeOK
<1> HIDE DEF after
<1>15. Shown(l)' = Shown(l) + b.bytes
  BY <1>10, <1>11 DEF Shown
<1>16. /\ Tracked(conntrack', l, "bytes") = Tracked(conntrack, l, "bytes") + b.bytes
       /\ \A k \in Listeners \ {l} : Tracked(conntrack', k, "bytes") <= Tracked(conntrack, k, "bytes")
  <2>1. PICK table, next : table = conntrack /\ next = conntrack'
    OBVIOUS
  <2>2. table \in Table /\ next \in Table
    BY <2>1, <1>8 DEF CountTypeOK
  <2>3. next[f] # None
    BY <2>1, <1>7, <1>8, CollectorAssumption DEF Entries
  <2>4. /\ table[f] # None => table[f].service = l
        /\ next[f].service = l
        /\ next[f].bytes = (IF table[f] = None THEN 0 ELSE table[f].bytes) + b.bytes
        /\ \A y \in Flows \ {f} : next[y] = table[y]
    BY <2>1, <1>2, <1>5, <1>7, <1>8
  <2>5. /\ Tracked(next, l, "bytes") = Tracked(table, l, "bytes") + b.bytes
        /\ \A k \in Listeners \ {l} : Tracked(next, k, "bytes") <= Tracked(table, k, "bytes")
    BY ONLY <2>2, <2>3, <2>4, <1>3, BurstTracked
  <2> QED BY <2>1, <2>5
<1>17. b.bytes \in Nat
  BY <1>3 DEF Counted
<1>18. ASSUME NEW k \in Listeners, rules'[k] # None
       PROVE  /\ rules[k] # None /\ rules'[k].life = rules[k].life
              /\ Shown(k)' \in Nat /\ Shown(k) <= Shown(k)' /\ Seen(k)' <= Shown(k)'
  <2>1. Seen(k) \in Nat /\ Seen(k)' \in Nat
    BY <1>14, SeenNat, SeenNatNext
  <2>2. CASE k = l
    <3>1. Seen(l)' = Seen(l) + b.bytes
      BY <1>16 DEF Seen
    <3>2. Seen(l) <= Shown(l)
      BY <1>2 DEF Counts
    <3> QED BY <2>1, <2>2, <3>1, <3>2, <1>2, <1>9, <1>11, <1>15, <1>17
  <2>3. CASE k # l
    <3>1. rules'[k] = rules[k] /\ rules[k] # None
      BY <2>3, <1>12, <1>18
    <3>2. Shown(k)' \in Nat /\ Shown(k)' = Shown(k)
      BY <3>1, GoesOnAsItWas
    <3>3. Seen(k)' <= Seen(k)
      BY <2>3, <1>16 DEF Seen
    <3>4. Seen(k) <= Shown(k)
      BY <3>1 DEF Counts
    <3> QED BY <2>1, <3>1, <3>2, <3>3, <3>4
  <2> QED BY <2>2, <2>3
<1> QED BY <1>2, <1>14, <1>18, NodeGoesOn

LEMMA NodeInvariant ==
  ASSUME ~ FlowsOutlive, CountTypeOK, Counts, [Next]_vars
  PROVE  CountTypeOK' /\ Counts' /\ Grows
<1>1. ASSUME UNCHANGED <<node, spent.posts>>, spent' \in Spent PROVE CountTypeOK' /\ Counts' /\ Grows
  <2>1. rules' = rules /\ conntrack' = conntrack /\ spent'.posts = spent.posts
    BY <1>1 DEF node
  <2>2. CountTypeOK'
    BY <1>1, <2>1 DEF CountTypeOK
  <2>3. ASSUME NEW k \in Listeners, rules'[k] # None
        PROVE  /\ rules[k] # None /\ rules'[k].life = rules[k].life
               /\ Shown(k)' \in Nat /\ Shown(k) <= Shown(k)' /\ Seen(k)' <= Shown(k)'
    <3>1. rules'[k] = rules[k] /\ rules[k] # None
      BY <2>1, <2>3
    <3>2. Shown(k)' \in Nat /\ Shown(k)' = Shown(k)
      BY <3>1, GoesOnAsItWas
    <3>3. Seen(k)' = Seen(k)
      BY <2>1 DEF Seen
    <3>4. Seen(k) <= Shown(k)
      BY <3>1 DEF Counts
    <3> QED BY <3>1, <3>2, <3>3, <3>4
  <2> QED BY <2>1, <2>2, <2>3, NodeGoesOn
<1>2. CASE Environment
  BY <1>2, PostGrows, DeleteGrows, CloseGrows, TrafficGrows DEF Environment
<1>3. CASE start \/ stop \/ Control
  BY <1>1, <1>3 DEF start, stop, Control, Clear, Spawn, Join, CountTypeOK
<1>4. ASSUME NEW w \in Workers, Run(w) PROVE UNCHANGED <<node, spent.posts>> /\ spent' \in Spent
  <2>1. CASE Fails(w)
    BY <2>1 DEF Fails, CountTypeOK, Spent, node
  <2>2. CASE While(w) \/ List(w) \/ Track(w) \/ Push(w) \/ Wait(w)
    BY <2>2 DEF While, List, Track, Push, Wait, CountTypeOK
  <2> QED BY <1>4, <2>1, <2>2 DEF Run
<1>5. CASE UNCHANGED vars
  BY <1>1, <1>5 DEF vars, CountTypeOK
<1> QED BY <1>1, <1>2, <1>3, <1>4, <1>5 DEF Next
-----------------------------------------------------------------------------
(* What a round reads, makes of it and pushes *)

\* What a step does to what the workers hold, and to what Octavia shows.
LEMMA ReadingSteps ==
  ASSUME [Next]_vars
  PROVE  \/ listed' = listed
         \/ \E w \in Workers : \/ listed' = [listed EXCEPT ![w] = NoRules]
                               \/ List(w)
BY DEF Next, Environment, PostRule, DeleteRule, Close, Traffic, start, stop, Control, Clear,
       Spawn, Join, Run, While, Track, Push, Fails, Wait, round, vars

LEMMA RecordingSteps ==
  ASSUME [Next]_vars
  PROVE  \/ records' = records
         \/ \E w \in Workers : \/ records' = [records EXCEPT ![w] = NoRecords]
                               \/ Track(w) /\ \E table \in Tables :
                                    records' = [records EXCEPT ![w] = RecordsOf(w, table)]
<1>1. ASSUME NEW w \in Workers, Track(w)
      PROVE  \/ records' = [records EXCEPT ![w] = NoRecords]
             \/ Track(w) /\ \E table \in Tables : records' = [records EXCEPT ![w] = RecordsOf(w, table)]
  <2>1. PICK table \in Tables :
          records' = [records EXCEPT ![w] = IF Raises(w, table) THEN NoRecords
                                            ELSE RecordsOf(w, table)]
    BY <1>1 DEF Track
  <2> QED BY <1>1, <2>1
<1>2. ASSUME NEW w \in Workers, Run(w), ~ Track(w)
      PROVE  records' = records \/ records' = [records EXCEPT ![w] = NoRecords]
  BY <1>2 DEF Run, While, List, Push, Fails, Wait
<1>3. CASE Environment \/ start \/ stop \/ Control \/ UNCHANGED vars
  BY <1>3 DEF Environment, PostRule, DeleteRule, Close, Traffic, start, stop, Control, Clear,
              Spawn, Join, round, vars
<1> QED BY <1>1, <1>2, <1>3 DEF Next

LEMMA PushingSteps ==
  ASSUME [Next]_vars
  PROVE  reported' = reported \/ \E w \in Workers : Push(w)
BY DEF Next, Environment, PostRule, DeleteRule, Close, Traffic, start, stop, Control, Clear,
       Spawn, Join, Run, While, List, Track, Fails, Wait, vars
-----------------------------------------------------------------------------
\* What a worker has read goes stale but is never ahead.
LEMMA ListedStays ==
  ASSUME CountTypeOK, Counts, ListedInv, Grows, [Next]_vars
  PROVE  ListedInv'
<1> DEFINE Lists == [Listeners -> Rules \cup {None}]
<1>1. NoRules \in Lists /\ rules \in Lists /\ listed \in [Workers -> Lists]
  BY DEF NoRules, CountTypeOK, ListedInv
<1> HIDE DEF Lists
<1>2. listed' \in [Workers -> Lists]
  BY <1>1, ReadingSteps DEF List
<1>3. ASSUME NEW w \in Workers, NEW l \in Listeners, listed'[w][l] # None
      PROVE  /\ listed'[w][l].life <= spent'.posts
             /\ rules'[l] # None => \/ listed'[w][l].life < rules'[l].life
                                    \/ /\ listed'[w][l].life = rules'[l].life
                                       /\ Total(listed'[w][l].counters, "bytes") <= Shown(l)'
  <2>1. CASE listed'[w] = listed[w]
    <3>1. PICK rule : rule = listed[w][l]
      OBVIOUS
    <3>2. rule \in Rules /\ ReadEarlier(l, rule) /\ listed'[w][l] = rule
      BY <1>1, <1>3, <2>1, <3>1 DEF ListedInv, Lists
    <3> QED BY <3>2, StaysRead
  <2>2. CASE listed'[w] = NoRules
    BY <1>3, <2>2 DEF NoRules
  <2>3. CASE listed'[w] = rules
    <3>1. PICK rule : rule = rules[l]
      OBVIOUS
    <3>2. listed'[w][l] = rule /\ rules[l] # None
      BY <1>3, <2>3, <3>1
    <3>3. rule \in Rules /\ rule.life \in Nat /\ Shown(l) \in Nat /\ rule.life <= spent.posts
      BY <3>1, <3>2, ShownNat DEF Counts
    <3>4. ReadEarlier(l, rule)
      BY <3>1, <3>3 DEF ReadEarlier, Shown
    <3> QED BY <3>2, <3>3, <3>4, StaysRead
  <2>4. listed'[w] = listed[w] \/ listed'[w] = NoRules \/ listed'[w] = rules
    BY <1>1, ReadingSteps DEF List
  <2> QED BY <2>1, <2>2, <2>3, <2>4
<1> QED BY <1>2, <1>3 DEF ListedInv, ReadEarlier, Lists

\* The name of a rule shows its listener.
LEMMA ListenerOfName ==
  ASSUME NEW l \in Listeners
  PROVE  listener_of(generate_service_name(LB, l), Ids) = l
<1> DEFINE name == generate_service_name(LB, l)
           uuids == {n \in DOMAIN name : name[n] \in Ids}
           later == uuids \ {Min(uuids)}
<1>1. DOMAIN name = {1, 2} /\ name[1] = LB /\ name[2] = l
  BY DEF generate_service_name
<1> HIDE DEF name
<1>2. uuids = {1, 2}
  BY <1>1 DEF Ids
<1>3. Min({1, 2}) = 1 /\ Min({2}) = 2
  BY DEF Min
<1>4. later = {2}
  BY <1>2, <1>3
<1>5. listener_of(name, Ids) = IF uuids # {} /\ later # {} THEN name[Min(later)] ELSE listener_of(name, Ids)
  BY <1>2, <1>4 DEF listener_of
<1> HIDE DEF uuids, later
<1> QED BY <1>1, <1>2, <1>3, <1>4, <1>5 DEF name

\* The figures are of the larger view, which is no more than what both are bounded by.
LEMMA StatsShow ==
  ASSUME NEW counters \in [Endpoints -> Counted], NEW table \in Table, NEW l
  PROVE  \E n \in Nat :
           /\ stats_of(counters, table, l).bytes_in = bytes_in(n)
           /\ stats_of(counters, table, l).bytes_out = bytes_out(n)
           /\ Total(counters, "bytes") <= n
           /\ \A m \in Nat : Total(counters, "bytes") <= m /\ Tracked(table, l, "bytes") <= m => n <= m
<1>1. PICK S : S = entries_of(table, l)
  OBVIOUS
<1>2. PICK f : f = [x \in S |-> table[x].bytes]
  OBVIOUS
<1>3. \A x \in S : f[x] = table[x].bytes
  BY <1>2
<1>4. Tracked(table, l, "bytes") \in Nat
  BY <1>1, <1>3, TrackedAs
<1>5. Total(counters, "bytes") \in Nat
  BY TotalNat
<1>6. PICK a, b : a = Total(counters, "bytes") /\ b = Tracked(table, l, "bytes")
  OBVIOUS
<1> DEFINE n == Larger(a, b)
<1>7. n \in Nat /\ a <= n /\ \A m \in Nat : a <= m /\ b <= m => n <= m
  BY <1>4, <1>5, <1>6 DEF Larger
<1>8. effective(counters, table, l, "bytes") = n
  BY <1>6 DEF effective
<1> HIDE DEF n
<1>9. /\ stats_of(counters, table, l).bytes_in = bytes_in(n)
      /\ stats_of(counters, table, l).bytes_out = bytes_out(n)
  BY <1>8 DEF stats_of
<1> QED BY <1>6, <1>7, <1>9

LEMMA RecordsRead ==
  ASSUME NEW w \in Workers, NEW table
  PROVE  /\ DOMAIN RecordsOf(w, table) = Services(w)
         /\ \A l \in Services(w) :
              /\ RecordsOf(w, table)[l].life = listed[w][l].life
              /\ RecordsOf(w, table)[l].stats = stats_of(listed[w][l].counters, table, l)
<1> DEFINE id(l) == listener_shown[l]
           of(i) == CHOOSE k \in Services(w) : id(k) = i
<1>1. \A l \in Services(w) : id(l) = l
  BY ListenerOfName DEF Services, listener_shown
<1>2. RecordsOf(w, table) = [i \in {id(l) : l \in Services(w)} \ {None} |->
                               [life |-> listed[w][of(i)].life,
                                stats |-> stats_of(listed[w][of(i)].counters, table, of(i))]]
  BY DEF RecordsOf
<1> HIDE DEF id
<1>3. \A l \in Services(w) : of(l) = l
  BY <1>1
<1> HIDE DEF of
<1>4. None \notin Services(w)
  BY CollectorAssumption DEF Services, Ids
<1>5. {id(l) : l \in Services(w)} \ {None} = Services(w)
  BY <1>1, <1>4
<1> DEFINE figures(i) == [life |-> listed[w][of(i)].life,
                          stats |-> stats_of(listed[w][of(i)].counters, table, of(i))]
<1>6. RecordsOf(w, table) = [i \in Services(w) |-> figures(i)]
  BY <1>2, <1>5
<1>7. \A l \in Services(w) : /\ figures(l).life = listed[w][l].life
                             /\ figures(l).stats = stats_of(listed[w][l].counters, table, l)
  BY <1>3
<1> HIDE DEF figures
<1> QED BY <1>6, <1>7

\* A table that is not found shows nothing of what was tracked.
LEMMA TablesShow ==
  ASSUME CountTypeOK, NEW table \in Tables, NEW l \in Listeners
  PROVE  table \in Table /\ Tracked(table, l, "bytes") <= Seen(l)
<1>0. conntrack \in Table /\ Seen(l) \in Nat
  BY SeenNat DEF CountTypeOK
<1>1. CASE table = conntrack
  BY <1>0, <1>1 DEF Seen
<1>2. CASE table = [f \in Flows |-> None]
  <2>1. table \in Table /\ entries_of(table, l) = {}
    BY <1>2 DEF Table, entries_of
  <2>2. Tracked(table, l, "bytes") = 0
    BY <2>1, NothingTracked
  <2> QED BY <1>0, <2>1, <2>2
<1> QED BY <1>1, <1>2 DEF Tables

\* The figures a worker makes of what it has read and of the table are not ahead.
LEMMA RecordsOfAreBehind ==
  ASSUME CountTypeOK, Counts, ListedInv, NEW w \in Workers, NEW table \in Tables,
         NEW l \in Services(w)
  PROVE  NotAhead(l, RecordsOf(w, table)[l])
<1>1. PICK figures : figures = RecordsOf(w, table)[l]
  OBVIOUS
<1>2. PICK rule : rule = listed[w][l]
  OBVIOUS
<1>3. l \in Listeners /\ rule \in Rules /\ ReadEarlier(l, rule)
  BY <1>2 DEF Services, ListedInv
<1>4. /\ figures.life = rule.life /\ figures.stats = stats_of(rule.counters, table, l)
      /\ rule.life \in Nat /\ rule.counters \in [Endpoints -> Counted]
  BY <1>1, <1>2, <1>3, RecordsRead DEF Rules
<1>5. table \in Table /\ Tracked(table, l, "bytes") <= Seen(l)
  BY <1>3, TablesShow
<1>6. PICK n \in Nat :
        /\ figures.stats.bytes_in = bytes_in(n) /\ figures.stats.bytes_out = bytes_out(n)
        /\ \A m \in Nat : Total(rule.counters, "bytes") <= m /\ Tracked(table, l, "bytes") <= m => n <= m
  BY <1>4, <1>5, StatsShow
<1>7. bytes_in(n) \in Nat /\ bytes_out(n) \in Nat
  BY <1>6 DEF bytes_in, bytes_out
<1>8. ASSUME rules[l] # None, rule.life = rules[l].life, Total(rule.counters, "bytes") <= Shown(l)
      PROVE  AtMost(figures.stats, Shown(l))
  <2>1. PICK m : m = Shown(l)
    OBVIOUS
  <2>2. m \in Nat
    BY <1>3, <1>8, <2>1, ShownNat
  <2>3. Tracked(table, l, "bytes") <= m
    <3>1. Seen(l) \in Nat /\ Seen(l) <= m
      BY <1>3, <1>8, <2>1, SeenNat DEF Counts
    <3>2. PICK S : S = entries_of(table, l)
      OBVIOUS
    <3>3. PICK f : f = [x \in S |-> table[x].bytes]
      OBVIOUS
    <3>4. \A x \in S : f[x] = table[x].bytes
      BY <3>3
    <3>5. Tracked(table, l, "bytes") \in Nat
      BY <1>5, <3>2, <3>4, TrackedAs
    <3> QED BY <1>5, <2>2, <3>1, <3>5
  <2>4. n <= m
    BY <1>6, <1>8, <2>1, <2>2, <2>3
  <2>5. bytes_in(n) <= bytes_in(m) /\ bytes_out(n) <= bytes_out(m)
    BY <2>2, <2>4, BytesAreMonotone
  <2> QED BY <1>6, <1>7, <2>1, <2>5 DEF AtMost
<1>9. IsFigures(figures) /\ figures.life <= spent.posts
  BY <1>3, <1>4, <1>6, <1>7 DEF IsFigures, ReadEarlier
<1> QED BY <1>1, <1>3, <1>4, <1>8, <1>9 DEF NotAhead, ReadEarlier

LEMMA RecordsStay ==
  ASSUME CountTypeOK, Counts, ListedInv, RecordsInv, Grows, [Next]_vars
  PROVE  RecordsInv'
<1>1. ASSUME NEW w \in Workers,
             /\ DOMAIN records'[w] \subseteq Listeners
             /\ \A l \in DOMAIN records'[w] : NotAhead(l, records'[w][l])
      PROVE  /\ DOMAIN records'[w] \subseteq Listeners
             /\ \A l \in DOMAIN records'[w] : NotAhead(l, records[w][l])'
  <2>1. ASSUME NEW l \in DOMAIN records'[w] PROVE NotAhead(l, records[w][l])'
    <3>1. PICK figures : figures = records'[w][l]
      OBVIOUS
    <3>2. NotAhead(l, figures) /\ l \in Listeners
      BY <1>1, <3>1
    <3>3. /\ IsFigures(figures) /\ figures.life <= spent'.posts
          /\ rules'[l] # None => \/ figures.life < rules'[l].life
                                 \/ figures.life = rules'[l].life /\ AtMost(figures.stats, Shown(l)')
      BY <3>2, StaysBehind
    <3> QED BY <3>1, <3>3 DEF NotAhead, IsFigures, AtMost
  <2> QED BY <1>1, <2>1
<1>2. ASSUME NEW w \in Workers
      PROVE  /\ DOMAIN records'[w] \subseteq Listeners
             /\ \A l \in DOMAIN records'[w] : NotAhead(l, records'[w][l])
  <2>1. CASE records'[w] = records[w]
    BY <2>1 DEF RecordsInv
  <2>2. CASE records'[w] = NoRecords
    BY <2>2 DEF NoRecords
  <2>3. CASE \E table \in Tables : records'[w] = RecordsOf(w, table)
    <3>1. PICK table \in Tables : records'[w] = RecordsOf(w, table)
      BY <2>3
    <3>2. DOMAIN records'[w] = Services(w) /\ Services(w) \subseteq Listeners
      BY <3>1, RecordsRead DEF Services
    <3>3. ASSUME NEW l \in Services(w) PROVE NotAhead(l, RecordsOf(w, table)[l])
      BY <3>3, RecordsOfAreBehind
    <3> QED BY <3>1, <3>2, <3>3
  <2>4. \/ records'[w] = records[w] \/ records'[w] = NoRecords
        \/ \E table \in Tables : records'[w] = RecordsOf(w, table)
    BY RecordingSteps DEF RecordsInv
  <2> QED BY <2>1, <2>2, <2>3, <2>4
<1>3. DOMAIN records' = Workers
  BY RecordingSteps DEF RecordsInv
<1> QED BY <1>1, <1>2, <1>3 DEF RecordsInv

\* What Octavia shows.
LEMMA ReportedStays ==
  ASSUME CountTypeOK, RecordsInv, ReportedInv, Grows, [Next]_vars
  PROVE  ReportedInv'
<1>1. /\ reported'[LB] = None
      /\ \A l \in Listeners : reported'[l] # None => NotAhead(l, reported'[l])
  <2>1. CASE reported' = reported
    BY <2>1 DEF ReportedInv
  <2>2. ASSUME NEW w \in Workers, Push(w)
        PROVE  /\ reported'[LB] = None
               /\ \A l \in Listeners : reported'[l] # None => NotAhead(l, reported'[l])
    <3>1. reported' = [i \in Ids |-> IF i \in DOMAIN records[w] THEN records[w][i] ELSE reported[i]]
      BY <2>2 DEF Push
    <3>2. LB \notin DOMAIN records[w] /\ LB \in Ids /\ Listeners \subseteq Ids
      BY CollectorAssumption DEF RecordsInv, Ids
    <3>3. ASSUME NEW l \in Listeners, reported'[l] # None PROVE NotAhead(l, reported'[l])
      <4>1. CASE l \in DOMAIN records[w]
        <5>1. reported'[l] = records[w][l]
          BY <3>1, <3>2, <4>1
        <5> QED BY <4>1, <5>1 DEF RecordsInv
      <4>2. CASE l \notin DOMAIN records[w]
        <5>1. reported'[l] = reported[l]
          BY <3>1, <3>2, <4>2
        <5> QED BY <3>3, <5>1 DEF ReportedInv
      <4> QED BY <4>1, <4>2
    <3> QED BY <3>1, <3>2, <3>3 DEF ReportedInv
  <2> QED BY <2>1, <2>2, PushingSteps
<1>2. ASSUME NEW l \in Listeners, reported'[l] # None PROVE NotAhead(l, reported[l])'
  <2>1. PICK figures : figures = reported'[l]
    OBVIOUS
  <2>2. NotAhead(l, figures)
    BY <1>1, <1>2, <2>1
  <2>3. /\ IsFigures(figures) /\ figures.life <= spent'.posts
        /\ rules'[l] # None => \/ figures.life < rules'[l].life
                               \/ figures.life = rules'[l].life /\ AtMost(figures.stats, Shown(l)')
    BY <2>2, StaysBehind
  <2> QED BY <2>1, <2>3 DEF NotAhead, IsFigures, AtMost
<1> QED BY <1>1, <1>2 DEF ReportedInv

LEMMA CountsInitially == Init => CountInv
<1> SUFFICES ASSUME Init PROVE CountInv
  OBVIOUS
<1>1. CountTypeOK
  BY DEF Init, CountTypeOK, Spent, Table, NoRules
<1>2. Counts /\ ListedInv
  BY DEF Init, Counts, ListedInv, NoRules
<1>3. RecordsInv
  BY DEF Init, RecordsInv, NoRecords
<1>4. ReportedInv
  BY DEF Init, ReportedInv, Ids
<1> QED BY <1>1, <1>2, <1>3, <1>4 DEF CountInv

\* If connections go with the rule they came through, what is read of a rule, what is
\* recorded and what is shown stay behind what the rule has counted.
THEOREM CountInvariant == ASSUME ~ FlowsOutlive PROVE Spec => []CountInv
<1>1. CountInv /\ [Next]_vars => CountInv'
  BY NodeInvariant, ListedStays, RecordsStay, ReportedStays DEF CountInv
<1> QED BY <1>1, CountsInitially, PTL DEF Spec

\* The listener's figures are of its own traffic and never more than went by.
THEOREM FiguresAreReal == ASSUME ~ FlowsOutlive PROVE Spec => []ReportsAreReal
<1>1. CountInv => ReportsAreReal
  <2> SUFFICES ASSUME CountInv, NEW l \in Listeners, reported[l] # None, rules[l] # None,
                      reported[l].life = rules[l].life
               PROVE  reported[l].stats.bytes_in + reported[l].stats.bytes_out <= Bytes(l)
    BY DEF CountInv, ReportedInv, ReportsAreReal
  <2>1. PICK n : n = Shown(l)
    OBVIOUS
  <2>2. n \in Nat /\ rules[l].life \in Nat
    BY <2>1, ShownNat DEF CountInv
  <2>3. AtMost(reported[l].stats, n)
    BY <2>1, <2>2 DEF CountInv, ReportedInv, NotAhead
  <2>4. bytes_in(n) + bytes_out(n) = IF n = 1 THEN 2 ELSE n
    BY <2>2, BytesAddUp
  <2>5. bytes_in(n) \in Nat /\ bytes_out(n) \in Nat
    BY <2>2 DEF bytes_in, bytes_out
  <2>6. Bytes(l) = bytes_in(n) + bytes_out(n)
    BY <2>1, <2>4 DEF Bytes, Shown
  <2> QED BY <2>3, <2>5, <2>6 DEF AtMost
<1> QED BY <1>1, CountInvariant, PTL
-----------------------------------------------------------------------------
(* What is shown never goes back *)

\* What Octavia shows of a listener is of an earlier life, or less.
NoMore(shown, figures) ==
  \/ shown.life < figures.life
  \/ /\ shown.life = figures.life
     /\ shown.stats.bytes_in <= figures.stats.bytes_in
     /\ shown.stats.bytes_out <= figures.stats.bytes_out

\* The worker that goes to push has read the rules after the last push there was.
ReadAfter ==
  \A w \in Workers, l \in Listeners :
    pc[w] = "track" /\ listed[w][l] # None /\ reported[l] # None =>
      \/ reported[l].life < listed[w][l].life
      \/ /\ reported[l].life = listed[w][l].life
         /\ AtMost(reported[l].stats, Total(listed[w][l].counters, "bytes"))

MadeAfter ==
  \A w \in Workers : \A l \in DOMAIN records[w] :
    pc[w] = "push" /\ reported[l] # None => NoMore(reported[l], records[w][l])

OrderInv == ReadAfter /\ MadeAfter

\* A worker comes to track the connections by reading the rules, and to push by
\* recording, and keeps what it has meanwhile.
LEMMA RoundSteps ==
  ASSUME ControlTypeOK, ListedInv, RecordsInv, [Next]_vars, NEW w \in Workers
  PROVE  /\ pc'[w] = "track" => List(w) \/ (pc[w] = "track" /\ listed'[w] = listed[w])
         /\ pc'[w] = "push" => Track(w) \/ (pc[w] = "push" /\ records'[w] = records[w])
<1>1. CASE Environment \/ start \/ stop \/ Clear \/ Join \/ UNCHANGED vars
  BY <1>1 DEF Environment, PostRule, DeleteRule, Close, Traffic, start, stop, Clear, Join, round, vars
<1>2. CASE Spawn
  BY <1>2 DEF Spawn, ControlTypeOK
<1>3. ASSUME NEW v \in Workers, Run(v), v # w
      PROVE  pc'[w] = pc[w] /\ listed'[w] = listed[w] /\ records'[w] = records[w]
  <2>1. CASE While(v) \/ List(v)
    BY <1>3, <2>1 DEF While, List, Goes, ControlTypeOK, ListedInv
  <2>2. CASE Track(v) \/ Push(v)
    BY <1>3, <2>2 DEF Track, Push, Goes, ControlTypeOK, ListedInv, RecordsInv
  <2>3. CASE Fails(v) \/ Wait(v)
    BY <1>3, <2>3 DEF Fails, Wait, Goes, ControlTypeOK, ListedInv, RecordsInv
  <2> QED BY <1>3, <2>1, <2>2, <2>3 DEF Run
<1>4. CASE Run(w)
  BY <1>4 DEF Run, While, Push, Fails, AfterFailure, Wait, List, Track, Goes, ControlTypeOK
<1> QED BY <1>1, <1>2, <1>3, <1>4 DEF Next, Control

\* No other worker pushes while one is on its round.
LEMMA NoOtherPushes ==
  ASSUME ControlTypeOK, OnlyOne, [Next]_vars, NEW w \in Workers,
         pc[w] # "ended", pc'[w] \in {"track", "push"}
  PROVE  reported' = reported
<1>1. ASSUME NEW v \in Workers, Push(v) PROVE FALSE
  <2>1. pc[v] = "push" /\ pc' = [pc EXCEPT ![v] = "wait"]
    BY <1>1 DEF Push, Goes
  <2>2. v = w
    BY <2>1 DEF OnlyOne
  <2> QED BY <2>1, <2>2 DEF ControlTypeOK
<1> QED BY <1>1, PushingSteps

LEMMA ReadAfterStays ==
  ASSUME CountInv, ControlTypeOK, OnlyOne, ReadAfter, [Next]_vars
  PROVE  ReadAfter'
<1> SUFFICES ASSUME NEW w \in Workers, NEW l \in Listeners,
                    pc'[w] = "track", listed'[w][l] # None, reported'[l] # None
             PROVE  \/ reported'[l].life < listed'[w][l].life
                    \/ /\ reported'[l].life = listed'[w][l].life
                       /\ AtMost(reported'[l].stats, Total(listed'[w][l].counters, "bytes"))
  BY DEF ReadAfter, AtMost
<1>1. CASE List(w)
  <2>1. reported' = reported /\ listed'[w] = rules
    BY <1>1 DEF List, CountInv, ListedInv
  <2>2. NotAhead(l, reported[l]) /\ rules[l] # None
    BY <2>1 DEF CountInv, ReportedInv
  <2> QED BY <2>1, <2>2 DEF NotAhead, Shown
<1>2. CASE pc[w] = "track" /\ listed'[w] = listed[w]
  <2>1. reported' = reported
    BY <1>2, NoOtherPushes
  <2> QED BY <1>2, <2>1 DEF ReadAfter
<1> QED BY <1>1, <1>2, RoundSteps DEF CountInv

\* Figures made of what was read after a push show no less than it did.
LEMMA MadeOfRead ==
  ASSUME CountInv, ReadAfter, NEW w \in Workers, pc[w] = "track", NEW table \in Tables,
         NEW l \in Services(w), reported[l] # None
  PROVE  NoMore(reported[l], RecordsOf(w, table)[l])
<1>1. PICK rule : rule = listed[w][l]
  OBVIOUS
<1>2. PICK figures : figures = RecordsOf(w, table)[l]
  OBVIOUS
<1>3. l \in Listeners /\ rule # None /\ rule \in Rules
  BY <1>1 DEF Services, CountInv, ListedInv
<1>4. rule.counters \in [Endpoints -> Counted]
  BY <1>3 DEF Rules
<1>5. figures.life = rule.life /\ figures.stats = stats_of(rule.counters, table, l)
  BY <1>1, <1>2, RecordsRead
<1>6. \/ reported[l].life < rule.life
      \/ reported[l].life = rule.life /\ AtMost(reported[l].stats, Total(rule.counters, "bytes"))
  BY <1>1, <1>3 DEF ReadAfter
<1>7. PICK shown : shown = reported[l]
  OBVIOUS
<1>8. ASSUME AtMost(shown.stats, Total(rule.counters, "bytes"))
      PROVE  /\ shown.stats.bytes_in <= figures.stats.bytes_in
             /\ shown.stats.bytes_out <= figures.stats.bytes_out
  <2>1. table \in Table
    BY <1>3, TablesShow DEF CountInv
  <2>2. PICK n \in Nat : /\ figures.stats.bytes_in = bytes_in(n)
                         /\ figures.stats.bytes_out = bytes_out(n)
                         /\ Total(rule.counters, "bytes") <= n
    BY <1>4, <1>5, <2>1, StatsShow
  <2>3. PICK m : m = Total(rule.counters, "bytes")
    OBVIOUS
  <2>4. m \in Nat
    BY <1>4, <2>3, TotalNat
  <2>5. bytes_in(m) <= bytes_in(n) /\ bytes_out(m) <= bytes_out(n)
    BY <2>2, <2>3, <2>4, BytesAreMonotone
  <2>6. bytes_in(m) \in Nat /\ bytes_in(n) \in Nat /\ bytes_out(m) \in Nat /\ bytes_out(n) \in Nat
    BY <2>2, <2>4 DEF bytes_in, bytes_out
  <2>7. /\ shown.stats.bytes_in \in Nat /\ shown.stats.bytes_in <= bytes_in(m)
        /\ shown.stats.bytes_out \in Nat /\ shown.stats.bytes_out <= bytes_out(m)
    BY <1>8, <2>3 DEF AtMost
  <2> QED BY <2>2, <2>5, <2>6, <2>7
<1> QED BY <1>2, <1>5, <1>6, <1>7, <1>8 DEF NoMore

LEMMA MadeAfterStays ==
  ASSUME CountInv, ControlTypeOK, OnlyOne, ReadAfter, MadeAfter, [Next]_vars
  PROVE  MadeAfter'
<1> SUFFICES ASSUME NEW w \in Workers, NEW l \in DOMAIN records'[w],
                    pc'[w] = "push", reported'[l] # None
             PROVE  NoMore(reported'[l], records'[w][l])
  BY DEF MadeAfter, NoMore
<1>1. CASE Track(w)
  <2>1. PICK table \in Tables :
          /\ Goes(w, "track", IF Services(w) = {} \/ Raises(w, table) THEN "wait" ELSE "push")
          /\ records' = [records EXCEPT ![w] = IF Raises(w, table) THEN NoRecords
                                               ELSE RecordsOf(w, table)]
    BY <1>1 DEF Track
  <2>2. pc[w] = "track" /\ ~ Raises(w, table)
    BY <2>1 DEF Goes, ControlTypeOK
  <2>3. records'[w] = RecordsOf(w, table) /\ reported' = reported
    BY <1>1, <2>1, <2>2 DEF Track, CountInv, RecordsInv
  <2>4. l \in Services(w)
    BY <2>3, RecordsRead
  <2> QED BY <2>2, <2>3, <2>4, MadeOfRead
<1>2. CASE pc[w] = "push" /\ records'[w] = records[w]
  <2>1. reported' = reported
    BY <1>2, NoOtherPushes
  <2> QED BY <1>2, <2>1 DEF MadeAfter
<1> QED BY <1>1, <1>2, RoundSteps DEF CountInv

\* As long as no stop has left a worker behind, rounds come one after the other; if
\* connections go with their rule, no push shows less of a rule than the one before it, or shows a
\* rule that was replaced before the one that is shown.
THEOREM FiguresNeverGoBack == ASSUME ~ FlowsOutlive PROVE Spec => NeverGoBack
<1> DEFINE OrderUntilTimeout == ~ timed_out => OrderInv
<1>1. Init => OrderUntilTimeout
  BY DEF Init, OrderInv, ReadAfter, MadeAfter
<1>2. CountInv /\ CollectorInv /\ UntilTimeout /\ OrderUntilTimeout /\ [Next]_vars
        => OrderUntilTimeout'
  <2> SUFFICES ASSUME CountInv, CollectorInv, UntilTimeout, OrderUntilTimeout, [Next]_vars,
                      ~ timed_out'
               PROVE  OrderInv'
    OBVIOUS
  <2>1. OnlyOne /\ OrderInv
    BY TimeoutStays DEF CollectorInv, UntilTimeout
  <2> QED BY <2>1, ReadAfterStays, MadeAfterStays DEF CollectorInv, OrderInv
<1> DEFINE StaysOrRises(l) ==
             \/ reported'[l].life > reported[l].life
             \/ /\ reported'[l].life = reported[l].life
                /\ reported'[l].stats.bytes_in >= reported[l].stats.bytes_in
                /\ reported'[l].stats.bytes_out >= reported[l].stats.bytes_out
<1>3. CountInv /\ CollectorInv /\ OrderUntilTimeout /\ [Next]_vars
        => [~ timed_out' => \A l \in Listeners : reported[l] # None => StaysOrRises(l)]_vars
  <2> SUFFICES ASSUME CountInv, CollectorInv, OrderUntilTimeout, [Next]_vars, ~ timed_out',
                      NEW l \in Listeners, reported[l] # None
               PROVE  StaysOrRises(l)
    OBVIOUS
  <2>0. OrderInv
    BY TimeoutStays DEF CollectorInv
  <2>1. IsFigures(reported[l])
    BY DEF CountInv, ReportedInv, NotAhead
  <2>2. CASE reported'[l] = reported[l]
    BY <2>1, <2>2 DEF IsFigures
  <2>3. ASSUME NEW w \in Workers, Push(w), l \in DOMAIN records[w] PROVE StaysOrRises(l)
    <3>1. reported'[l] = records[w][l] /\ pc[w] = "push"
      BY <2>3 DEF Push, Goes, Ids
    <3>2. NoMore(reported[l], records[w][l])
      BY <2>0, <2>3, <3>1 DEF OrderInv, MadeAfter
    <3>3. IsFigures(records[w][l])
      BY <2>3 DEF CountInv, RecordsInv, NotAhead
    <3> QED BY <2>1, <3>1, <3>2, <3>3 DEF NoMore, IsFigures
  <2>4. ASSUME NEW w \in Workers, Push(w), l \notin DOMAIN records[w] PROVE reported'[l] = reported[l]
    BY <2>4 DEF Push, Ids
  <2> QED BY <2>2, <2>3, <2>4, PushingSteps
<1> QED BY <1>1, <1>2, <1>3, CountInvariant, CollectorInvariant, OnlyOneInvariant, PTL
        DEF Spec, NeverGoBack
=============================================================================
