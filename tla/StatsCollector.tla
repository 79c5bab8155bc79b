---------------------------- MODULE StatsCollector ----------------------------
(***************************************************************************)
(* status/synchronizer.py, class StatsCollector: start and stop, statement *)
(* by statement, and the worker threads, which read the rules and then the *)
(* connection table from LoxiLB and push the figures to Octavia.           *)
(*                                                                         *)
(* External: the LoxiLB node with its rules, their traffic and its         *)
(* connection table, and Octavia's statistics.  A rule lives from one POST *)
(* to the next: what a POST replaces starts counting at zero.              *)
(***************************************************************************)
EXTENDS Statistics

CONSTANTS LB, Listeners,      \* identifiers
          Endpoints,          \* the endpoints of a rule
          Flows,              \* connections that can be open at the same time
          Workers,            \* worker threads that can be alive at the same time
          Bursts,             \* traffic that goes by at once: [packets, bytes]
          MaxBursts,          \* bound on the bursts of traffic
          MaxPosts,           \* bound on the POSTs of rules
          MaxFailures,        \* bound on the requests and pushes that fail
          FlowsOutlive,       \* do connections outlive the rule they came through?
          NullWhenEmpty       \* is an empty connection table sent as null?

Ids == {LB} \cup Listeners

ASSUME CollectorAssumption ==
  /\ Workers # {} /\ None \notin Workers /\ None \notin Ids /\ LB \notin Listeners
  /\ IsFiniteSet(Endpoints) /\ IsFiniteSet(Flows)
  /\ Bursts \subseteq [packets : Nat, bytes : Nat]
  /\ None \notin [service : Listeners, established : BOOLEAN, packets : Nat, bytes : Nat]
  /\ FlowsOutlive \in BOOLEAN /\ NullWhenEmpty \in BOOLEAN

VARIABLES
  rules,      \* rules[l]: the rule of listener l on the node, None without one (external)
  conntrack,  \* the node's connection table (external)
  reported,   \* reported[i]: Octavia's figures for identifier i (external)
  thread,     \* _thread: the worker the collector knows of, or None
  stopping,   \* is _stop_event set?
  caller,     \* where the caller of start and stop is
  pc,         \* pc[w]: where worker w is; "ended" when it is not alive
  listed,     \* listed[w]: the rules w has read
  records,    \* records[w]: the figures w is about to push
  timed_out,  \* history: has a stop given up waiting for its worker?
  spent       \* what is used up of the bounds

node == <<rules, conntrack>>
control == <<thread, stopping, caller, timed_out>>
round == <<pc, listed, records>>
vars == <<node, reported, control, round, spent>>

NoRules == [l \in Listeners |-> None]
NoRecords == [i \in {} |-> None]

Init == /\ rules = NoRules
        /\ conntrack = [f \in Flows |-> None]
        /\ reported = [i \in Ids |-> None]
        /\ thread = None /\ stopping = FALSE /\ caller = "idle"
        /\ pc = [w \in Workers |-> "ended"]
        /\ listed = [w \in Workers |-> NoRules]
        /\ records = [w \in Workers |-> NoRecords]
        /\ spent = [bursts |-> 0, posts |-> 0, failures |-> 0]
        /\ timed_out = FALSE

Alive(w) == w # None /\ pc[w] # "ended"
-----------------------------------------------------------------------------
(* External: the node. *)

Zero == [packets |-> 0, bytes |-> 0]
Plus(a, b) == [packets |-> a.packets + b.packets, bytes |-> a.bytes + b.bytes]

\* The connection table once the rule of l is replaced or gone.
Purged(l) == [f \in Flows |-> IF ~ FlowsOutlive /\ f \in entries_of(conntrack, l)
                              THEN None ELSE conntrack[f]]

PostRule(l) ==
  /\ spent.posts < MaxPosts
  /\ rules' = [rules EXCEPT ![l] = [life |-> spent.posts + 1,
                                    counters |-> [e \in Endpoints |-> Zero]]]
  /\ conntrack' = Purged(l)
  /\ spent' = [spent EXCEPT !.posts = @ + 1]
  /\ UNCHANGED <<reported, control, round>>

DeleteRule(l) ==
  /\ rules[l] # None
  /\ rules' = [rules EXCEPT ![l] = None]
  /\ conntrack' = Purged(l)
  /\ UNCHANGED <<reported, control, round, spent>>

\* A burst on a connection, new or open, counts for the connection and for the
\* endpoint it goes to.
Traffic(f, l, e) ==
  /\ spent.bursts < MaxBursts
  /\ rules[l] # None
  /\ conntrack[f] # None => conntrack[f].service = l
  /\ \E b \in Bursts :
       LET before == IF conntrack[f] = None THEN Zero ELSE conntrack[f]
           after == Plus(before, b)
       IN  /\ conntrack' = [conntrack EXCEPT
                              ![f] = [service |-> l, established |-> TRUE,
                                      packets |-> after.packets, bytes |-> after.bytes]]
           /\ rules' = [rules EXCEPT ![l].counters[e] = Plus(@, b)]
  /\ spent' = [spent EXCEPT !.bursts = @ + 1]
  /\ UNCHANGED <<reported, control, round>>

\* A connection closes, and its entry goes.
Close(f) ==
  /\ conntrack[f] # None
  /\ \/ conntrack[f].established /\ conntrack' = [conntrack EXCEPT ![f].established = FALSE]
     \/ conntrack' = [conntrack EXCEPT ![f] = None]
  /\ UNCHANGED <<rules, reported, control, round, spent>>
-----------------------------------------------------------------------------
(* start and stop *)

Caller(from, to) == caller = from /\ caller' = to

start ==
  /\ Caller("idle", IF Alive(thread) THEN "idle" ELSE "clear")
  /\ UNCHANGED <<node, reported, thread, stopping, timed_out, round, spent>>

Clear ==
  /\ Caller("clear", "spawn")
  /\ stopping' = FALSE
  /\ UNCHANGED <<node, reported, thread, timed_out, round, spent>>

Spawn ==
  /\ Caller("spawn", "idle")
  /\ \E w \in Workers : ~ Alive(w)
  /\ thread' = CHOOSE w \in Workers : ~ Alive(w)
  /\ pc' = [pc EXCEPT ![thread'] = "while"]
  /\ UNCHANGED <<node, reported, stopping, timed_out, listed, records, spent>>

\* Faulty variant: the event is not set.
stop_quietly ==
  /\ Caller("idle", "join")
  /\ UNCHANGED <<node, reported, thread, stopping, timed_out, round, spent>>

stop ==
  /\ Caller("idle", "join")
  /\ stopping' = TRUE
  /\ UNCHANGED <<node, reported, thread, timed_out, round, spent>>

\* join(timeout=3.0) returns when the worker has ended, or when it has waited long
\* enough for it; the worker is forgotten in either case.
Join ==
  /\ Caller("join", "idle")
  /\ thread' = None
  /\ timed_out' = (timed_out \/ Alive(thread))
  /\ UNCHANGED <<node, reported, stopping, round, spent>>
-----------------------------------------------------------------------------
(* _run: a worker *)

Goes(w, from, to) == pc[w] = from /\ pc' = [pc EXCEPT ![w] = to]

While(w) ==
  /\ Goes(w, "while", IF stopping THEN "ended" ELSE "list")
  /\ UNCHANGED <<node, reported, control, listed, records, spent>>

\* list_loadbalancers.  That a 404 of the only node is an empty list is left out: a
\* round that lists no rules pushes nothing, like one that fails.
List(w) ==
  /\ Goes(w, "list", "track")
  /\ listed' = [listed EXCEPT ![w] = rules]
  /\ UNCHANGED <<node, reported, control, records, spent>>

Services(w) == {l \in Listeners : listed[w][l] # None}

\* What get_conntrack returns: the table, or an empty one when it is not found.
Tables == {conntrack, [f \in Flows |-> None]}

\* Where the loops over the rules raise because the table is None.
Raises(w, table) == NullWhenEmpty /\ Services(w) # {} /\ \A f \in Flows : table[f] = None

\* The listener that the name of each rule shows.
listener_shown == [l \in Listeners |-> listener_of(generate_service_name(LB, l), Ids)]

\* The records sync_all_statistics makes: one for each rule whose name shows a
\* listener; life is only for the properties.
RecordsOf(w, table) ==
  [i \in {listener_shown[l] : l \in Services(w)} \ {None} |->
     LET l == CHOOSE k \in Services(w) : listener_shown[k] = i
     IN  [life |-> listed[w][l].life,
          stats |-> stats_of(listed[w][l].counters, table, l)]]

\* get_conntrack, and the figures; without any there is nothing to push.
Track(w) ==
  /\ \E table \in Tables :
       /\ Goes(w, "track", IF Services(w) = {} \/ Raises(w, table) THEN "wait" ELSE "push")
       /\ records' = [records EXCEPT ![w] = IF Raises(w, table) THEN NoRecords
                                            ELSE RecordsOf(w, table)]
  /\ listed' = [listed EXCEPT ![w] = NoRules]
  /\ UNCHANGED <<node, reported, control, spent>>

Push(w) ==
  /\ Goes(w, "push", "wait")
  /\ reported' = [i \in Ids |-> IF i \in DOMAIN records[w] THEN records[w][i] ELSE reported[i]]
  /\ records' = [records EXCEPT ![w] = NoRecords]
  /\ UNCHANGED <<node, control, listed, spent>>

\* Faulty variant: nothing catches the exception.
AfterException == "ended"

\* A request raises and the exception is swallowed, or the push is refused.
AfterFailure == "wait"

Fails(w) ==
  /\ spent.failures < MaxFailures
  /\ pc[w] \in {"list", "track", "push"}
  /\ pc' = [pc EXCEPT ![w] = AfterFailure]
  /\ listed' = [listed EXCEPT ![w] = NoRules]
  /\ records' = [records EXCEPT ![w] = NoRecords]
  /\ spent' = [spent EXCEPT !.failures = @ + 1]
  /\ UNCHANGED <<node, reported, control>>

\* The wait ends after the interval or when the event is set.
Wait(w) ==
  /\ Goes(w, "wait", "while")
  /\ UNCHANGED <<node, reported, control, listed, records, spent>>

Run(w) == While(w) \/ List(w) \/ Track(w) \/ Push(w) \/ Fails(w) \/ Wait(w)

Control == Clear \/ Spawn \/ Join

Environment == \/ \E l \in Listeners : PostRule(l) \/ DeleteRule(l)
               \/ \E f \in Flows : \/ Close(f)
                                   \/ \E l \in Listeners, e \in Endpoints : Traffic(f, l, e)

Next == Environment \/ start \/ stop \/ Control \/ \E w \in Workers : Run(w)

\* Threads run; start and stop go on once they are called.
Fairness == WF_vars(Control) /\ \A w \in Workers : WF_vars(Run(w))

Spec == Init /\ [][Next]_vars
FairSpec == Spec /\ Fairness
-----------------------------------------------------------------------------
(* Properties *)

\* "Stop the background statistics synchronization thread" (synchronizer.py): when the
\* next worker is made, the one before it is stopped.  The join gives up after 3 s, and
\* start clears the event the old worker has yet to see.
OneWorker == \A v, w \in Workers : Alive(v) /\ Alive(w) => v = w

\* A collector that is stopped and not started again falls silent, also if stop gave up
\* waiting, a new worker was started meanwhile and both were forgotten.
StopsInTheEnd ==
  <>[](caller = "idle" /\ thread = None) => <>[](\A w \in Workers : ~ Alive(w))

\* Between start and stop the collector's worker lives and is not told to end,
\* whatever LoxiLB or Octavia answer it.
KeepsCollecting == caller = "idle" /\ thread # None => Alive(thread) /\ ~ stopping

\* Octavia's figures are of the listener whose traffic they are, and never show
\* more than went by: the rules are read before the connections, from a node that
\* goes on counting, and one byte is shown twice.
Bytes(l) == LET bytes == Total(rules[l].counters, "bytes") IN IF bytes = 1 THEN 2 ELSE bytes

ReportsAreReal ==
  /\ reported[LB] = None
  /\ \A l \in Listeners :
       reported[l] # None /\ rules[l] # None /\ reported[l].life = rules[l].life =>
         reported[l].stats.bytes_in + reported[l].stats.bytes_out <= Bytes(l)

\* While a rule lives the bytes Octavia shows for it never shrink, and those of an
\* earlier rule never come back, until a stop gives up waiting and leaves a worker
\* behind.
NeverGoBack ==
  [][~ timed_out' => \A l \in Listeners : reported[l] # None =>
       \/ reported'[l].life > reported[l].life
       \/ /\ reported'[l].life = reported[l].life
          /\ reported'[l].stats.bytes_in >= reported[l].stats.bytes_in
          /\ reported'[l].stats.bytes_out >= reported[l].stats.bytes_out]_vars

\* Every rule that stays is reported, with figures of its own and not of one that was
\* there before it, while the collector is not stopped.
EveryRuleIsReported ==
  \A l \in Listeners, life \in 1 .. MaxPosts :
    <>[](rules[l] # None /\ rules[l].life = life /\ thread # None /\ caller = "idle")
      => <>(reported[l] # None /\ reported[l].life = life)
=============================================================================
