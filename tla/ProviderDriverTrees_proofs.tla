---------------------- MODULE ProviderDriverTrees_proofs ----------------------
(***************************************************************************)
(* Load balancers that are created with all their children in one call and *)
(* deleted with them in one call.  Such calls make several requests and    *)
(* send several reports, which wait together and may overtake one another, *)
(* so that the rules need not be Octavia's while a report waits.           *)
(***************************************************************************)
EXTENDS ProviderDriverRules_proofs

\* The calls on whole load balancers.  Where a cascade reports the load balancer as
\* ACTIVE on the way, an update of everything would post its rules anew.
WholeTrees ==
  /\ Operations \subseteq {"loadbalancer_create", "tree", "loadbalancer_update",
                           "loadbalancer_failover", "loadbalancer_delete", "cascade"}
  /\ {"loadbalancer_update", "cascade"} \subseteq Operations => "full" \notin UpdateObjects
  /\ ~ RestMayFail /\ ~ GetsMayFail
  /\ Protocols \subseteq SUPPORTED_PROTOCOLS /\ Algorithms \subseteq DOMAIN LB_ALGORITHM_MAP
  /\ Persistences \cap {"HTTP_COOKIE", "APP_COOKIE"} = {}
  /\ MonitorTypes \subseteq SUPPORTED_HEALTH_MONITOR_TYPES

\* The requests a call has still to make, the rows and the statuses it will leave.
ToDo == IF call = None THEN <<>> ELSE call.todo
Database == IF call = None THEN db ELSE Written(call.rows)
State == IF call = None THEN prov ELSE Ahead(call.locks)

\* The load balancer is there, with the rules of its listeners or the requests for them.
Live(todo, d, st, r, due) ==
  /\ st[LB] \in {"PENDING_CREATE", "PENDING_UPDATE", "ACTIVE"}
  /\ \A p \in due : DOMAIN p = {LB} /\ p[LB] = "ACTIVE"
  /\ \A n \in 1 .. Len(todo) : RightStep(todo[n], d, st)
  /\ \A l \in Listeners :
       Right(d, st, l, r[l]) \/ \E n \in 1 .. Len(todo) : Addresses(todo[n], l)

\* It is deleted: no rule is posted, the last ones are being deleted, and a report is due
\* for each listener that Octavia still has.
Gone(todo, d, r, due) ==
  /\ \A n \in 1 .. Len(todo) : todo[n].verb # "POST"
  /\ \A l \in Listeners :
       /\ r[l] = None \/ \E n \in 1 .. Len(todo) : todo[n].verb = "DELETE" /\ todo[n].arg = l
       /\ d[l] = None \/ \E p \in due : l \in DOMAIN p

\* A report is about the load balancer, and about one listener that is deleted.
TreeReport(p) ==
  /\ LB \in DOMAIN p /\ DOMAIN p \subseteq {LB} \cup Listeners
  /\ \A l, k \in Listeners \cap DOMAIN p : p[l] = "DELETED" /\ l = k /\ "cascade" \in Operations

TreeInv ==
  /\ TypeInv /\ Tidy(db)
  /\ \A c \in Children : prov[c] # "PENDING_DELETE"
  /\ prov[LB] = "NONE" => \A c \in Children : db[c] = None
  /\ call # None => /\ ~ call.failed /\ Tidy(Database)
                    /\ \A n \in 1 .. Len(call.todo) : call.todo[n].verb # "RAISE"
                    /\ \A c \in Children : State[c] # "PENDING_DELETE"
                    /\ \A p \in Due : DOMAIN p \cap DOMAIN call.rows = {}
  /\ \A p \in Due : TreeReport(p)
  /\ Live(ToDo, Database, State, rules, Due) \/ Gone(ToDo, Database, rules, Due)
-----------------------------------------------------------------------------
(* The requests for a whole tree *)

\* An order leaves no listener out.
LEMMA OrderIsComplete ==
  ASSUME NEW S \in SUBSET Listeners, NEW order \in Orders(S), NEW l \in S
  PROVE  \E n \in DOMAIN order : order[n] = l
<1> DEFINE D == 1 .. Cardinality(S)
<1>1. IsFiniteSet(S) /\ Cardinality(S) \in Nat
  BY ResourcesAssumption, FS_Subset, FS_CardinalityType
<1>2. order \in [D -> S] /\ \A i, j \in D : i # j => order[i] # order[j]
  BY DEF Orders, SetToSeqs
<1>3. Cardinality(D) = Cardinality(S)
  BY <1>1, FS_Interval
<1> HIDE DEF D
<1>4. order \in Injection(D, S)
  BY <1>2 DEF Injection, IsInjective
<1>5. order \in Surjection(D, S)
  BY <1>1, <1>3, <1>4, FS_Injection
<1> QED BY <1>2, <1>5 DEF Surjection

\* The translator refuses no listener of a tree.
LEMMA TreesAreTaken ==
  ASSUME WholeTrees, NEW d, RowsTyped(d), Tidy(d), NEW l \in Listeners, d[l] # None,
         NEW s, s = reconcile_service(ProviderListener(d, l), None, None, None, None)
  PROVE  s.verb \in {"POST", "DELETE"} /\ s.report = None
<1> DEFINE listener == ProviderListener(d, l)
           pool == PoolOf(listener, None)
           entry == to_loxilb_service(LB, listener, None, None, None)
<1>1. get_field(listener.protocol, "TCP") \in SUPPORTED_PROTOCOLS
  <2>1. d[l] \in [protocol : Protocols] /\ listener.protocol = d[l].protocol
    BY RowsByKind DEF RowsTyped, Children, ProviderListener
  <2> QED BY <2>1 DEF WholeTrees, get_field, SUPPORTED_PROTOCOLS
<1>2. listener.protocol_port # None
  BY ListenerObject, ResourcesAssumption DEF Resources, Children
<1>3. pool # None => \E p \in Pools : d[p] # None /\ pool = ProviderPool(d, p)
  BY DEF PoolOf, ProviderListener, DefaultPools
<1>4. ASSUME NEW p \in Pools, d[p] # None, pool = ProviderPool(d, p)
      PROVE  /\ Algorithm(pool) \in DOMAIN LB_ALGORITHM_MAP
             /\ pool.session_persistence \notin {"HTTP_COOKIE", "APP_COOKIE"}
             /\ pool.healthmonitor # None => \E h \in Monitors : /\ d[h] # None
                                                                /\ pool.healthmonitor = ProviderMonitor(d, h)
  <2>1. d[p] \in [listener_id : Listeners \cup {None}, lb_algorithm : Algorithms,
                  session_persistence : Persistences \cup {None}]
    BY <1>4, RowsByKind DEF RowsTyped, Children
  <2>2. pool.lb_algorithm = d[p].lb_algorithm /\ pool.session_persistence = d[p].session_persistence
    BY <1>4 DEF ProviderPool
  <2>3. Algorithm(pool) \in DOMAIN LB_ALGORITHM_MAP
    BY <2>1, <2>2 DEF WholeTrees, Algorithm, get_field, LB_ALGORITHM_MAP
  <2>4. pool.session_persistence \notin {"HTTP_COOKIE", "APP_COOKIE"}
    BY <2>1, <2>2, NoneAssumption DEF WholeTrees
  <2>5. pool.healthmonitor # None => \E h \in Monitors : /\ d[h] # None
                                                        /\ pool.healthmonitor = ProviderMonitor(d, h)
    <3> DEFINE hs == InPool(d, p, Monitors)
    <3>1. pool.healthmonitor = IF hs = {} THEN None ELSE ProviderMonitor(d, CHOOSE h \in hs : TRUE)
      BY <1>4 DEF ProviderPool
    <3>2. \A h \in hs : h \in Monitors /\ d[h] # None
      BY DEF InPool
    <3> HIDE DEF hs
    <3>3. hs # {} => (CHOOSE h \in hs : TRUE) \in hs
      OBVIOUS
    <3> QED BY <3>1, <3>2, <3>3
  <2> QED BY <2>3, <2>4, <2>5
<1>5. ASSUME NEW h \in Monitors, d[h] # None
      PROVE  get_field(ProviderMonitor(d, h).type, "") \in SUPPORTED_HEALTH_MONITOR_TYPES
  <2>1. d[h] \in [pool_id : Pools, type : MonitorTypes, admin_state_up : BOOLEAN]
    BY <1>5, RowsByKind DEF RowsTyped, Children
  <2>2. ProviderMonitor(d, h).type = d[h].type /\ d[h].type \in MonitorTypes
    BY <2>1 DEF ProviderMonitor
  <2> QED BY <2>2, NoneAssumption DEF WholeTrees, get_field
<1>6. MonitorOf(pool, None) # None => pool # None /\ MonitorOf(pool, None) = pool.healthmonitor
  BY DEF MonitorOf
<1>7. Translatable(listener, pool, MonitorOf(pool, None))
  <2>1. pool # None => /\ Algorithm(pool) \in DOMAIN LB_ALGORITHM_MAP
                       /\ pool.session_persistence \notin {"HTTP_COOKIE", "APP_COOKIE"}
    BY <1>3, <1>4
  <2>2. Monitored(MonitorOf(pool, None)) =>
          MonitorType(MonitorOf(pool, None)) \in SUPPORTED_HEALTH_MONITOR_TYPES
    <3>1. SUFFICES ASSUME Monitored(MonitorOf(pool, None))
                   PROVE  MonitorType(MonitorOf(pool, None)) \in SUPPORTED_HEALTH_MONITOR_TYPES
      OBVIOUS
    <3>2. PICK h \in Monitors : d[h] # None /\ MonitorOf(pool, None) = ProviderMonitor(d, h)
      BY <3>1, <1>3, <1>4, <1>6 DEF Monitored
    <3> QED BY <3>2, <1>5 DEF MonitorType
  <2> QED BY <2>1, <2>2, <1>1, <1>2 DEF Translatable
<1>8. entry # Refused
  <2>1. /\ listener.protocol_port \in Listeners /\ listener.listener_id \in Listeners
        /\ pool # None => MembersKnown(pool.members)
        /\ MembersKnown(None)
    BY ListenerObject DEF MembersKnown, PoolOf
  <2>2. entry \in Rules
    BY <1>7, <2>1, EntryIsRule
  <2> QED BY <2>2, NoneAssumption
<1> QED BY <1>8 DEF reconcile_service, Post, Delete

\* A tree hangs together.
LEMMA TreeIsTidy ==
  ASSUME NEW rows \in Trees, \A c \in Children : db[c] = None
  PROVE  Tidy(Written(rows))
<1> DEFINE d == Written(rows)
<1>1. Rooted(rows) /\ DOMAIN rows \subseteq Children /\ \A r \in DOMAIN rows : rows[r] \in Rows(r)
  BY TreeRows DEF Trees
<1>2. \A r \in Children : d[r] = IF r \in DOMAIN rows THEN rows[r] ELSE None
  BY DEF Written
<1> HIDE DEF d
<1>3. \A r \in DOMAIN rows : rows[r] # None
  BY <1>1, NoneAssumption
<1>4. \A r \in Children : d[r] # None => r \in DOMAIN rows /\ d[r] = rows[r]
  BY <1>2
<1>5. Pools \subseteq Children /\ Monitors \subseteq Children /\ Listeners \subseteq Children
  BY DEF Children
<1>6. ASSUME NEW p \in Pools, d[p] # None, d[p].listener_id # None
      PROVE  d[d[p].listener_id] # None
  <2>1. p \in DOMAIN rows /\ d[p] = rows[p] /\ rows[p].listener_id \in DOMAIN rows
    BY <1>1, <1>4, <1>5, <1>6 DEF Rooted
  <2> QED BY <2>1, <1>1, <1>2, <1>3
<1>7. \A p, q \in Pools :
        d[p] # None /\ d[q] # None /\ d[p].listener_id # None /\ d[p].listener_id = d[q].listener_id
          => p = q
  BY <1>1, <1>4, <1>5 DEF Rooted
<1>8. \A h, k \in Monitors : d[h] # None /\ d[k] # None /\ d[h].pool_id = d[k].pool_id => h = k
  BY <1>1, <1>4, <1>5 DEF Rooted
<1>9. Tidy(d)
  BY <1>6, <1>7, <1>8 DEF Tidy
<1> QED BY <1>9 DEF d

\* What a handler plans for trees, and the reports it plans.
ReportsOf(todo) == {todo[n].report : n \in 1 .. Len(todo)} \ {None}

TreePlan(c) ==
  LET d == Written(c.rows)
      st == Ahead(c.locks)
      due == reports \cup ReportsOf(c.todo)
  IN  /\ Tidy(d)
      /\ \A n \in 1 .. Len(c.todo) : c.todo[n].verb # "RAISE"
      /\ \A r \in Children : st[r] # "PENDING_DELETE"
      /\ \A p \in ReportsOf(c.todo) : TreeReport(p)
      /\ \A p \in due : DOMAIN p \cap DOMAIN c.rows = {}
      /\ Live(c.todo, d, st, rules, due) \/ Gone(c.todo, d, rules, due)

\* Between two calls.
AtRest == /\ TypeInv /\ Tidy(db) /\ call = None
          /\ \A c \in Children : prov[c] # "PENDING_DELETE"
          /\ \A p \in reports : TreeReport(p)
          /\ \/ /\ prov[LB] \in {"PENDING_CREATE", "PENDING_UPDATE", "ACTIVE"}
                /\ \A p \in reports : DOMAIN p = {LB} /\ p[LB] = "ACTIVE"
                /\ \A l \in Listeners : Right(db, prov, l, rules[l])
             \/ \A l \in Listeners : rules[l] = None /\ (db[l] = None \/ \E p \in reports : l \in DOMAIN p)

LEMMA RestsBetweenCalls ==
  ASSUME TreeInv, call = None
  PROVE  AtRest
<1>1. ToDo = <<>> /\ Database = db /\ State = prov /\ Due = reports
  BY NoCallAhead DEF ToDo, Database, State
<1>2. Live(<<>>, db, prov, rules, reports) \/ Gone(<<>>, db, rules, reports)
  BY <1>1 DEF TreeInv
<1>3. 1 .. Len(<<>>) = {}
  OBVIOUS
<1> QED BY <1>1, <1>2, <1>3 DEF TreeInv, AtRest, Live, Gone

\* Without rows nothing is wanted.
LEMMA EmptyIsAtRest ==
  ASSUME AtRest, \A l \in Listeners : db[l] = None, NEW l \in Listeners
  PROVE  rules[l] = None
BY DEF AtRest, Right, ExistsIn, WantedIn

LEMMA OnlyBalancer ==
  ASSUME NEW value \in {"ACTIVE", "DELETED"}
  PROVE  LET p == Only(LB, value)
         IN  TreeReport(p) /\ p # None /\ DOMAIN p = {LB} /\ p[LB] = value
<1>1. LB \in Resources /\ LB \notin Listeners
  BY KindsDiffer DEF Resources
<1>2. Only(LB, value) # None /\ DOMAIN Only(LB, value) = {LB} /\ Only(LB, value)[LB] = value
  BY <1>1, OnlyIsReport
<1> QED BY <1>1, <1>2 DEF TreeReport
-----------------------------------------------------------------------------
(* What the handlers plan *)

\* Steps that are followed by the report of the load balancer.
LEMMA StepsThenReport ==
  ASSUME NEW q, NEW k \in Nat, q = [n \in 1 .. k |-> q[n]], NEW s, NEW todo, todo = Append(q, s)
  PROVE  /\ Len(todo) = k + 1 /\ todo[k + 1] = s /\ k + 1 \in 1 .. Len(todo)
         /\ \A n \in 1 .. k : todo[n] = q[n] /\ n \in 1 .. Len(todo)
         /\ \A n \in 1 .. Len(todo) : n = k + 1 \/ n \in 1 .. k
<1>1. Len(todo) = k + 1 /\ \A n \in 1 .. k + 1 : todo[n] = IF n = k + 1 THEN s ELSE q[n]
  BY AppendIsSequence
<1>2. k + 1 \in 1 .. k + 1 /\ \A n \in 1 .. k : n \in 1 .. k + 1 /\ n # k + 1
  OBVIOUS
<1>3. \A n \in 1 .. k + 1 : n = k + 1 \/ n \in 1 .. k
  OBVIOUS
<1> QED BY ONLY <1>1, <1>2, <1>3

\* The requests for the listeners of a database are right, and leave none out.
Configures(todo, order, d, st, S) ==
  /\ RowsTyped(d) /\ Tidy(d)
  /\ st[LB] \in {"PENDING_CREATE", "PENDING_UPDATE"}
  /\ \A c \in Children : st[c] # "PENDING_DELETE"
  /\ S = {l \in Listeners : d[l] # None} /\ order \in Orders(S)
  /\ todo = Append(configure_listeners(d, order), Report(Only(LB, "ACTIVE")))

LEMMA ConfigureIsRight ==
  ASSUME WholeTrees, NEW todo, NEW order, NEW d, NEW st, NEW S, Configures(todo, order, d, st, S)
  PROVE  /\ \A n \in 1 .. Len(todo) : todo[n].verb # "RAISE" /\ RightStep(todo[n], d, st)
         /\ \A l \in S : \E n \in 1 .. Len(todo) : Addresses(todo[n], l)
         /\ ReportsOf(todo) = {Only(LB, "ACTIVE")}
<1> USE DEF Configures
<1> DEFINE q == configure_listeners(d, order)
           last == Report(Only(LB, "ACTIVE"))
<1>1. PICK k \in Nat : DOMAIN order = 1 .. k
  BY OrderOfListeners
<1>2. \A n \in 1 .. k : order[n] \in S
  BY <1>1, OrderOfListeners
<1>3. q = [n \in 1 .. k |-> q[n]]
  BY <1>1, <1>2, ConfigureIsQuiet
<1>4. \A n \in 1 .. k : q[n] = reconcile_service(ProviderListener(d, order[n]), None, None, None, None)
  BY <1>1 DEF configure_listeners
<1>5. /\ last.verb = "NONE" /\ last.report = Only(LB, "ACTIVE") /\ last.report # None
      /\ RightStep(last, d, st)
  BY OnlyBalancer, ReportIsRight DEF Report
<1>6. todo = Append(q, last)
  OBVIOUS
<1> HIDE DEF q, last
<1>7. /\ Len(todo) = k + 1 /\ todo[k + 1] = last /\ k + 1 \in 1 .. Len(todo)
      /\ \A n \in 1 .. k : todo[n] = q[n] /\ n \in 1 .. Len(todo)
      /\ \A n \in 1 .. Len(todo) : n = k + 1 \/ n \in 1 .. k
  BY ONLY <1>3, <1>6, StepsThenReport, k \in Nat
<1>8. ASSUME NEW n \in 1 .. k
      PROVE  /\ RightStep(q[n], d, st) /\ Addresses(q[n], order[n])
             /\ q[n].verb # "RAISE" /\ q[n].report = None
  <2>1. PICK l \in Listeners : l = order[n] /\ d[l] # None
    BY <1>2
  <2>2. ExistsIn(d, st, l)
    BY <2>1, KindsDiffer DEF ExistsIn, WantedIn
  <2>3. q[n] = reconcile_service(ProviderListener(d, l), None, None, None, None)
    BY <1>4, <2>1
  <2>4. RightStep(q[n], d, st) /\ Addresses(q[n], l)
    BY <2>2, <2>3, WholeTreeIsRight
  <2>5. q[n].verb \in {"POST", "DELETE"} /\ q[n].report = None
    BY <2>1, <2>3, TreesAreTaken
  <2> QED BY <2>1, <2>4, <2>5
<1>9. \A n \in 1 .. Len(todo) : todo[n].verb # "RAISE" /\ RightStep(todo[n], d, st)
  BY <1>5, <1>7, <1>8
<1>10. ASSUME NEW l \in S PROVE \E n \in 1 .. Len(todo) : Addresses(todo[n], l)
  <2>1. PICK n \in 1 .. k : order[n] = l
    BY <1>1, OrderIsComplete
  <2> QED BY <1>7, <1>8, <2>1
<1>11. ReportsOf(todo) = {Only(LB, "ACTIVE")}
  BY <1>5, <1>7, <1>8 DEF ReportsOf
<1> QED BY <1>9, <1>10, <1>11

LEMMA CreatePlansTree ==
  ASSUME WholeTrees, AtRest, loadbalancer_create
  PROVE  TreePlan(call')
<1> DEFINE all == IF "tree" \in Operations THEN Trees ELSE {NoRows}
<1>1. PICK rows \in all :
        \E order \in Orders(Listeners \cap DOMAIN rows) :
          ServeOr("loadbalancer_create",
                  Append(configure_listeners(Written(rows), order), Report(Only(LB, "ACTIVE"))),
                  rows, [r \in {LB} \cup DOMAIN rows |-> "PENDING_CREATE"],
                  IF order = <<>> THEN None ELSE Only(LB, "ERROR"))
  BY DEF loadbalancer_create
<1>2. (\A c \in Children : db[c] = None) /\ reports = {} /\ TypeInv
  BY KindsDiffer DEF loadbalancer_create, AtRest, TypeInv
<1> DEFINE d == Written(rows)
           S == Listeners \cap DOMAIN rows
           locks == [r \in {LB} \cup DOMAIN rows |-> "PENDING_CREATE"]
           st == Ahead(locks)
<1>3. /\ DOMAIN rows \subseteq Children /\ \A r \in DOMAIN rows : rows[r] \in Rows(r)
      /\ Tidy(d)
  <2>1. CASE rows \in Trees
    BY <1>2, <2>1, TreeRows, TreeIsTidy
  <2>2. CASE rows = NoRows
    <3>1. DOMAIN rows = {}
      BY <2>2 DEF NoRows
    <3>2. \A c \in Children : d[c] = None
      BY <1>2, <3>1 DEF Written
    <3> HIDE DEF d
    <3> QED BY <3>1, <3>2, KindsDiffer DEF Tidy, Leaves
  <2> QED BY <2>1, <2>2
<1>4. RowsTyped(d)
  BY <1>2, <1>3, WrittenIsTyped
<1>5. \A r \in Children : d[r] = IF r \in DOMAIN rows THEN rows[r] ELSE None
  BY <1>2 DEF Written
<1>6. S = {l \in Listeners : d[l] # None}
  <2>1. \A r \in DOMAIN rows : rows[r] # None
    BY <1>3, NoneAssumption
  <2> HIDE DEF d
  <2> QED BY <1>5, <2>1, KindsDiffer
<1>7. st[LB] = "PENDING_CREATE" /\ \A c \in Children : st[c] # "PENDING_DELETE"
  BY KindsDiffer DEF Ahead, AtRest
<1>8. PICK order \in Orders(S) :
        /\ call'.todo = Append(configure_listeners(d, order), Report(Only(LB, "ACTIVE")))
        /\ call'.rows = rows /\ call'.locks = locks
  BY <1>1 DEF ServeOr
<1> DEFINE todo == call'.todo
<1> HIDE DEF d, st, S, locks
<1>9. /\ \A n \in 1 .. Len(todo) : todo[n].verb # "RAISE" /\ RightStep(todo[n], d, st)
      /\ \A l \in S : \E n \in 1 .. Len(todo) : Addresses(todo[n], l)
      /\ ReportsOf(todo) = {Only(LB, "ACTIVE")}
  <2>1. Configures(todo, order, d, st, S)
    BY <1>3, <1>4, <1>6, <1>7, <1>8 DEF Configures
  <2> HIDE DEF todo
  <2> QED BY <2>1, ConfigureIsRight
<1>10. ASSUME NEW l \in Listeners
       PROVE  Right(d, st, l, rules[l]) \/ \E n \in 1 .. Len(todo) : Addresses(todo[n], l)
  <2>1. CASE l \in S
    BY <1>9, <2>1
  <2>2. CASE l \notin S
    <3>1. d[l] = None /\ rules[l] = None
      BY <1>2, <1>6, <2>2, EmptyIsAtRest, KindsDiffer
    <3> QED BY <3>1 DEF Right, ExistsIn, WantedIn
  <2> QED BY <2>1, <2>2
<1>11. Live(todo, d, st, rules, reports \cup ReportsOf(todo))
  BY <1>2, <1>7, <1>9, <1>10, OnlyBalancer DEF Live
<1>12. \A p \in ReportsOf(todo) : TreeReport(p)
  BY <1>9, OnlyBalancer
<1>13. Written(call'.rows) = d /\ Ahead(call'.locks) = st
  BY <1>8 DEF d, st
<1>14. \A p \in reports \cup ReportsOf(todo) : DOMAIN p \cap DOMAIN call'.rows = {}
  <2>1. DOMAIN Only(LB, "ACTIVE") = {LB}
    BY DEF Only
  <2>2. LB \notin DOMAIN call'.rows
    BY <1>3, <1>8, KindsDiffer
  <2> QED BY <1>2, <1>9, <2>1, <2>2
<1> QED BY <1>3, <1>7, <1>8, <1>9, <1>11, <1>12, <1>13, <1>14 DEF TreePlan

LEMMA NothingIsTidy ==
  ASSUME AtRest
  PROVE  /\ Tidy(Written(NoRows)) /\ DOMAIN NoRows = {}
         /\ \A r \in Children : Written(NoRows)[r] = db[r]
<1>1. (\A r \in Children : Written(NoRows)[r] = db[r]) /\ DOMAIN NoRows = {}
  BY DEF Written, NoRows
<1>2. \A p \in Pools : db[p] # None => db[p].listener_id \in Listeners \cup {None}
  <2>1. \A p \in Pools : db[p] # None =>
          db[p] \in [listener_id : Listeners \cup {None}, lb_algorithm : Algorithms,
                     session_persistence : Persistences \cup {None}]
    BY RowsByKind DEF AtRest, TypeInv, TypeOK, Children
  <2> QED BY <2>1
<1> QED BY <1>1, <1>2 DEF AtRest, Tidy, Children

\* A call that writes no rows, and reports the load balancer as ACTIVE at its end.
LEMMA UpdatePlansTree ==
  ASSUME AtRest, prov[LB] = "ACTIVE", NEW c, c.rows = NoRows, c.locks = Only(LB, "PENDING_UPDATE"),
         \A n \in 1 .. Len(c.todo) : IsStep(c.todo[n]),
         \A n \in 1 .. Len(c.todo) : c.todo[n].verb # "RAISE" /\ RightStep(c.todo[n], db, Ahead(c.locks)),
         ReportsOf(c.todo) = {Only(LB, "ACTIVE")},
         (\A l \in Listeners : db[l] = None \/ \E p \in reports : l \in DOMAIN p)
           => \A n \in 1 .. Len(c.todo) : c.todo[n].verb # "POST"
  PROVE  TreePlan(c)
<1> DEFINE d == Written(c.rows)
           st == Ahead(c.locks)
           due == reports \cup ReportsOf(c.todo)
<1>1. /\ DOMAIN c.rows = {} /\ DOMAIN c.locks = {LB} /\ c.locks[LB] = "PENDING_UPDATE"
      /\ \A r \in Children : d[r] = db[r] /\ st[r] = prov[r] /\ st[r] # "PENDING_DELETE"
      /\ st[LB] = "PENDING_UPDATE" /\ Tidy(d)
  BY NothingIsTidy, KindsDiffer DEF Only, Ahead, AtRest
<1>2. ASSUME NEW l \in Listeners, NEW rule
      PROVE  /\ Right(db, prov, l, rule) <=> Right(d, st, l, rule)
             /\ Right(db, st, l, rule) <=> Right(d, st, l, rule)
  <2>1. l \notin DOMAIN c.locks /\ Closed(c.rows, c.locks)
    BY <1>1, KindsDiffer DEF Closed
  <2>2. Right(db, prov, l, rule) <=> Right(d, st, l, rule)
    BY <1>1, <2>1, OthersStayRight
  <2> HIDE DEF d, st
  <2>3. ExistsIn(db, st, l) <=> ExistsIn(d, st, l)
    BY <1>1, KindsDiffer DEF ExistsIn, WantedIn
  <2>4. \A r \in Pools \cup Leaves : db[r] = d[r]
    BY <1>1, KindsDiffer
  <2>5. Right(db, st, l, rule) <=> Right(d, st, l, rule)
    BY <2>3, <2>4, SameRight
  <2> QED BY <2>2, <2>5
<1>3. \A p \in ReportsOf(c.todo) : TreeReport(p) /\ DOMAIN p = {LB} /\ p[LB] = "ACTIVE"
  BY OnlyBalancer
<1> HIDE DEF d, st
<1>4. CASE \A l \in Listeners : rules[l] = None /\ (db[l] = None \/ \E p \in reports : l \in DOMAIN p)
  <2>1. Gone(c.todo, d, rules, due)
    BY <1>1, <1>4, KindsDiffer DEF Gone
  <2> QED BY <1>1, <1>3, <2>1 DEF TreePlan, d, st
<1>5. CASE /\ \A p \in reports : DOMAIN p = {LB} /\ p[LB] = "ACTIVE"
           /\ \A l \in Listeners : Right(db, prov, l, rules[l])
  <2>1. \A n \in 1 .. Len(c.todo) : RightStep(c.todo[n], d, st)
    <3> SUFFICES ASSUME NEW n \in 1 .. Len(c.todo) PROVE RightStep(c.todo[n], d, st)
      OBVIOUS
    <3>1. PICK s : s = c.todo[n]
      OBVIOUS
    <3>2. RightStep(s, db, st)
      BY <3>1 DEF st
    <3>3. /\ s.verb = "POST" => s.arg.port \in Listeners
          /\ s.verb = "DELETE" => s.arg \in Listeners
      BY <3>1 DEF IsStep, Rules
    <3> QED BY <1>2, <3>1, <3>2, <3>3 DEF RightStep
  <2>2. Live(c.todo, d, st, rules, due)
    BY <1>1, <1>2, <1>3, <1>5, <2>1 DEF Live
  <2> QED BY <1>1, <1>3, <2>2 DEF TreePlan, d, st
<1> QED BY <1>4, <1>5 DEF AtRest

\* A report alone.
LEMMA ReportAlone ==
  ASSUME NEW todo, todo = <<Report(Only(LB, "ACTIVE"))>>, NEW d, NEW st
  PROVE  /\ ReportsOf(todo) = {Only(LB, "ACTIVE")}
         /\ \A n \in 1 .. Len(todo) : todo[n].verb = "NONE" /\ RightStep(todo[n], d, st)
<1> DEFINE s == Report(Only(LB, "ACTIVE"))
<1>1. s.verb = "NONE" /\ s.report = Only(LB, "ACTIVE") /\ s.report # None
  BY OnlyBalancer DEF Report
<1> HIDE DEF s
<1>2. Len(todo) = 1 /\ 1 .. 1 = {1} /\ todo[1] = s
  BY DEF s
<1> QED BY <1>1, <1>2 DEF ReportsOf, RightStep

LEMMA FailoverPlansTree ==
  ASSUME AtRest, loadbalancer_failover, Planned
  PROVE  TreePlan(call')
<1>1. /\ prov[LB] = "ACTIVE" /\ call'.todo = <<Report(Only(LB, "ACTIVE"))>>
      /\ call'.rows = NoRows /\ call'.locks = Only(LB, "PENDING_UPDATE")
  BY DEF loadbalancer_failover, Mutable, Serve, ServeOr
<1>2. \A n \in 1 .. Len(call'.todo) : IsStep(call'.todo[n])
  BY DEF Planned, WellTyped
<1>3. PICK c : c = call'
  OBVIOUS
<1> QED BY ONLY AtRest, <1>1, <1>2, <1>3, ReportAlone, UpdatePlansTree

LEMMA UpdateOfTreePlans ==
  ASSUME WholeTrees, AtRest, loadbalancer_update, Planned
  PROVE  TreePlan(call')
<1> DEFINE locks == Only(LB, "PENDING_UPDATE")
           last == Report(Only(LB, "ACTIVE"))
<1>1. PICK kind \in UpdateObjects :
        \E order \in Orders(IF kind = "full" THEN {l \in Listeners : db[l] # None} ELSE {}) :
          Serve("loadbalancer_update", Append(configure_listeners(db, order), last), NoRows, locks)
  BY DEF loadbalancer_update
<1> DEFINE S == IF kind = "full" THEN {l \in Listeners : db[l] # None} ELSE {}
<1>2. PICK order \in Orders(S) :
        Serve("loadbalancer_update", Append(configure_listeners(db, order), last), NoRows, locks)
  BY <1>1
<1>3. S \in SUBSET Listeners
  OBVIOUS
<1> HIDE DEF S
<1>4. /\ call'.todo = Append(configure_listeners(db, order), last)
      /\ call'.rows = NoRows /\ call'.locks = locks /\ "loadbalancer_update" \in Operations
      /\ prov[LB] = "ACTIVE"
  BY <1>2 DEF Serve, ServeOr, loadbalancer_update, Mutable
<1>5. \A n \in 1 .. Len(call'.todo) : IsStep(call'.todo[n])
  BY DEF Planned, WellTyped
<1>6. S = {} => call'.todo = <<last>>
  <2> SUFFICES ASSUME S = {} PROVE call'.todo = <<last>>
    OBVIOUS
  <2>1. order = <<>>
    BY <1>3, OrderOfListeners
  <2>2. configure_listeners(db, order) = <<>>
    BY <2>1 DEF configure_listeners
  <2> HIDE DEF last
  <2> QED BY <1>4, <2>2
<1>7. PICK c : c = call'
  OBVIOUS
<1> DEFINE st == Ahead(locks)
<1>8. CASE S = {}
  <2>1. /\ ReportsOf(c.todo) = {Only(LB, "ACTIVE")}
        /\ \A n \in 1 .. Len(c.todo) : c.todo[n].verb = "NONE" /\ RightStep(c.todo[n], db, st)
    BY <1>6, <1>7, <1>8, ReportAlone
  <2> QED BY <1>4, <1>5, <1>7, <2>1, UpdatePlansTree
<1>9. CASE S # {}
  <2>1. kind = "full" /\ S = {l \in Listeners : db[l] # None}
    BY <1>9 DEF S
  <2>2. "cascade" \notin Operations
    BY <1>4, <2>1 DEF WholeTrees
  <2>3. ~ (\A l \in Listeners : db[l] = None \/ \E p \in reports : l \in DOMAIN p)
    BY <1>9, <2>1, <2>2 DEF AtRest, TreeReport
  <2>4. st[LB] = "PENDING_UPDATE" /\ \A r \in Children : st[r] # "PENDING_DELETE"
    BY KindsDiffer DEF Ahead, Only, AtRest
  <2>5. RowsTyped(db) /\ Tidy(db)
    BY RowsWhereActive DEF AtRest
  <2> HIDE DEF st
  <2>6. Configures(c.todo, order, db, st, S)
    BY <1>4, <1>7, <2>1, <2>4, <2>5 DEF Configures
  <2>7. /\ \A n \in 1 .. Len(c.todo) : c.todo[n].verb # "RAISE" /\ RightStep(c.todo[n], db, st)
        /\ ReportsOf(c.todo) = {Only(LB, "ACTIVE")}
    BY <2>6, ConfigureIsRight
  <2> QED BY <1>4, <1>5, <1>7, <2>3, <2>7, UpdatePlansTree DEF st
<1> QED BY <1>8, <1>9

\* The deletions of a cascade: each reports its listener, and the load balancer as ACTIVE.
LEMMA CascadeStep ==
  ASSUME WholeTrees, "cascade" \in Operations, NEW l \in Listeners, NEW gets \in Gets,
         NEW s, s = deletion_of_listener(l, gets)
  PROVE  /\ s.verb = "DELETE" /\ s.arg = l /\ s.report # None /\ l \in DOMAIN s.report
         /\ TreeReport(s.report)
<1> DEFINE p == StatusOf(Only(l, "DELETED"), {LB})
<1>1. s = Delete(l, p)
  BY ResolvedLoadBalancer, ResourcesAssumption DEF deletion_of_listener, WholeTrees, Resources
<1>2. l # LB /\ l \in Resources /\ LB # None /\ LB \notin Listeners
  BY KindsDiffer, ResourcesAssumption
<1>3. DOMAIN p = {l, LB} /\ p[l] = "DELETED"
  BY <1>2 DEF StatusOf, Only
<1>4. p # None
  <2>1. IsReport(Only(l, "DELETED")) /\ {LB} \in SUBSET (Resources \cup {None})
    BY <1>2, OnlyIsReport, KindsDiffer
  <2> QED BY <2>1, StatusOfIsReport
<1> HIDE DEF p
<1> QED BY <1>1, <1>2, <1>3, <1>4 DEF Delete, TreeReport

LEMMA DeletePlansTree ==
  ASSUME WholeTrees, AtRest, NEW cascade \in BOOLEAN, loadbalancer_delete(cascade)
  PROVE  TreePlan(call')
<1> DEFINE S == {l \in Listeners : db[l] # None}
           by_name == DeleteByName(<<LB>>, Only(LB, "DELETED"))
           last == Report(Only(LB, "DELETED"))
           locks == Only(LB, "PENDING_DELETE")
           d == Written(NoRows)
           st == Ahead(locks)
<1>1. PICK gets \in [Listeners -> Gets], order \in Orders(S) :
        Serve(IF cascade THEN "cascade" ELSE "loadbalancer_delete",
              IF order = <<>> THEN <<by_name>>
              ELSE Append([n \in DOMAIN order |-> deletion_of_listener(order[n], gets[order[n]])], last),
              NoRows, locks)
  BY DEF loadbalancer_delete
<1> DEFINE q == [n \in DOMAIN order |-> deletion_of_listener(order[n], gets[order[n]])]
<1>2. PICK c : c = call'
  OBVIOUS
<1>3. /\ c.rows = NoRows /\ c.locks = locks
      /\ c.todo = IF order = <<>> THEN <<by_name>> ELSE Append(q, last)
      /\ cascade => "cascade" \in Operations
  BY <1>1, <1>2 DEF Serve, ServeOr
<1>4. /\ \A r \in Children : d[r] = db[r] /\ st[r] # "PENDING_DELETE"
      /\ Tidy(d)
  BY NothingIsTidy, KindsDiffer DEF Only, Ahead, AtRest
<1>5. /\ last.verb = "NONE" /\ last.report = Only(LB, "DELETED")
      /\ by_name.verb = "DELETE_BY_NAME" /\ by_name.report = Only(LB, "DELETED")
  BY DEF Report, DeleteByName
<1>6. PICK p : p = Only(LB, "DELETED") /\ p # None /\ TreeReport(p)
  BY OnlyBalancer
<1>7. \A r : DOMAIN r \cap DOMAIN c.rows = {}
  BY <1>3, NothingIsTidy
<1> HIDE DEF q, last, by_name, locks, d, st
<1>8. CASE order = <<>>
  <2>1. S = {}
    <3>1. DOMAIN <<>> = {}
      OBVIOUS
    <3> QED BY <1>8, <3>1, OrderIsComplete
  <2>2. Len(c.todo) = 1 /\ 1 .. 1 = {1} /\ c.todo[1] = by_name
    BY <1>3, <1>8
  <2>3. \A l \in Listeners : rules[l] = None /\ d[l] = None
    BY <1>4, <2>1, EmptyIsAtRest, KindsDiffer
  <2>4. Gone(c.todo, d, rules, reports \cup ReportsOf(c.todo))
    BY <1>5, <2>2, <2>3 DEF Gone
  <2>5. \A r \in ReportsOf(c.todo) : TreeReport(r)
    BY <1>5, <1>6, <2>2 DEF ReportsOf
  <2>6. \A n \in 1 .. Len(c.todo) : c.todo[n].verb # "RAISE"
    BY <1>5, <2>2
  <2>7. Written(c.rows) = d /\ Ahead(c.locks) = st
    BY <1>3 DEF d, st
  <2> QED BY <1>2, <1>4, <1>7, <2>4, <2>5, <2>6, <2>7 DEF TreePlan
<1>9. CASE order # <<>>
  <2>1. S # {}
    BY <1>9, OrderOfListeners
  <2>2. cascade
    <3> SUFFICES ASSUME ~ cascade PROVE FALSE
      OBVIOUS
    <3>1. \A r \in Children : prov[r] = "NONE"
      BY DEF loadbalancer_delete
    <3> QED BY <2>1, <3>1, KindsDiffer DEF AtRest, TypeInv
  <2>3. PICK k \in Nat : DOMAIN order = 1 .. k
    BY OrderOfListeners
  <2>4. \A n \in 1 .. k : order[n] \in Listeners
    BY <2>3, OrderOfListeners
  <2>5. q = [n \in 1 .. k |-> q[n]] /\ \A n \in 1 .. k : q[n] = deletion_of_listener(order[n], gets[order[n]])
    BY <2>3 DEF q
  <2>6. ASSUME NEW n \in 1 .. k
        PROVE  /\ q[n].verb = "DELETE" /\ q[n].arg = order[n] /\ q[n].report # None
               /\ order[n] \in DOMAIN q[n].report /\ TreeReport(q[n].report)
    <3>1. gets[order[n]] \in Gets
      BY <2>4
    <3> QED BY <1>3, <2>2, <2>4, <2>5, <3>1, CascadeStep
  <2>7. PICK todo : todo = c.todo /\ todo = Append(q, last)
    BY <1>3, <1>9
  <2>8. /\ Len(todo) = k + 1 /\ todo[k + 1] = last /\ k + 1 \in 1 .. Len(todo)
        /\ \A n \in 1 .. k : todo[n] = q[n] /\ n \in 1 .. Len(todo)
        /\ \A n \in 1 .. Len(todo) : n = k + 1 \/ n \in 1 .. k
    BY ONLY <2>5, <2>7, StepsThenReport, k \in Nat
  <2>9. ASSUME NEW l \in S PROVE \E n \in 1 .. k : order[n] = l
    BY <2>3, <2>9, OrderIsComplete
  <2>10. \A r \in ReportsOf(todo) : TreeReport(r)
    BY <1>5, <1>6, <2>6, <2>8 DEF ReportsOf
  <2>11. \A n \in 1 .. Len(todo) : todo[n].verb \notin {"RAISE", "POST"}
    BY <1>5, <2>6, <2>8
  <2>12. ASSUME NEW l \in Listeners, l \notin S PROVE rules[l] = None /\ d[l] = None
    BY <1>4, <2>12, KindsDiffer DEF AtRest, Right, ExistsIn, WantedIn
  <2>13. ASSUME NEW l \in S
         PROVE  /\ \E n \in 1 .. Len(todo) : todo[n].verb = "DELETE" /\ todo[n].arg = l
                /\ \E r \in ReportsOf(todo) : l \in DOMAIN r
    <3>1. PICK n \in 1 .. k : order[n] = l
      BY <2>9
    <3> QED BY <2>6, <2>8, <3>1 DEF ReportsOf
  <2>14. Gone(todo, d, rules, reports \cup ReportsOf(todo))
    <3> HIDE DEF S
    <3> QED BY <2>11, <2>12, <2>13 DEF Gone
  <2>15. Written(c.rows) = d /\ Ahead(c.locks) = st
    BY <1>3 DEF d, st
  <2> QED BY <1>2, <1>4, <1>7, <2>7, <2>10, <2>11, <2>14, <2>15 DEF TreePlan
<1> QED BY <1>8, <1>9

LEMMA TreesPlanned ==
  ASSUME WholeTrees, TreeInv, Handler
  PROVE  TreePlan(call') /\ Planned
<1>1. Planned
  BY HandlerPlans DEF TreeInv
<1>2. AtRest
  BY <1>1, RestsBetweenCalls DEF Planned
<1>3. \A operation, todo, rows, locks : Serve(operation, todo, rows, locks) =>
        operation \in Operations
  BY DEF Serve, ServeOr
<1>10. /\ "listener_create" \notin Operations /\ "listener_update" \notin Operations
       /\ "listener_delete" \notin Operations
       /\ "pool_create" \notin Operations /\ "pool_update" \notin Operations
       /\ "pool_delete" \notin Operations
       /\ "member_create" \notin Operations /\ "member_update" \notin Operations
       /\ "member_delete" \notin Operations /\ "member_batch_update" \notin Operations
       /\ "health_monitor_create" \notin Operations /\ "health_monitor_update" \notin Operations
       /\ "health_monitor_delete" \notin Operations /\ "l7" \notin Operations
  BY DEF WholeTrees
<1>4. \A l : ~ listener_create(l) /\ ~ listener_update(l) /\ ~ listener_delete(l)
  <2>1. \A l : ~ listener_create(l)
    BY ONLY <1>3, <1>10 DEF listener_create
  <2>2. ASSUME NEW l, listener_update(l) PROVE FALSE
    <3>1. \E todo, rows, locks : Serve("listener_update", todo, rows, locks)
      BY <2>2 DEF listener_update
    <3> QED BY ONLY <1>3, <1>10, <3>1
  <2>3. \A l : ~ listener_delete(l)
    BY ONLY <1>3, <1>10 DEF listener_delete
  <2> QED BY <2>1, <2>2, <2>3
<1>5. \A p : ~ pool_create(p) /\ ~ pool_update(p) /\ ~ pool_delete(p)
  <2>1. \A p : ~ pool_create(p)
    BY ONLY <1>3, <1>10 DEF pool_create
  <2>2. \A p : ~ pool_update(p)
    BY ONLY <1>3, <1>10 DEF pool_update
  <2>3. \A p : ~ pool_delete(p)
    BY ONLY <1>3, <1>10 DEF pool_delete
  <2> QED BY <2>1, <2>2, <2>3
<1>6. /\ \A m : ~ member_create(m) /\ ~ member_update(m) /\ ~ member_delete(m)
      /\ \A p : ~ member_batch_update(p)
  <2>1. \A m : ~ member_create(m)
    BY ONLY <1>3, <1>10 DEF member_create
  <2>2. \A m : ~ member_update(m)
    BY ONLY <1>3, <1>10 DEF member_update
  <2>3. \A m : ~ member_delete(m)
    BY ONLY <1>3, <1>10 DEF member_delete
  <2>4. \A p : ~ member_batch_update(p)
    BY ONLY <1>3, <1>10 DEF member_batch_update
  <2> QED BY <2>1, <2>2, <2>3, <2>4
<1>7. /\ \A h : ~ health_monitor_create(h) /\ ~ health_monitor_update(h) /\ ~ health_monitor_delete(h)
      /\ \A l : ~ l7policy_or_l7rule(l)
  <2>1. \A h : ~ health_monitor_create(h)
    BY ONLY <1>3, <1>10 DEF health_monitor_create
  <2>2. \A h : ~ health_monitor_update(h)
    BY ONLY <1>3, <1>10 DEF health_monitor_update
  <2>3. \A h : ~ health_monitor_delete(h)
    BY ONLY <1>3, <1>10 DEF health_monitor_delete
  <2>4. \A l : ~ l7policy_or_l7rule(l)
    BY ONLY <1>3, <1>10 DEF l7policy_or_l7rule
  <2> QED BY <2>1, <2>2, <2>3, <2>4
<1>8. \/ loadbalancer_create \/ loadbalancer_update \/ loadbalancer_failover
      \/ loadbalancer_delete(TRUE) \/ loadbalancer_delete(FALSE)
  BY <1>4, <1>5, <1>6, <1>7 DEF Handler
<1>9. TRUE \in BOOLEAN /\ FALSE \in BOOLEAN
  OBVIOUS
<1> QED BY <1>1, <1>2, <1>8, <1>9, CreatePlansTree, UpdateOfTreePlans, FailoverPlansTree,
           DeletePlansTree
-----------------------------------------------------------------------------
(* The steps keep the trees *)

\* What is between two calls, and during a call.
TreeBase ==
  /\ TypeInv /\ Tidy(db)
  /\ \A c \in Children : prov[c] # "PENDING_DELETE"
  /\ prov[LB] = "NONE" => \A c \in Children : db[c] = None

UnderWay(c, todo, d, st, r, due) ==
  /\ ~ c.failed /\ Tidy(d)
  /\ \A n \in 1 .. Len(todo) : todo[n].verb # "RAISE"
  /\ \A k \in Children : st[k] # "PENDING_DELETE"
  /\ \A p \in due : TreeReport(p) /\ DOMAIN p \cap DOMAIN c.rows = {}
  /\ Live(todo, d, st, r, due) \/ Gone(todo, d, r, due)

LEMMA UnderWayIsTree ==
  TreeBase /\ call # None /\ UnderWay(call, ToDo, Database, State, rules, Due) <=> TreeInv /\ call # None
<1>1. call # None => ToDo = call.todo
  BY DEF ToDo
<1> QED BY <1>1 DEF TreeBase, TreeInv, UnderWay

LEMMA RestIsTree ==
  AtRest /\ (prov[LB] = "NONE" => \A c \in Children : db[c] = None) => TreeInv
<1> SUFFICES ASSUME AtRest, prov[LB] = "NONE" => \A c \in Children : db[c] = None
             PROVE  TreeInv
  OBVIOUS
<1>1. ToDo = <<>> /\ Database = db /\ State = prov /\ Due = reports /\ call = None
  BY NoCallAhead DEF ToDo, Database, State, AtRest
<1>2. 1 .. Len(<<>>) = {}
  OBVIOUS
<1>3. Live(<<>>, db, prov, rules, reports) \/ Gone(<<>>, db, rules, reports)
  BY <1>2 DEF AtRest, Live, Gone
<1> QED BY <1>1, <1>3 DEF AtRest, TreeInv

LEMMA UnderWayIsTreeNext ==
  TreeBase' /\ (call # None)' /\ UnderWay(call, ToDo, Database, State, rules, Due)' => TreeInv'
BY UnderWayIsTree, PTL

LEMMA RestIsTreeNext ==
  AtRest' /\ (prov[LB] = "NONE" => \A c \in Children : db[c] = None)' => TreeInv'
BY RestIsTree, PTL

\* A step that leaves Octavia's database alone.
LEMMA StaysUnderWay ==
  ASSUME TreeInv, TypeInv', call' # None, UNCHANGED <<db, prov>>,
         UnderWay(call', call'.todo, Written(call'.rows), Ahead(call'.locks), rules',
                  reports' \cup ReportsOf(call'.todo))
  PROVE  TreeInv'
<1>1. TreeBase'
  BY DEF TreeInv, TreeBase, Tidy
<1>2. /\ ToDo' = call'.todo /\ Database' = Written(call'.rows) /\ State' = Ahead(call'.locks)
      /\ Due' = reports' \cup ReportsOf(call'.todo)
  BY DEF ToDo, Database, State, Due, Planning, ReportsOf, Written, Ahead
<1>3. UnderWay(call, ToDo, Database, State, rules, Due)'
  BY <1>2
<1> QED BY <1>1, <1>3, UnderWayIsTreeNext

LEMMA PlannedTree ==
  ASSUME WholeTrees, TreeInv, Handler
  PROVE  TreeInv'
<1>1. TreePlan(call') /\ Planned
  BY TreesPlanned
<1>2. TypeInv'
  BY <1>1, PlannedIsTyped DEF TreeInv
<1>3. call' # None /\ ~ call'.failed
  <2>1. WellTyped(call') /\ IsCall(call') /\ WellLocked(call')
    BY <1>1 DEF Planned
  <2>2. call' # None
    BY <2>1, NoCallIsNone DEF WellTyped, WellLocked
  <2> QED BY <2>1, <2>2 DEF WellTyped
<1>4. UNCHANGED <<db, prov>> /\ rules' = rules /\ reports' = reports /\ call = None
  BY <1>1 DEF Planned
<1>5. \A p \in reports : TreeReport(p)
  BY <1>4, NoCallAhead DEF TreeInv
<1>6. PICK d, st, due : /\ d = Written(call'.rows) /\ st = Ahead(call'.locks)
                        /\ due = reports \cup ReportsOf(call'.todo)
  OBVIOUS
<1>7. UnderWay(call', call'.todo, d, st, rules, due)
  BY <1>1, <1>3, <1>5, <1>6 DEF TreePlan, UnderWay
<1> QED BY <1>2, <1>3, <1>4, <1>6, <1>7, StaysUnderWay

\* What is known of a call under way on trees.
LEMMA UnderWayNow ==
  ASSUME TreeInv, call # None
  PROVE  UnderWay(call, call.todo, Written(call.rows), Ahead(call.locks), rules,
                  reports \cup ReportsOf(call.todo))
<1>1. /\ ToDo = call.todo /\ Database = Written(call.rows) /\ State = Ahead(call.locks)
      /\ Due = reports \cup ReportsOf(call.todo)
  BY DEF ToDo, Database, State, Due, Planning, ReportsOf
<1>2. UnderWay(call, ToDo, Database, State, rules, Due)
  BY UnderWayIsTree
<1> QED BY <1>1, <1>2

\* A request of a deletion leaves no rule where there was none, or where it asks for it.
LEMMA PerformedIsGone ==
  ASSUME TypeInv, NEW s, IsStep(s), s.verb # "POST", NEW l \in Listeners,
         rules[l] = None \/ (s.verb = "DELETE" /\ s.arg = l)
  PROVE  Performed(s)[l] = None
<1>1. rules \in [Listeners -> Rules \cup {None}]
  BY DEF TypeInv, TypeOK
<1>2. CASE s.verb = "DELETE"
  <2>1. Performed(s)[l] = IF l = s.arg THEN None ELSE rules[l]
    BY <1>1, <1>2 DEF Performed
  <2> QED BY <1>2, <2>1
<1>3. CASE s.verb = "DELETE_BY_NAME"
  BY <1>3 DEF Performed
<1>4. CASE s.verb \in {"NONE", "RAISE"}
  BY <1>4 DEF Performed
<1> QED BY <1>2, <1>3, <1>4 DEF IsStep, Verbs

LEMMA DoneTree ==
  ASSUME TreeInv, StepDone
  PROVE  TreeInv'
<1> DEFINE todo == call.todo
           rest == call'.todo
           s == todo[1]
<1>1. TypeInv /\ TypeInv'
  BY TypesPreserved DEF TreeInv, Next, Service
<1>2. /\ call # None /\ call' # None /\ call'.rows = call.rows /\ call'.locks = call.locks
      /\ Head(todo) = s /\ 1 \in 1 .. Len(todo) /\ IsStep(s)
      /\ \A n \in 1 .. Len(rest) : n + 1 \in 1 .. Len(todo) /\ rest[n] = todo[n + 1]
      /\ Len(rest) = Len(todo) - 1 /\ Len(todo) \in Nat \ {0} /\ call'.failed = call.failed
  <2>1. call # None /\ IsCall(call) /\ ~ call.failed
    BY CallFacts DEF TreeInv, StepDone
  <2>2. call' = [call EXCEPT !.todo = Tail(@)]
    BY DEF StepDone
  <2>3. call'.failed = call.failed
    BY ONLY <2>1, <2>2 DEF IsCall
  <2> HIDE DEF todo, rest, s
  <2>4. /\ call # None /\ call' # None /\ call'.rows = call.rows /\ call'.locks = call.locks
        /\ Head(call.todo) = call.todo[1] /\ 1 \in 1 .. Len(call.todo) /\ IsStep(call.todo[1])
        /\ \A n \in 1 .. Len(call'.todo) : /\ n + 1 \in 1 .. Len(call.todo)
                                           /\ call'.todo[n] = call.todo[n + 1]
        /\ Len(call'.todo) = Len(call.todo) - 1 /\ Len(call.todo) \in Nat \ {0}
    BY <1>1, <2>1, <2>3, StepEffect
  <2> QED BY <2>3, <2>4 DEF todo, rest, s
<1>3. /\ UNCHANGED <<db, prov>> /\ rules' = Performed(s) /\ reports' = Sent(s.report)
      /\ s.verb # "RAISE"
  BY <1>2 DEF StepDone
<1>4. PICK d, st, due : /\ d = Written(call.rows) /\ st = Ahead(call.locks)
                        /\ due = reports \cup ReportsOf(todo)
  OBVIOUS
<1>5. UnderWay(call, todo, d, st, rules, due)
  BY <1>2, <1>4, UnderWayNow
<1> HIDE DEF todo, rest, s
<1>6. \A n \in 1 .. Len(todo) : n = 1 \/ \E m \in 1 .. Len(rest) : n = m + 1
  <2> SUFFICES ASSUME NEW n \in 1 .. Len(todo), n # 1 PROVE \E m \in 1 .. Len(rest) : n = m + 1
    OBVIOUS
  <2>1. n - 1 \in 1 .. Len(rest) /\ n = (n - 1) + 1
    BY <1>2
  <2> QED BY <2>1
<1>7. due = reports' \cup ReportsOf(rest)
  <2>1. ReportsOf(todo) = ({s.report} \cup {rest[n].report : n \in 1 .. Len(rest)}) \ {None}
    <3>1. 1 \in 1 .. Len(todo) /\ \A n \in 1 .. Len(rest) : n + 1 \in 1 .. Len(todo) /\ rest[n] = todo[n + 1]
      BY <1>2
    <3>2. {todo[n].report : n \in 1 .. Len(todo)}
            = {todo[1].report} \cup {rest[n].report : n \in 1 .. Len(rest)}
      <4>1. ASSUME NEW n \in 1 .. Len(todo)
            PROVE  n = 1 \/ \E m \in 1 .. Len(rest) : todo[n].report = rest[m].report
        <5>1. CASE n = 1
          BY <5>1
        <5>2. ASSUME NEW m \in 1 .. Len(rest), n = m + 1 PROVE todo[n].report = rest[m].report
          BY ONLY <3>1, <5>2
        <5> QED BY <1>6, <5>1, <5>2
      <4>2. \A m \in 1 .. Len(rest) : \E n \in 1 .. Len(todo) : rest[m].report = todo[n].report
        BY ONLY <3>1
      <4> DEFINE all == {todo[n].report : n \in 1 .. Len(todo)}
                 left == {rest[n].report : n \in 1 .. Len(rest)}
      <4>3. ASSUME NEW x \in all PROVE x \in {todo[1].report} \cup left
        <5>1. PICK n \in 1 .. Len(todo) : x = todo[n].report
          OBVIOUS
        <5> QED BY ONLY <4>1, <5>1
      <4>4. left \subseteq all
        BY ONLY <4>2
      <4>5. todo[1].report \in all
        BY ONLY <3>1
      <4> HIDE DEF all, left
      <4>6. all = {todo[1].report} \cup left
        BY ONLY <4>3, <4>4, <4>5
      <4> QED BY <4>6 DEF all, left
    <3> QED BY <3>2 DEF ReportsOf, s
  <2> QED BY <1>3, <1>4, <2>1 DEF ReportsOf, Sent
<1>8. Live(todo, d, st, rules, due) => Live(rest, d, st, rules', due)
  <2> SUFFICES ASSUME Live(todo, d, st, rules, due) PROVE Live(rest, d, st, rules', due)
    OBVIOUS
  <2>1. RightStep(s, d, st) /\ \A n \in 1 .. Len(rest) : RightStep(rest[n], d, st)
    BY <1>2 DEF Live, s
  <2>2. ASSUME NEW l \in Listeners
        PROVE  Right(d, st, l, rules'[l]) \/ \E n \in 1 .. Len(rest) : Addresses(rest[n], l)
    <3>1. CASE Right(d, st, l, rules[l]) \/ Addresses(s, l)
      BY <1>1, <1>2, <1>3, <2>1, <3>1, PerformedIsRight
    <3>2. CASE \E n \in 1 .. Len(todo) : n # 1 /\ Addresses(todo[n], l)
      BY <1>2, <1>6, <3>2
    <3> QED BY <3>1, <3>2 DEF Live, s
  <2> QED BY <2>1, <2>2 DEF Live
<1>9. Gone(todo, d, rules, due) => Gone(rest, d, rules', due)
  <2> SUFFICES ASSUME Gone(todo, d, rules, due) PROVE Gone(rest, d, rules', due)
    OBVIOUS
  <2>1. s.verb # "POST" /\ \A n \in 1 .. Len(rest) : rest[n].verb # "POST"
    BY <1>2 DEF Gone, s
  <2>2. ASSUME NEW l \in Listeners
        PROVE  rules'[l] = None \/ \E n \in 1 .. Len(rest) : rest[n].verb = "DELETE" /\ rest[n].arg = l
    <3>1. CASE rules[l] = None \/ (s.verb = "DELETE" /\ s.arg = l)
      BY <1>1, <1>2, <1>3, <2>1, <3>1, PerformedIsGone
    <3>2. CASE \E n \in 1 .. Len(todo) : n # 1 /\ todo[n].verb = "DELETE" /\ todo[n].arg = l
      BY <1>2, <1>6, <3>2
    <3> QED BY <3>1, <3>2 DEF Gone, s
  <2> QED BY <2>1, <2>2 DEF Gone
<1>10. UnderWay(call', rest, d, st, rules', due)
  BY <1>2, <1>5, <1>8, <1>9 DEF UnderWay
<1> QED BY <1>1, <1>2, <1>3, <1>4, <1>7, <1>10, StaysUnderWay DEF rest

LEMMA NoTreeFails ==
  ASSUME WholeTrees, TreeInv
  PROVE  ~ StepFails /\ ~ Rollback
<1>1. ~ StepFails
  <2> SUFFICES ASSUME StepFails PROVE FALSE
    OBVIOUS
  <2>1. Head(call.todo) = call.todo[1] /\ 1 \in 1 .. Len(call.todo) /\ call # None
    BY StepEffect DEF TreeInv
  <2>2. call.todo[1].verb # "RAISE"
    BY <2>1 DEF TreeInv
  <2> QED BY <2>1, <2>2 DEF StepFails, WholeTrees
<1>2. ~ Rollback
  BY DEF Rollback, TreeInv
<1> QED BY <1>1, <1>2

\* A report that comes before the commit is of the load balancer that is being created.
LEMMA EarlyTree ==
  ASSUME TreeInv, DeliverEarly
  PROVE  TreeInv'
<1>1. /\ TypeInv /\ TypeInv' /\ call # None /\ UNCHANGED <<db, prov, rules, call>>
      /\ prov[LB] = "NONE" => \A c \in Children : db[c] = None
  BY TypesPreserved DEF TreeInv, Next, DeliverEarly
<1>2. PICK p \in reports : ~ Known(p) /\ reports' = reports \ {p}
  BY DEF DeliverEarly
<1>3. PICK d, st, due, next : /\ d = Written(call.rows) /\ st = Ahead(call.locks)
                              /\ due = reports \cup ReportsOf(call.todo)
                              /\ next = reports' \cup ReportsOf(call.todo)
  OBVIOUS
<1>4. UnderWay(call, call.todo, d, st, rules, due)
  BY <1>1, <1>3, UnderWayNow
<1>5. next \subseteq due /\ due \subseteq next \cup {p} /\ p \in due
  BY <1>2, <1>3
<1>6. ASSUME NEW l \in Listeners \cap DOMAIN p PROVE d[l] = None
  <2>1. PICK r \in DOMAIN p : prov[r] = "NONE"
    BY <1>2 DEF Known
  <2>2. TreeReport(p) /\ l \notin DOMAIN call.rows
    BY <1>4, <1>5, <1>6 DEF UnderWay
  <2>3. r = LB \/ r = l
    BY <2>1, <2>2, <1>6 DEF TreeReport
  <2>4. db[l] = None
    BY <1>1, <2>1, <2>3, KindsDiffer DEF TypeInv
  <2> QED BY <1>3, <2>2, <2>4, KindsDiffer DEF Written
<1>7. Live(call.todo, d, st, rules, due) => Live(call.todo, d, st, rules, next)
  BY <1>5 DEF Live
<1>8. Gone(call.todo, d, rules, due) => Gone(call.todo, d, rules, next)
  BY <1>5, <1>6 DEF Gone
<1>9. UnderWay(call, call.todo, d, st, rules, next)
  BY <1>4, <1>5, <1>7, <1>8 DEF UnderWay
<1>10. UnderWay(call', call'.todo, Written(call'.rows), Ahead(call'.locks), rules',
                reports' \cup ReportsOf(call'.todo))
  BY <1>1, <1>3, <1>9
<1> QED BY <1>1, <1>10, StaysUnderWay

LEMMA CommittedTree ==
  ASSUME TreeInv, Commit
  PROVE  TreeInv'
<1>1. TypeInv'
  BY TypesPreserved DEF TreeInv, Next, Service
<1>2. call # None /\ call.todo = <<>> /\ call' = None /\ rules' = rules /\ reports' = reports
  BY DEF Commit
<1>3. PICK d, st : d = Written(call.rows) /\ st = Ahead(call.locks) /\ db' = d /\ prov' = st
  BY CommitComes
<1>4. 1 .. Len(<<>>) = {} /\ ReportsOf(<<>>) = {}
  BY DEF ReportsOf
<1>5. UnderWay(call, <<>>, d, st, rules, reports)
  BY <1>2, <1>3, <1>4, UnderWayNow
<1>6. AtRest'
  <2>1. /\ Tidy(d) /\ \A c \in Children : st[c] # "PENDING_DELETE"
        /\ \A p \in reports : TreeReport(p)
        /\ Live(<<>>, d, st, rules, reports) \/ Gone(<<>>, d, rules, reports)
    BY <1>5 DEF UnderWay
  <2>2. Tidy(db)' /\ (\A c \in Children : prov[c] # "PENDING_DELETE")' /\ (\A p \in reports : TreeReport(p))'
    BY <1>2, <1>3, <2>1
  <2>3. \/ /\ prov'[LB] \in {"PENDING_CREATE", "PENDING_UPDATE", "ACTIVE"}
           /\ \A p \in reports' : DOMAIN p = {LB} /\ p[LB] = "ACTIVE"
           /\ \A l \in Listeners : Right(db', prov', l, rules'[l])
        \/ \A l \in Listeners : rules'[l] = None /\ (db'[l] = None \/ \E p \in reports' : l \in DOMAIN p)
    BY <1>2, <1>3, <1>4, <2>1 DEF Live, Gone
  <2> QED BY <1>1, <1>2, <2>2, <2>3 DEF AtRest
<1>7. prov'[LB] # "NONE"
  BY <1>2, <1>3, KindsDiffer, CallFacts DEF TreeInv, Ahead, Pending
<1> QED BY <1>6, <1>7, RestIsTreeNext

LEMMA DeliveredTree ==
  ASSUME TreeInv, Deliver
  PROVE  TreeInv'
<1>1. TypeInv /\ TypeInv' /\ AtRest /\ (prov[LB] = "NONE" => \A c \in Children : db[c] = None)
  BY TypesPreserved, RestsBetweenCalls DEF TreeInv, Next, Deliver
<1>2. PICK p \in reports : /\ reports' = reports \ {p}
                           /\ IF Known(p) THEN Apply(p) ELSE UNCHANGED <<db, prov>>
  BY DEF Deliver
<1>3. /\ call' = None /\ rules' = rules /\ TreeReport(p) /\ IsReport(p)
      /\ \A q \in reports' : TreeReport(q) /\ q \in reports
  BY <1>1, <1>2 DEF Deliver, AtRest, TypeInv, TypeOK
<1>4. LB \in DOMAIN p /\ DOMAIN p \subseteq {LB} \cup Listeners
  BY <1>3 DEF TreeReport
<1>5. CASE ~ Known(p)
  <2>1. UNCHANGED <<db, prov>>
    BY <1>2, <1>5
  <2>2. ASSUME NEW l \in Listeners \cap DOMAIN p PROVE db[l] = None
    <3>1. PICK r \in DOMAIN p : prov[r] = "NONE"
      BY <1>5 DEF Known
    <3>2. r = LB \/ r = l
      BY <1>3, <1>4 DEF TreeReport
    <3> QED BY <1>1, <3>1, <3>2, KindsDiffer DEF TypeInv
  <2>3. AtRest'
    <3>1. Tidy(db)' /\ (\A c \in Children : prov[c] # "PENDING_DELETE")'
      BY <1>1, <2>1 DEF AtRest
    <3>2. \/ /\ prov'[LB] \in {"PENDING_CREATE", "PENDING_UPDATE", "ACTIVE"}
             /\ \A q \in reports' : DOMAIN q = {LB} /\ q[LB] = "ACTIVE"
             /\ \A l \in Listeners : Right(db', prov', l, rules'[l])
          \/ \A l \in Listeners : rules'[l] = None /\ (db'[l] = None \/ \E q \in reports' : l \in DOMAIN q)
      BY <1>1, <1>2, <1>3, <2>1, <2>2 DEF AtRest
    <3> QED BY <1>1, <1>3, <3>1, <3>2 DEF AtRest
  <2> QED BY <1>1, <2>1, <2>3, RestIsTreeNext
<1>6. CASE Known(p)
  <2>1. Apply(p)
    BY <1>2, <1>6
  <2>2. /\ \A r \in Children :
             db'[r] = IF r \in Removed(p) THEN None
                      ELSE IF r \in Pools /\ db[r] # None /\ db[r].listener_id \in Removed(p)
                      THEN [db[r] EXCEPT !.listener_id = None]
                      ELSE db[r]
        /\ \A r \in Resources : prov'[r] = IF r \in Removed(p) THEN "NONE"
                                           ELSE IF r \in DOMAIN p THEN p[r] ELSE prov[r]
    BY <2>1 DEF Apply
  <2>3. Removed(p) \subseteq Children
    BY KindsDiffer DEF Removed, InPool, Leaves
  <2>4. /\ prov'[LB] = p[LB] /\ \A r \in DOMAIN p : p[r] \in {"ACTIVE", "ERROR", "DELETED"}
    BY <1>3, <1>4, <2>2, <2>3, KindsDiffer DEF IsReport
  <2>5. \A c \in Children : prov'[c] # "PENDING_DELETE"
    BY <1>1, <2>2, <2>4, KindsDiffer DEF AtRest
  <2>6. Tidy(db)'
    BY <1>1, <2>1, ApplyIsTidy DEF AtRest
  <2>7. ASSUME prov[LB] \in {"PENDING_CREATE", "PENDING_UPDATE", "ACTIVE"},
               \A q \in reports : DOMAIN q = {LB} /\ q[LB] = "ACTIVE",
               \A l \in Listeners : Right(db, prov, l, rules[l])
        PROVE  /\ prov'[LB] = "ACTIVE"
               /\ \A q \in reports' : DOMAIN q = {LB} /\ q[LB] = "ACTIVE"
               /\ \A l \in Listeners : Right(db', prov', l, rules'[l])
    <3>1. Removed(p) = {}
      BY <2>7, KindsDiffer DEF Removed
    <3>2. \A r \in Children : db'[r] = db[r] /\ prov'[r] = prov[r]
      BY <2>2, <2>7, <3>1, KindsDiffer
    <3>3. prov'[LB] = "ACTIVE"
      BY <2>4, <2>7
    <3>4. ASSUME NEW l \in Listeners PROVE Right(db', prov', l, rules'[l])
      <4>1. ExistsIn(db, prov, l) <=> ExistsIn(db', prov', l)
        BY <2>7, <3>2, <3>3, KindsDiffer DEF ExistsIn, WantedIn
      <4>2. \A r \in Pools \cup Leaves : db[r] = db'[r] /\ prov[r] = prov'[r]
        BY <3>2, KindsDiffer
      <4>3. PICK e, su : e = db' /\ su = prov'
        OBVIOUS
      <4>4. Right(db, prov, l, rules[l]) <=> Right(e, su, l, rules[l])
        BY <4>1, <4>2, <4>3, SameRight
      <4> QED BY <1>3, <2>7, <4>3, <4>4
    <3> QED BY <1>3, <2>7, <3>3, <3>4
  <2>8. ASSUME \A l \in Listeners : rules[l] = None /\ (db[l] = None \/ \E q \in reports : l \in DOMAIN q)
        PROVE  \A l \in Listeners : rules'[l] = None /\ (db'[l] = None \/ \E q \in reports' : l \in DOMAIN q)
    <3>1. ASSUME NEW l \in Listeners PROVE db'[l] = None \/ \E q \in reports' : l \in DOMAIN q
      <4>1. CASE l \in DOMAIN p
        <5>1. p[l] = "DELETED"
          BY <1>3, <4>1 DEF TreeReport
        <5>2. l \in Removed(p)
          BY <4>1, <5>1, KindsDiffer DEF Removed
        <5> QED BY <2>2, <5>2, KindsDiffer
      <4>2. CASE db[l] = None
        BY <2>2, <4>2, KindsDiffer
      <4>3. CASE \E q \in reports : q # p /\ l \in DOMAIN q
        BY <1>2, <4>3
      <4> QED BY <2>8, <4>1, <4>2, <4>3
    <3> QED BY <1>3, <2>8, <3>1
  <2>9. \/ /\ prov'[LB] \in {"PENDING_CREATE", "PENDING_UPDATE", "ACTIVE"}
           /\ \A q \in reports' : DOMAIN q = {LB} /\ q[LB] = "ACTIVE"
           /\ \A l \in Listeners : Right(db', prov', l, rules'[l])
        \/ \A l \in Listeners : rules'[l] = None /\ (db'[l] = None \/ \E q \in reports' : l \in DOMAIN q)
    BY <1>1, <1>3, <2>4, <2>7, <2>8 DEF AtRest
  <2>10. AtRest'
    BY <1>1, <1>3, <2>5, <2>6, <2>9 DEF AtRest
  <2>11. prov'[LB] # "NONE"
    BY <1>4, <2>4
  <2> QED BY <2>10, <2>11, RestIsTreeNext
<1> QED BY <1>5, <1>6

LEMMA TreesInitially == Init => TreeInv
<1> SUFFICES ASSUME Init PROVE TreeInv
  OBVIOUS
<1>1. (\A r \in Children : db[r] = None) /\ (\A l \in Listeners : rules[l] = None) /\ reports = {} /\ call = None
  BY DEF Init
<1>2. Tidy(db)
  BY <1>1, KindsDiffer DEF Tidy, Leaves
<1>3. \A c \in Children : prov[c] # "PENDING_DELETE"
  BY KindsDiffer DEF Init
<1>4. AtRest
  BY <1>1, <1>2, <1>3, TypesInitially, KindsDiffer DEF AtRest
<1> QED BY <1>1, <1>4, RestIsTree

LEMMA TreesPreserved ==
  ASSUME WholeTrees
  PROVE  TreeInv /\ [Next]_vars => TreeInv'
<1> SUFFICES ASSUME TreeInv, [Next]_vars PROVE TreeInv'
  OBVIOUS
<1>1. CASE Handler
  BY <1>1, PlannedTree
<1>2. CASE Service
  BY <1>2, DoneTree, CommittedTree, NoTreeFails DEF Service
<1>3. CASE Deliver
  BY <1>3, DeliveredTree
<1>4. CASE DeliverEarly
  BY <1>4, EarlyTree
<1>5. CASE UNCHANGED vars
  <2>1. UNCHANGED <<db, prov, rules, call, reports>>
    BY <1>5 DEF vars
  <2>2. TypeInv'
    BY TypesPreserved DEF TreeInv
  <2>3. CASE call = None
    <3>1. AtRest /\ (prov[LB] = "NONE" => \A c \in Children : db[c] = None)
      BY <2>3, RestsBetweenCalls DEF TreeInv
    <3>2. AtRest' /\ (prov[LB] = "NONE" => \A c \in Children : db[c] = None)'
      BY <2>1, <2>2, <3>1 DEF AtRest
    <3> QED BY <3>2, RestIsTreeNext
  <2>4. CASE call # None
    <3>1. UnderWay(call, call.todo, Written(call.rows), Ahead(call.locks), rules,
                   reports \cup ReportsOf(call.todo))
      BY <2>4, UnderWayNow
    <3>2. call' # None /\ UnderWay(call', call'.todo, Written(call'.rows), Ahead(call'.locks), rules',
                                   reports' \cup ReportsOf(call'.todo))
      BY <2>1, <2>4, <3>1
    <3> QED BY <2>1, <2>2, <3>2, StaysUnderWay
  <2> QED BY <2>3, <2>4
<1> QED BY <1>1, <1>2, <1>3, <1>4, <1>5 DEF Next
-----------------------------------------------------------------------------
(* The rules of whole trees *)

\* When nothing is under way, LoxiLB holds the rules of the listeners that were created
\* with the load balancer, and none after it was deleted with them: though each of the
\* calls makes a request per listener, and though the reports of a cascade, which say
\* the load balancer is ACTIVE, wait together, overtake one another and let the next
\* call in before the last of them has arrived.
THEOREM TreesAreOctavias == WholeTrees => (Spec => []SettledRulesMatch)
<1> SUFFICES ASSUME WholeTrees PROVE Spec => []SettledRulesMatch
  OBVIOUS
<1>1. TreeInv => SettledRulesMatch
  <2> SUFFICES ASSUME TreeInv, Settled, NEW l \in Listeners PROVE Realised(l)
    BY DEF SettledRulesMatch
  <2>1. AtRest /\ reports = {}
    BY RestsBetweenCalls DEF Settled
  <2>2. Right(db, prov, l, rules[l])
    BY <2>1 DEF AtRest, Right, ExistsIn, WantedIn
  <2> QED BY <2>2, RightIsRealised
<1>2. TreeInv /\ [Next]_vars => TreeInv'
  BY TreesPreserved
<1> QED BY <1>1, <1>2, TreesInitially, PTL DEF Spec

\* A load balancer that Octavia shows as DELETED has left no rule on LoxiLB: the cascade
\* has deleted each of them, and no call that one of its reports let in has posted one
\* again.
THEOREM CascadeLeavesNothing == WholeTrees => (Spec => []DeletedLeavesNoRule)
<1> SUFFICES ASSUME WholeTrees PROVE Spec => []DeletedLeavesNoRule
  OBVIOUS
<1>1. TreeInv => DeletedLeavesNoRule
  BY RestsBetweenCalls DEF DeletedLeavesNoRule, AtRest
<1>2. TreeInv /\ [Next]_vars => TreeInv'
  BY TreesPreserved
<1> QED BY <1>1, <1>2, TreesInitially, PTL DEF Spec
=============================================================================
