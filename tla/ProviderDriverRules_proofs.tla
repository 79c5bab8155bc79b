---------------------- MODULE ProviderDriverRules_proofs ----------------------
(***************************************************************************)
(* The rules of the driver: what the handlers ask LoxiLB for is what       *)
(* Octavia wants once it has committed the call.                           *)
(*                                                                         *)
(* A handler puts a rule together from what it is passed and what it       *)
(* reads, and each handler is passed and reads something else.  Right says *)
(* of a rule, a database and statuses what Realised says of the present    *)
(* ones, so that a planned rule can be compared with the state it is meant *)
(* for.                                                                    *)
(***************************************************************************)
EXTENDS ProviderDriverReports_proofs

\* What Octavia wants in a database d with statuses st.
WantedIn(d, st, r) == d[r] # None /\ st[r] # "PENDING_DELETE"

ExistsIn(d, st, l) == WantedIn(d, st, l) /\ st[LB] \notin {"PENDING_DELETE", "DELETED"}

PoolsIn(d, st, l) == {p \in Pools : WantedIn(d, st, p) /\ d[p].listener_id = l}

EndpointsIn(d, st, l) ==
  {m \in Members : WantedIn(d, st, m) /\ d[m].pool_id \in PoolsIn(d, st, l) /\ d[m].admin_state_up}

ProbesIn(d, st, l) ==
  {HEALTH_MONITOR_PROBE_MAP[d[h].type] :
     h \in {k \in Monitors : WantedIn(d, st, k) /\ d[k].pool_id \in PoolsIn(d, st, l)
                                                /\ d[k].admin_state_up}}

SelectionsIn(d, st, l) ==
  {IF d[p].session_persistence = "SOURCE_IP" THEN LOXILB_SEL_PERSIST
   ELSE LB_ALGORITHM_MAP[d[p].lb_algorithm] : p \in PoolsIn(d, st, l)}

Right(d, st, l, rule) ==
  IF ExistsIn(d, st, l) /\ EndpointsIn(d, st, l) # {}
  THEN /\ rule # None
       /\ rule.endpoints = EndpointsIn(d, st, l)
       /\ {rule.sel} = SelectionsIn(d, st, l)
       /\ {rule.probetype} \ {None} = ProbesIn(d, st, l)
  ELSE rule = None

LEMMA RightIsRealised ==
  ASSUME NEW l
  PROVE  Realised(l) <=> Right(db, prov, l, rules[l])
BY DEF Realised, Right, Exists, ExistsIn, Wanted, WantedIn, WantedEndpoints, EndpointsIn,
       WantedPool, PoolsIn, WantedSelection, SelectionsIn, WantedProbe, ProbesIn

\* The statuses once the locks are there.
Ahead(locks) == [r \in Resources |-> IF r \in DOMAIN locks THEN locks[r] ELSE prov[r]]

\* A step brings the rule it is about to what Octavia wants; the name of the load
\* balancer alone is no rule's name.
RightStep(s, d, st) ==
  /\ s.verb = "POST" => Right(d, st, s.arg.port, s.arg)
  /\ s.verb = "DELETE" => Right(d, st, s.arg, None)
  /\ s.verb = "DELETE_BY_NAME" => s.arg = <<LB>>

\* A step that sees to listener l, or one that stops the call.
Addresses(s, l) ==
  \/ s.verb = "POST" /\ s.arg.port = l
  \/ s.verb = "DELETE" /\ s.arg = l
  \/ s.verb = "RAISE"

\* A pool has at most one monitor, a listener at most one pool, and a pool's listener
\* exists.
Tidy(d) ==
  /\ \A p \in Pools : d[p] # None /\ d[p].listener_id # None => d[d[p].listener_id] # None
  /\ \A p, q \in Pools :
       d[p] # None /\ d[q] # None /\ d[p].listener_id # None /\ d[p].listener_id = d[q].listener_id
         => p = q
  /\ \A h, k \in Monitors : d[h] # None /\ d[k] # None /\ d[h].pool_id = d[k].pool_id => h = k

\* What a handler has planned is right.
RightPlan(c) ==
  LET d == Written(c.rows)
      st == Ahead(c.locks)
  IN  /\ Tidy(d)
      /\ \A n \in 1 .. Len(c.todo) : RightStep(c.todo[n], d, st)
      /\ \A l \in Listeners \cap DOMAIN c.locks : \E n \in 1 .. Len(c.todo) : Addresses(c.todo[n], l)
      /\ \A l \in Listeners \ DOMAIN c.locks : \A rule : Right(db, prov, l, rule) => Right(d, st, l, rule)
      /\ \/ Len(c.todo) = 1
         \/ \A l \in Listeners : \A rule : Right(db, prov, l, rule) <=> Right(d, st, l, rule)

\* The calls whose handlers bring LoxiLB to what Octavia wants.
Reliable == /\ Thorough /\ CommitFirst
            /\ {"member_update", "health_monitor_delete"} \cap Operations = {}

RuleInv ==
  /\ AnswerInv
  /\ Tidy(db)
  /\ \A p \in reports : LB \in DOMAIN p
  /\ call # None =>
       LET d == Written(call.rows)
           st == Ahead(call.locks)
       IN  /\ Tidy(d)
           /\ \A n \in 1 .. Len(call.todo) :
                call.todo[n].report # None => call.todo[n].verb = "RAISE" \/ LB \in DOMAIN call.todo[n].report
           /\ ~ call.failed =>
                /\ \A n \in 1 .. Len(call.todo) : RightStep(call.todo[n], d, st)
                /\ \A l \in Listeners \cap DOMAIN call.locks :
                     (\E n \in 1 .. Len(call.todo) : Addresses(call.todo[n], l)) \/ Right(d, st, l, rules[l])
-----------------------------------------------------------------------------
(* The translator *)

\* The endpoints, the probe and the selection of the rule are those of the one pool
\* p of the listener.
LEMMA EntryIsRight ==
  ASSUME NEW d, NEW st, NEW l \in Listeners, NEW p \in Pools,
         RowsTyped(d), ExistsIn(d, st, l), PoolsIn(d, st, l) = {p},
         NEW listener, listener.protocol_port = l, listener.listener_id \in Listeners,
         NEW pool, NEW members, NEW healthmonitor, NEW report,
         NEW P, P = PoolOf(listener, pool), P # None,
         P.lb_algorithm = d[p].lb_algorithm, P.session_persistence = d[p].session_persistence,
         MembersKnown(P.members), MembersKnown(members),
         to_loxilb_endpoints(MembersOf(P, members)) = EndpointsIn(d, st, l),
         NEW H, H = MonitorOf(P, healthmonitor),
         Translatable(listener, P, H) => {Probe(H)} \ {None} = ProbesIn(d, st, l),
         NEW s, s = reconcile_service(listener, pool, members, healthmonitor, report)
  PROVE  RightStep(s, d, st) /\ Addresses(s, l)
<1> DEFINE entry == to_loxilb_service(LB, listener, pool, members, healthmonitor)
<1>1. CASE entry = Refused
  <2>1. s = Raise
    BY <1>1 DEF reconcile_service
  <2> QED BY <2>1 DEF Raise, RightStep, Addresses
<1>2. CASE entry # Refused
  <2>1. Translatable(listener, P, H)
    BY <1>2 DEF to_loxilb_service
  <2>2. /\ entry.port = l /\ entry.sel = Selection(P) /\ entry.probetype = Probe(H)
        /\ entry.endpoints = EndpointsIn(d, st, l)
    BY <2>1 DEF to_loxilb_service
  <2>3. entry # None
    <3>1. entry \in Rules
      BY <1>2, EntryIsRule
    <3> QED BY <3>1, NoneAssumption
  <2>4. d[p] # None /\ d[p].lb_algorithm \in Algorithms
    <3>1. p \in Children /\ d[p] # None
      BY DEF PoolsIn, WantedIn, Children
    <3>2. d[p] \in [listener_id : Listeners \cup {None}, lb_algorithm : Algorithms,
                    session_persistence : Persistences \cup {None}]
      BY <3>1, RowsByKind DEF RowsTyped
    <3> QED BY <3>1, <3>2
  <2>5. {entry.sel} = SelectionsIn(d, st, l)
    BY <2>2, <2>4, NoneAssumption DEF Selection, Algorithm, get_field, SelectionsIn
  <2>6. {entry.probetype} \ {None} = ProbesIn(d, st, l)
    BY <2>1, <2>2
  <2>7. entry.endpoints # {} => Right(d, st, l, entry)
    BY <2>2, <2>3, <2>5, <2>6 DEF Right
  <2>8. entry.endpoints = {} => Right(d, st, l, None)
    BY <2>2 DEF Right
  <2>9. s = IF entry.endpoints # {} THEN Post(entry, report) ELSE Delete(entry.port, report)
    BY <1>2 DEF reconcile_service
  <2> QED BY <2>2, <2>7, <2>8, <2>9 DEF RightStep, Addresses, Post, Delete
<1> QED BY <1>1, <1>2

LEMMA NoEndpointsIsRight ==
  ASSUME NEW d, NEW st, NEW l \in Listeners, ExistsIn(d, st, l) => EndpointsIn(d, st, l) = {},
         NEW listener, listener.protocol_port = l,
         NEW pool, NEW members, MembersOf(PoolOf(listener, pool), members) = {},
         NEW healthmonitor, NEW report,
         NEW s, s = reconcile_service(listener, pool, members, healthmonitor, report)
  PROVE  RightStep(s, d, st) /\ Addresses(s, l)
<1> DEFINE entry == to_loxilb_service(LB, listener, pool, members, healthmonitor)
<1>1. CASE entry = Refused
  <2>1. s = Raise
    BY <1>1 DEF reconcile_service
  <2> QED BY <2>1 DEF Raise, RightStep, Addresses
<1>2. CASE entry # Refused
  <2>1. entry.port = l /\ entry.endpoints = {}
    BY <1>2 DEF to_loxilb_service, to_loxilb_endpoints
  <2>2. s = Delete(l, report)
    BY <1>2, <2>1 DEF reconcile_service
  <2>3. Right(d, st, l, None)
    BY DEF Right
  <2> QED BY <2>2, <2>3 DEF RightStep, Addresses, Delete
<1> QED BY <1>1, <1>2

\* The members and monitors of a pool that Octavia wants.
MembersIn(d, st, p) == {m \in Members : WantedIn(d, st, m) /\ d[m].pool_id = p}
MonitorsIn(d, st, p) == {h \in Monitors : WantedIn(d, st, h) /\ d[h].pool_id = p}

LEMMA EndpointsAreRight ==
  ASSUME NEW d, NEW st, NEW l, NEW p, RowsTyped(d), PoolsIn(d, st, l) = {p},
         NEW members, members = {ProviderMember(d, m) : m \in MembersIn(d, st, p)}
  PROVE  to_loxilb_endpoints(members) = EndpointsIn(d, st, l)
<1>1. ASSUME NEW m \in MembersIn(d, st, p)
      PROVE  /\ d[m].admin_state_up \in BOOLEAN
             /\ ProviderMember(d, m).member_id = m
             /\ ProviderMember(d, m).admin_state_up = d[m].admin_state_up
  <2>1. d[m] \in [pool_id : Pools, admin_state_up : BOOLEAN]
    BY RowsByKind DEF RowsTyped, MembersIn, WantedIn, Children
  <2> QED BY <2>1 DEF ProviderMember
<1>2. \A m \in MembersIn(d, st, p) : get_field(ProviderMember(d, m).admin_state_up, TRUE) <=> d[m].admin_state_up
  BY <1>1, NoneAssumption DEF get_field
<1>3. to_loxilb_endpoints(members) = {m \in MembersIn(d, st, p) : d[m].admin_state_up}
  <2> DEFINE up == {n \in members : get_field(n.admin_state_up, TRUE)}
  <2>1. to_loxilb_endpoints(members) = {n.member_id : n \in up}
    BY DEF to_loxilb_endpoints
  <2>2. \A m \in MembersIn(d, st, p) : d[m].admin_state_up => ProviderMember(d, m) \in up
    BY <1>2
  <2>3. \A n \in up : \E m \in MembersIn(d, st, p) : d[m].admin_state_up /\ n = ProviderMember(d, m)
    BY <1>2
  <2> HIDE DEF up
  <2> QED BY <2>1, <2>2, <2>3, <1>1
<1> QED BY <1>3 DEF EndpointsIn, MembersIn

\* No monitor, or the only one that is wanted.
MonitorFits(H, d, st, p) ==
  \/ H = None /\ MonitorsIn(d, st, p) = {}
  \/ \E h \in Monitors : MonitorsIn(d, st, p) = {h} /\ H = ProviderMonitor(d, h)

LEMMA ProbeIsRight ==
  ASSUME NEW d, NEW st, NEW l, NEW p, RowsTyped(d), PoolsIn(d, st, l) = {p},
         NEW H, MonitorFits(H, d, st, p), NEW listener, NEW P, Translatable(listener, P, H)
  PROVE  {Probe(H)} \ {None} = ProbesIn(d, st, l)
<1>1. ProbesIn(d, st, l) = {HEALTH_MONITOR_PROBE_MAP[d[h].type] :
                              h \in {k \in MonitorsIn(d, st, p) : d[k].admin_state_up}}
  BY DEF ProbesIn, MonitorsIn
<1>2. CASE H = None /\ MonitorsIn(d, st, p) = {}
  BY <1>1, <1>2 DEF Probe, Monitored
<1>3. CASE \E h \in Monitors : MonitorsIn(d, st, p) = {h} /\ H = ProviderMonitor(d, h)
  <2>1. PICK h \in Monitors : MonitorsIn(d, st, p) = {h} /\ H = ProviderMonitor(d, h)
    BY <1>3
  <2>2. d[h] # None /\ d[h] \in [pool_id : Pools, type : MonitorTypes, admin_state_up : BOOLEAN]
    BY <2>1, RowsByKind DEF RowsTyped, MonitorsIn, WantedIn, Children
  <2>3. H # None
    BY <2>1, <2>2, MonitorTyped, NoneAssumption
  <2>4. /\ H.type = d[h].type /\ H.admin_state_up = d[h].admin_state_up
        /\ d[h].type \in MonitorTypes /\ d[h].admin_state_up \in BOOLEAN
    BY <2>1, <2>2 DEF ProviderMonitor
  <2>5. Monitored(H) <=> d[h].admin_state_up
    BY <2>3, <2>4, NoneAssumption DEF Monitored, get_field
  <2>6. MonitorType(H) = d[h].type
    BY <2>4, NoneAssumption DEF MonitorType, get_field
  <2>7. CASE d[h].admin_state_up
    <3>1. d[h].type \in SUPPORTED_HEALTH_MONITOR_TYPES
      BY <2>5, <2>6, <2>7 DEF Translatable
    <3>2. HEALTH_MONITOR_PROBE_MAP[d[h].type] # None
      BY <3>1, NoneAssumption DEF HEALTH_MONITOR_PROBE_MAP, SUPPORTED_HEALTH_MONITOR_TYPES
    <3>3. Probe(H) = HEALTH_MONITOR_PROBE_MAP[d[h].type]
      BY <2>5, <2>6, <2>7 DEF Probe
    <3> QED BY <1>1, <2>1, <2>7, <3>2, <3>3
  <2>8. CASE ~ d[h].admin_state_up
    BY <1>1, <2>1, <2>5, <2>8 DEF Probe
  <2> QED BY <2>7, <2>8
<1> QED BY <1>2, <1>3 DEF MonitorFits

\* A pool object P, with what is given instead of its members and monitor, shows what
\* pool p will be.
PoolFits(P, members, healthmonitor, d, st, p) ==
  /\ P # None /\ MembersKnown(P.members) /\ MembersKnown(members)
  /\ P.lb_algorithm = d[p].lb_algorithm /\ P.session_persistence = d[p].session_persistence
  /\ MembersOf(P, members) = {ProviderMember(d, m) : m \in MembersIn(d, st, p)}
  /\ MonitorFits(MonitorOf(P, healthmonitor), d, st, p)

LEMMA ReconcileIsRight ==
  ASSUME NEW d, NEW st, NEW l \in Listeners, NEW p \in Pools,
         RowsTyped(d), ExistsIn(d, st, l), PoolsIn(d, st, l) = {p},
         NEW listener, listener.protocol_port = l, listener.listener_id \in Listeners,
         NEW pool, NEW members, NEW healthmonitor, NEW report,
         NEW P, P = PoolOf(listener, pool), PoolFits(P, members, healthmonitor, d, st, p),
         NEW s, s = reconcile_service(listener, pool, members, healthmonitor, report)
  PROVE  RightStep(s, d, st) /\ Addresses(s, l)
<1>1. to_loxilb_endpoints(MembersOf(P, members)) = EndpointsIn(d, st, l)
  BY EndpointsAreRight DEF PoolFits
<1>2. Translatable(listener, P, MonitorOf(P, healthmonitor)) =>
        {Probe(MonitorOf(P, healthmonitor))} \ {None} = ProbesIn(d, st, l)
  BY ProbeIsRight DEF PoolFits
<1>3. /\ P # None /\ MembersKnown(P.members) /\ MembersKnown(members)
      /\ P.lb_algorithm = d[p].lb_algorithm /\ P.session_persistence = d[p].session_persistence
  BY DEF PoolFits
<1> QED BY <1>1, <1>2, <1>3, EntryIsRight
-----------------------------------------------------------------------------
(* The objects octavia-lib shows *)

LEMMA PoolMonitor ==
  ASSUME NEW d, Tidy(d), NEW st, NEW p, \A h \in InPool(d, p, Monitors) : st[h] # "PENDING_DELETE"
  PROVE  MonitorFits(ProviderPool(d, p).healthmonitor, d, st, p)
<1> DEFINE hs == InPool(d, p, Monitors)
           H == ProviderPool(d, p).healthmonitor
<1>1. H = IF hs = {} THEN None ELSE ProviderMonitor(d, CHOOSE h \in hs : TRUE)
  BY DEF ProviderPool
<1>2. MonitorsIn(d, st, p) = hs
  BY DEF MonitorsIn, WantedIn, InPool
<1>3. \A h, k \in hs : h = k
  BY DEF Tidy, InPool
<1>4. CASE hs = {}
  BY <1>1, <1>2, <1>4 DEF MonitorFits
<1>5. CASE hs # {}
  <2>1. PICK h \in Monitors : hs = {h}
    BY <1>3, <1>5 DEF InPool
  <2>2. (CHOOSE k \in hs : TRUE) = h
    BY <2>1
  <2> QED BY <1>1, <1>2, <1>5, <2>1, <2>2 DEF MonitorFits
<1> QED BY <1>4, <1>5

LEMMA PoolMembers ==
  ASSUME NEW d, NEW st, NEW p, \A m \in InPool(d, p, Members) : st[m] # "PENDING_DELETE"
  PROVE  /\ ProviderPool(d, p).members = {ProviderMember(d, m) : m \in MembersIn(d, st, p)}
         /\ MembersIn(d, st, p) = InPool(d, p, Members)
<1>1. MembersIn(d, st, p) = InPool(d, p, Members)
  BY DEF MembersIn, WantedIn, InPool
<1> QED BY <1>1 DEF ProviderPool

LEMMA PoolIsObject ==
  ASSUME NEW d, RowsTyped(d), NEW p \in Pools, d[p] # None
  PROVE  /\ ProviderPool(d, p) # None /\ ProviderPool(d, p).members # None
         /\ \A listener : PoolOf(listener, ProviderPool(d, p)) = ProviderPool(d, p)
         /\ MembersOf(ProviderPool(d, p), None) = ProviderPool(d, p).members
         /\ MonitorOf(ProviderPool(d, p), None) = ProviderPool(d, p).healthmonitor
         /\ MembersKnown(ProviderPool(d, p).members)
<1>1. ProviderPool(d, p) \in PoolObjects
  BY PoolTyped
<1>2. ProviderPool(d, p).members \in SUBSET MemberObjects
  BY <1>1 DEF PoolObjects
<1>3. ProviderPool(d, p) # None /\ ProviderPool(d, p).members # None
  BY <1>1, <1>2, NoneAssumption
<1>4. MembersKnown(ProviderPool(d, p).members)
  BY PoolObject
<1> QED BY <1>3, <1>4 DEF PoolOf, MembersOf, MonitorOf, get_field

\* A listener posted with all that hangs below it, none of it being deleted.
LEMMA WholeTreeIsRight ==
  ASSUME NEW d, NEW st, NEW l \in Listeners, RowsTyped(d), Tidy(d), ExistsIn(d, st, l),
         \A r \in Children : st[r] # "PENDING_DELETE",
         NEW report,
         NEW s, s = reconcile_service(ProviderListener(d, l), None, None, None, report)
  PROVE  RightStep(s, d, st) /\ Addresses(s, l)
<1> DEFINE listener == ProviderListener(d, l)
           ps == DefaultPools(d, l)
<1>1. /\ listener.protocol_port = l /\ listener.listener_id = l
      /\ listener.default_pool = IF ps = {} THEN None ELSE ProviderPool(d, CHOOSE p \in ps : TRUE)
  BY DEF ProviderListener
<1>2. PoolsIn(d, st, l) = ps
  BY DEF PoolsIn, DefaultPools, WantedIn, Children
<1>3. PoolOf(listener, None) = listener.default_pool
  BY DEF PoolOf
<1>4. CASE ps = {}
  <2>1. EndpointsIn(d, st, l) = {}
    BY <1>2, <1>4 DEF EndpointsIn
  <2>2. MembersOf(PoolOf(listener, None), None) = {}
    BY <1>1, <1>3, <1>4 DEF MembersOf
  <2> QED BY <1>1, <2>1, <2>2, NoEndpointsIsRight
<1>5. CASE ps # {}
  <2>1. PICK p \in Pools : ps = {p}
    <3>1. PICK p \in Pools : p \in ps
      BY <1>5 DEF DefaultPools
    <3>2. l # None
      BY ResourcesAssumption DEF Resources, Children
    <3>3. \A q \in ps : q = p
      BY <3>1, <3>2 DEF DefaultPools, Tidy
    <3> QED BY <3>1, <3>3
  <2>2. (CHOOSE q \in ps : TRUE) = p /\ d[p] # None
    BY <2>1 DEF DefaultPools
  <2> DEFINE P == ProviderPool(d, p)
  <2>3. PoolOf(listener, None) = P
    BY <1>1, <1>3, <1>5, <2>2
  <2>4. /\ P # None /\ MembersKnown(P.members) /\ MembersOf(P, None) = P.members
        /\ MonitorOf(P, None) = P.healthmonitor
    BY <2>2, PoolIsObject
  <2>5. P.members = {ProviderMember(d, m) : m \in MembersIn(d, st, p)}
    <3>1. \A m \in InPool(d, p, Members) : st[m] # "PENDING_DELETE"
      BY DEF InPool, Children
    <3> QED BY <3>1, PoolMembers
  <2>6. MonitorFits(P.healthmonitor, d, st, p)
    <3>1. \A h \in InPool(d, p, Monitors) : st[h] # "PENDING_DELETE"
      BY DEF InPool, Children
    <3> QED BY <3>1, PoolMonitor
  <2>7. P.lb_algorithm = d[p].lb_algorithm /\ P.session_persistence = d[p].session_persistence
    BY DEF ProviderPool
  <2>8. MembersKnown(None)
    BY DEF MembersKnown
  <2>9. PoolsIn(d, st, l) = {p} /\ listener.listener_id \in Listeners
    BY <1>1, <1>2, <2>1
  <2>10. MonitorFits(MonitorOf(P, None), d, st, p) /\ MembersOf(P, None) = {ProviderMember(d, m) : m \in MembersIn(d, st, p)}
    BY <2>4, <2>5, <2>6
  <2>11. s = reconcile_service(listener, None, None, None, report)
    OBVIOUS
  <2> HIDE DEF P, listener, ps
  <2>12. PoolFits(P, None, None, d, st, p)
    BY <2>4, <2>7, <2>8, <2>10 DEF PoolFits
  <2> QED BY <1>1, <2>3, <2>9, <2>11, <2>12, ReconcileIsRight
<1> QED BY <1>4, <1>5
-----------------------------------------------------------------------------
(* States that want the same of a listener *)

\* What the rule of l shows is the same in both states; other children may differ.
LEMMA SameRight ==
  ASSUME NEW d, NEW st, NEW e, NEW su, NEW l \in Listeners, NEW rule,
         ExistsIn(d, st, l) <=> ExistsIn(e, su, l),
         ExistsIn(d, st, l) =>
           /\ \A p \in Pools :
                \/ d[p] = e[p] /\ (st[p] = "PENDING_DELETE" <=> su[p] = "PENDING_DELETE")
                \/ p \notin PoolsIn(d, st, l) /\ p \notin PoolsIn(e, su, l)
           /\ \A m \in Leaves :
                \/ d[m] = e[m] /\ (st[m] = "PENDING_DELETE" <=> su[m] = "PENDING_DELETE")
                \/ /\ ~ (WantedIn(d, st, m) /\ d[m].pool_id \in PoolsIn(d, st, l))
                   /\ ~ (WantedIn(e, su, m) /\ e[m].pool_id \in PoolsIn(e, su, l))
  PROVE  Right(d, st, l, rule) <=> Right(e, su, l, rule)
<1>1. CASE ~ ExistsIn(d, st, l)
  BY <1>1 DEF Right
<1>2. CASE ExistsIn(d, st, l)
  <2> DEFINE ps == PoolsIn(d, st, l)
             qs == PoolsIn(e, su, l)
  <2>1. \A p \in Pools : /\ p \in ps <=> WantedIn(d, st, p) /\ d[p].listener_id = l
                         /\ p \in qs <=> WantedIn(e, su, p) /\ e[p].listener_id = l
    BY DEF PoolsIn
  <2>2. \A p \in Pools : (p \in ps <=> p \in qs) /\ (p \in ps => d[p] = e[p])
    BY <1>2, <2>1 DEF WantedIn
  <2>3. ps = qs
    BY <2>2 DEF PoolsIn
  <2>4. \A m \in Leaves :
          /\ (WantedIn(d, st, m) /\ d[m].pool_id \in ps) <=> (WantedIn(e, su, m) /\ e[m].pool_id \in qs)
          /\ (WantedIn(d, st, m) /\ d[m].pool_id \in ps) => d[m] = e[m]
    BY <1>2, <2>3 DEF WantedIn
  <2>5. EndpointsIn(d, st, l) = EndpointsIn(e, su, l)
    BY <2>4 DEF EndpointsIn, Leaves
  <2>6. ProbesIn(d, st, l) = ProbesIn(e, su, l)
    <3> DEFINE hs == {k \in Monitors : WantedIn(d, st, k) /\ d[k].pool_id \in ps /\ d[k].admin_state_up}
               ks == {k \in Monitors : WantedIn(e, su, k) /\ e[k].pool_id \in qs /\ e[k].admin_state_up}
    <3>1. hs = ks /\ \A h \in hs : d[h] = e[h]
      BY <2>4 DEF Leaves
    <3>2. /\ ProbesIn(d, st, l) = {HEALTH_MONITOR_PROBE_MAP[d[h].type] : h \in hs}
          /\ ProbesIn(e, su, l) = {HEALTH_MONITOR_PROBE_MAP[e[h].type] : h \in ks}
      BY DEF ProbesIn
    <3> HIDE DEF hs, ks
    <3> QED BY <3>1, <3>2
  <2>7. SelectionsIn(d, st, l) = SelectionsIn(e, su, l)
    <3>1. \A p \in ps : d[p] = e[p]
      BY <2>2 DEF PoolsIn
    <3> QED BY <2>3, <3>1 DEF SelectionsIn
  <2> QED BY <1>2, <2>5, <2>6, <2>7 DEF Right
<1> QED BY <1>1, <1>2

\* The children a call changes hang below the listeners it locks.
Closed(rows, locks) ==
  /\ Listeners \cap DOMAIN rows \subseteq DOMAIN locks
  /\ \A p \in Pools \cap (DOMAIN rows \cup DOMAIN locks) :
       \A x \in {db[p], Written(rows)[p]} : x # None => x.listener_id \in DOMAIN locks \cup {None}
  /\ \A m \in Leaves \cap (DOMAIN rows \cup DOMAIN locks) :
       \A x \in {db[m], Written(rows)[m]} : x # None => x.pool_id \in DOMAIN locks

\* The others are left as they are.
LEMMA OthersStayRight ==
  ASSUME NEW rows, NEW locks, NEW l \in Listeners, l \notin DOMAIN locks, Closed(rows, locks),
         prov[LB] = "ACTIVE", LB \in DOMAIN locks => locks[LB] = "PENDING_UPDATE", NEW rule
  PROVE  Right(db, prov, l, rule) <=> Right(Written(rows), Ahead(locks), l, rule)
<1> DEFINE d == Written(rows)
           st == Ahead(locks)
<1>1. /\ \A r \in Children : r \notin DOMAIN rows \cup DOMAIN locks => d[r] = db[r] /\ st[r] = prov[r]
      /\ st[LB] \in {"ACTIVE", "PENDING_UPDATE"}
  BY DEF Written, Ahead, Resources
<1>2. ExistsIn(db, prov, l) <=> ExistsIn(d, st, l)
  BY <1>1 DEF ExistsIn, WantedIn, Closed, Children
<1>3. l # None
  BY ResourcesAssumption DEF Resources, Children
<1>4. ASSUME NEW p \in Pools
      PROVE  \/ db[p] = d[p] /\ (prov[p] = "PENDING_DELETE" <=> st[p] = "PENDING_DELETE")
             \/ p \notin PoolsIn(db, prov, l) /\ p \notin PoolsIn(d, st, l)
  BY <1>1, <1>3 DEF Closed, PoolsIn, WantedIn, Children
<1>5. ASSUME NEW p \in Pools, p \in DOMAIN locks
      PROVE  p \notin PoolsIn(db, prov, l) /\ p \notin PoolsIn(d, st, l)
  BY <1>3, <1>5 DEF Closed, PoolsIn, WantedIn
<1>6. ASSUME NEW m \in Leaves
      PROVE  \/ db[m] = d[m] /\ (prov[m] = "PENDING_DELETE" <=> st[m] = "PENDING_DELETE")
             \/ /\ ~ (WantedIn(db, prov, m) /\ db[m].pool_id \in PoolsIn(db, prov, l))
                /\ ~ (WantedIn(d, st, m) /\ d[m].pool_id \in PoolsIn(d, st, l))
  <2>1. CASE m \notin DOMAIN rows \cup DOMAIN locks
    BY <1>1, <2>1, KindsDiffer
  <2>2. CASE m \in DOMAIN rows \cup DOMAIN locks
    <3>1. \A x \in {db[m], d[m]} : x # None => x.pool_id \in DOMAIN locks
      BY <2>2 DEF Closed
    <3>2. PoolsIn(db, prov, l) \subseteq Pools /\ PoolsIn(d, st, l) \subseteq Pools
      BY DEF PoolsIn
    <3> QED BY <1>5, <3>1, <3>2 DEF WantedIn
  <2> QED BY <2>1, <2>2
<1> HIDE DEF d, st
<1>7. Right(db, prov, l, rule) <=> Right(d, st, l, rule)
  BY <1>2, <1>4, <1>6, SameRight
<1> QED BY <1>7 DEF d, st
-----------------------------------------------------------------------------
(* What a handler may take for granted *)

\* Each report is about the load balancer too, so that no call begins while one waits,
\* and then nothing is locked.
Quiet == /\ TypeInv /\ Tidy(db)
         /\ \A r \in Resources : prov[r] \notin Pending

LEMMA HandlersBeginQuiet ==
  ASSUME RuleInv, Thorough, Planned
  PROVE  Quiet
<1>1. call = None /\ (reports = {} \/ prov[LB] = "ACTIVE")
  BY DEF Planned, WellLocked
<1>2. Due = reports /\ \A r : StatusThen(r) = prov[r]
  BY <1>1, NoCallAhead
<1>3. \A p \in reports : prov[LB] \in Pending
  BY <1>2, NoErrorReported DEF RuleInv, AnswerInv
<1>4. reports = {}
  BY <1>1, <1>3 DEF Pending
<1>5. \A r \in Resources : prov[r] \notin Pending
  BY <1>1, <1>2, <1>4 DEF RuleInv, AnswerInv, Underway
<1> QED BY <1>5 DEF Quiet, RuleInv, AnswerInv, LockInv, DriverInv

LEMMA QuietChildren ==
  ASSUME Quiet, NEW r \in Children
  PROVE  prov[r] # "PENDING_DELETE"
BY KindsDiffer DEF Quiet, Pending

\* A call of one step, which sees to the only listener the call locks, if any.
LEMMA OneStepIsRight ==
  ASSUME NEW operation, NEW s, NEW rows, NEW locks, Serve(operation, <<s>>, rows, locks),
         NEW l \in Listeners \cup {None}, Listeners \cap DOMAIN locks = {l} \ {None},
         Tidy(Written(rows)), Closed(rows, locks),
         prov[LB] = "ACTIVE", LB \in DOMAIN locks => locks[LB] = "PENDING_UPDATE",
         RightStep(s, Written(rows), Ahead(locks)), l # None => Addresses(s, l)
  PROVE  RightPlan(call')
<1>1. call'.todo = <<s>> /\ call'.rows = rows /\ call'.locks = locks
  BY DEF Serve, ServeOr
<1>2. Len(<<s>>) = 1 /\ 1 .. 1 = {1} /\ <<s>>[1] = s
  OBVIOUS
<1>3. \A k \in Listeners \ DOMAIN locks : \A rule :
        Right(db, prov, k, rule) => Right(Written(rows), Ahead(locks), k, rule)
  BY OthersStayRight
<1> QED BY <1>1, <1>2, <1>3 DEF RightPlan

\* A report alone asks for nothing.
LEMMA ReportIsRight ==
  ASSUME NEW report, NEW d, NEW st
  PROVE  RightStep(Report(report), d, st)
BY DEF Report, RightStep

\* Where the getters answer, the handlers of pools find the listener.
LEMMA PoolStepFinds ==
  ASSUME RowsTyped(db), ~ GetsMayFail, NEW gets \in Gets, NEW pool, NEW l \in Listeners \cup {None},
         pool.loadbalancer_id = LB, pool.listener_id = l, l # None => db[l] # None,
         NEW changed, NEW members
  PROVE  \E report : PoolStep(pool, changed, gets, members) =
           IF l = None THEN Report(report)
           ELSE reconcile_service(ProviderListener(db, l), IF members = None THEN pool ELSE None,
                                  members, None, report)
<1>1. LB # None
  BY ResourcesAssumption DEF Resources
<1>2. resolve_loadbalancer(pool.loadbalancer_id, gets) # None
  BY <1>1, GetsAnswer DEF resolve_loadbalancer
<1>3. /\ l = None => resolve_listener(l, gets) = None
      /\ l # None => resolve_listener(l, gets) # None /\ resolve_listener(l, gets) = ProviderListener(db, l)
  BY ResolvedListener DEF resolve_listener
<1> QED BY <1>2, <1>3 DEF PoolStep

LEMMA BelowPoolFinds ==
  ASSUME RowsTyped(db), ~ GetsMayFail, NEW gets \in Gets, NEW p \in Pools, db[p] # None,
         NEW l \in Listeners \cup {None}, db[p].listener_id = l, l # None => db[l] # None,
         NEW changed, NEW members, NEW healthmonitor
  PROVE  \E report : below_pool(p, changed, gets, members, healthmonitor) =
           IF l = None THEN Report(report)
           ELSE reconcile_service(ProviderListener(db, l), ProviderPool(db, p), members,
                                  healthmonitor, report)
<1> DEFINE pool == ProviderPool(db, p)
<1>1. LB # None /\ p # None
  BY ResourcesAssumption DEF Resources, Children
<1>2. pool # None /\ pool.loadbalancer_id = LB /\ pool.listener_id = l
  BY PoolIsObject, PoolObject
<1>3. "pool" \in gets /\ resolve_loadbalancer(LB, gets) # None
  BY <1>1, GetsAnswer DEF resolve_loadbalancer
<1>4. /\ l = None => resolve_listener(l, gets) = None
      /\ l # None => resolve_listener(l, gets) # None /\ resolve_listener(l, gets) = ProviderListener(db, l)
  BY ResolvedListener DEF resolve_listener
<1> QED BY <1>1, <1>2, <1>3, <1>4 DEF below_pool
-----------------------------------------------------------------------------
(* The handlers of listeners *)

\* What becomes of the resources.
LEMMA StateAhead ==
  ASSUME NEW rows, NEW locks
  PROVE  /\ \A r \in Children : Written(rows)[r] = IF r \in DOMAIN rows THEN rows[r] ELSE db[r]
         /\ \A r \in Resources : Ahead(locks)[r] = IF r \in DOMAIN locks THEN locks[r] ELSE prov[r]
         /\ \A l \in Listeners : ProviderListener(Written(rows), l).protocol_port = l
BY DEF Written, Ahead, ProviderListener

LEMMA WrittenIsTyped ==
  ASSUME TypeInv, NEW rows, \A r \in DOMAIN rows : rows[r] \in Rows(r)
  PROVE  RowsTyped(Written(rows))
BY DEF TypeInv, TypeOK, RowsTyped, Written

LEMMA ListenerCreateRight ==
  ASSUME Quiet, ~ GetsMayFail, NEW l \in Listeners, listener_create(l)
  PROVE  RightPlan(call')
<1>1. PICK protocol \in Protocols, gets \in Gets, ps \in {{}} \cup FreePools :
        LET rows == [r \in {l} \cup ps |-> IF r = l THEN [protocol |-> protocol]
                                           ELSE [db[r] EXCEPT !.listener_id = l]]
            lb == resolve_loadbalancer(LB, gets)
            report == StatusOf(Only(l, "ACTIVE"), {lb})
        IN  Serve("listener_create",
                  <<IF lb = None THEN Report(report)
                    ELSE reconcile_service(ProviderListener(Written(rows), l),
                                           None, None, None, report)>>,
                  rows, Locks(Only(l, "PENDING_CREATE"), {LB}))
  BY DEF listener_create, AboveListener
<1> DEFINE rows == [r \in {l} \cup ps |-> IF r = l THEN [protocol |-> protocol]
                                          ELSE [db[r] EXCEPT !.listener_id = l]]
           locks == Locks(Only(l, "PENDING_CREATE"), {LB})
           lb == resolve_loadbalancer(LB, gets)
           report == StatusOf(Only(l, "ACTIVE"), {lb})
           d == Written(rows)
           st == Ahead(locks)
           s == reconcile_service(ProviderListener(d, l), None, None, None, report)
<1>2. prov[l] = "NONE" /\ prov[LB] = "ACTIVE" /\ TypeInv /\ Tidy(db)
  BY DEF listener_create, Mutable, Quiet
<1>3. /\ LB # None /\ l # None /\ l \in Children /\ l # LB /\ l \notin Pools \cup Leaves
      /\ LB \notin Children /\ Pools \cap Listeners = {} /\ Leaves \cap (Pools \cup Listeners) = {}
  BY ResourcesAssumption DEF Resources, Children, Leaves
<1>4. lb # None
  BY <1>3, GetsAnswer DEF resolve_loadbalancer
<1>5. Serve("listener_create", <<s>>, rows, locks)
  BY <1>1, <1>4
<1>6. DOMAIN locks = {l, LB} /\ locks[l] = "PENDING_CREATE" /\ locks[LB] = "PENDING_UPDATE"
  BY <1>3 DEF Locks, Only
<1>7. /\ DOMAIN rows = {l} \cup ps /\ rows[l] = [protocol |-> protocol]
      /\ ps \subseteq Pools /\ \A p, q \in ps : p = q
      /\ \A p \in ps : /\ rows[p] = [db[p] EXCEPT !.listener_id = l] /\ p # l
                       /\ db[p] # None /\ db[p].listener_id = None
                       /\ db[p] \in [listener_id : Listeners \cup {None}, lb_algorithm : Algorithms,
                                     session_persistence : Persistences \cup {None}]
  <2>1. ps \subseteq Pools /\ \A p \in ps : prov[p] = "ACTIVE" /\ db[p].listener_id = None
    BY DEF FreePools
  <2>2. \A p, q \in ps : p = q
    BY DEF FreePools
  <2>3. \A p \in ps : db[p] # None /\ db[p] \in Rows(p)
    BY <2>1, <1>2, RowsWhereActive DEF Children
  <2> QED BY <1>3, <2>1, <2>2, <2>3, RowsByKind
<1>8. \A r \in DOMAIN rows : rows[r] \in Rows(r)
  <2>1. rows[l] \in Rows(l)
    BY <1>7, RowsByKind
  <2>2. ASSUME NEW r \in ps PROVE rows[r] \in Rows(r)
    <3>1. /\ rows[r] = [db[r] EXCEPT !.listener_id = l] /\ r \in Pools
          /\ db[r] \in [listener_id : Listeners \cup {None}, lb_algorithm : Algorithms,
                        session_persistence : Persistences \cup {None}]
      BY <1>7, <2>2
    <3>2. [db[r] EXCEPT !.listener_id = l]
            \in [listener_id : Listeners \cup {None}, lb_algorithm : Algorithms,
                session_persistence : Persistences \cup {None}]
      BY <3>1
    <3> HIDE DEF rows
    <3> QED BY <3>1, <3>2, RowsByKind
  <2> HIDE DEF rows
  <2> QED BY <2>1, <2>2, <1>7
<1>9. /\ \A r \in Children : d[r] = IF r \in DOMAIN rows THEN rows[r] ELSE db[r]
      /\ \A r \in Resources : st[r] = IF r \in DOMAIN locks THEN locks[r] ELSE prov[r]
      /\ RowsTyped(d) /\ db[l] = None
  BY <1>2, <1>3, <1>8, StateAhead, WrittenIsTyped DEF TypeInv
<1>10. d[l] # None
  <2>1. d[l] = rows[l] /\ rows[l] \in Rows(l)
    BY <1>3, <1>7, <1>8, <1>9
  <2> QED BY <1>3, <2>1, NoneAssumption
<1>11. \A p \in ps : rows[p].listener_id = l
  BY <1>7
<1> HIDE DEF rows, locks, d, st
<1>12. Tidy(d)
  <2>1. \A p \in Pools : d[p] # None /\ d[p].listener_id # None =>
          \/ p \in ps /\ d[p].listener_id = l
          \/ p \notin ps /\ d[p] = db[p] /\ d[p].listener_id # l
    BY <1>2, <1>3, <1>7, <1>9, <1>11 DEF Tidy, Children
  <2>2. \A k \in Listeners : k # l => d[k] = db[k]
    BY <1>3, <1>7, <1>9 DEF Children
  <2>3. ASSUME NEW p \in Pools, d[p] # None, d[p].listener_id # None
        PROVE  d[d[p].listener_id] # None
    <3>1. CASE d[p].listener_id = l
      BY <1>10, <3>1
    <3>2. CASE d[p].listener_id # l
      <4>1. d[p] = db[p]
        BY <2>1, <2>3, <3>2
      <4>2. d[p].listener_id \in Listeners
        <5>1. d[p] \in [listener_id : Listeners \cup {None}, lb_algorithm : Algorithms,
                        session_persistence : Persistences \cup {None}]
          BY <1>9, <2>3, RowsByKind DEF RowsTyped, Children
        <5>2. d[p].listener_id \in Listeners \cup {None}
          BY <5>1
        <5> QED BY <2>3, <5>2
      <4> QED BY <1>2, <2>2, <2>3, <3>2, <4>1, <4>2 DEF Tidy
    <3> QED BY <3>1, <3>2
  <2>4. \A p, q \in Pools :
          d[p] # None /\ d[q] # None /\ d[p].listener_id # None /\ d[p].listener_id = d[q].listener_id
            => p = q
    BY <2>1, <1>2, <1>7 DEF Tidy
  <2>5. \A h \in Monitors : d[h] = db[h]
    BY <1>3, <1>7, <1>9 DEF Leaves, Children
  <2> QED BY <2>3, <2>4, <2>5, <1>2 DEF Tidy
<1>13. Closed(rows, locks)
  <2>1. Listeners \cap DOMAIN rows \subseteq DOMAIN locks
    BY <1>3, <1>6, <1>7
  <2>2. \A p \in Pools \cap (DOMAIN rows \cup DOMAIN locks) : p \in ps /\ d[p] = rows[p]
    BY <1>3, <1>6, <1>7, <1>9 DEF Children
  <2>3. \A m \in Leaves : m \notin DOMAIN rows \cup DOMAIN locks
    BY <1>3, <1>6, <1>7, KindsDiffer
  <2> QED BY <2>1, <2>2, <2>3, <1>6, <1>7, <1>11 DEF Closed, d
<1>14. ExistsIn(d, st, l)
  BY <1>3, <1>6, <1>9, <1>10 DEF ExistsIn, WantedIn, Resources
<1>15. \A r \in Children : st[r] # "PENDING_DELETE"
  BY <1>3, <1>6, <1>9, QuietChildren DEF Resources
<1>16. RightStep(s, d, st) /\ Addresses(s, l)
  BY <1>9, <1>12, <1>14, <1>15, WholeTreeIsRight
<1>17. Listeners \cap DOMAIN locks = {l} \ {None}
  BY <1>3, <1>6 DEF Children
<1> HIDE DEF s
<1> QED BY <1>2, <1>5, <1>6, <1>12, <1>13, <1>16, <1>17, OneStepIsRight DEF d, st

LEMMA ListenerUpdateRight ==
  ASSUME Quiet, Thorough, NEW l \in Listeners, listener_update(l)
  PROVE  RightPlan(call')
<1>1. PICK kind \in UpdateObjects, gets \in Gets, ps \in {{}, DefaultPools(db, l)} \cup FreePools :
        LET rows == [r \in ps \cup DefaultPools(db, l) |->
                       [db[r] EXCEPT !.listener_id = IF r \in ps THEN l ELSE None]]
            new == Shown(kind, ProviderListener(Written(rows), l), "listener_id",
                         IF ps = DefaultPools(db, l) THEN {} ELSE {"default_pool"})
            lb == resolve_loadbalancer(new.loadbalancer_id, gets)
            report == StatusOf(Only(l, "ACTIVE"), {lb})
        IN  Serve("listener_update",
                  <<IF lb = None THEN Report(report)
                    ELSE reconcile_service(new, None, None, None, report)>>,
                  rows, Locks(Only(l, "PENDING_UPDATE"), {LB}))
  BY DEF listener_update, AboveListener
<1> DEFINE rows == [r \in ps \cup DefaultPools(db, l) |->
                      [db[r] EXCEPT !.listener_id = IF r \in ps THEN l ELSE None]]
           locks == Locks(Only(l, "PENDING_UPDATE"), {LB})
           d == Written(rows)
           st == Ahead(locks)
           object == ProviderListener(d, l)
           changed == IF ps = DefaultPools(db, l) THEN {} ELSE {"default_pool"}
           new == Shown(kind, object, "listener_id", changed)
           lb == resolve_loadbalancer(LB, gets)
           report == StatusOf(Only(l, "ACTIVE"), {lb})
           s == reconcile_service(object, None, None, None, report)
<1>2. prov[l] = "ACTIVE" /\ prov[LB] = "ACTIVE" /\ TypeInv /\ Tidy(db) /\ db[l] # None
  BY RowsWhereActive DEF listener_update, Mutable, Quiet, Children
<1>3. /\ LB # None /\ l # None /\ l \in Children /\ l # LB /\ l \notin Pools \cup Leaves
      /\ LB \notin Children /\ Pools \cap Listeners = {} /\ Leaves \cap (Pools \cup Listeners) = {}
  BY ResourcesAssumption DEF Resources, Children, Leaves
<1>4. lb # None
  BY <1>3, GetsAnswer DEF resolve_loadbalancer, Thorough
<1>5. Serve("listener_update", <<s>>, rows, locks)
  <2>1. kind = "full"
    BY OptionsAssumption DEF Thorough
  <2>2. object = [f \in DOMAIN object |-> object[f]] /\ object.loadbalancer_id = LB
    BY DEF ProviderListener
  <2>3. new = object
    BY <2>1, <2>2 DEF Shown
  <2>4. new.loadbalancer_id = LB
    BY <2>2, <2>3
  <2> HIDE DEF new, object
  <2> QED BY <1>1, <1>4, <2>3, <2>4 DEF new, object
<1>6. DOMAIN locks = {l, LB} /\ locks[l] = "PENDING_UPDATE" /\ locks[LB] = "PENDING_UPDATE"
  BY <1>3 DEF Locks, Only
<1>7. /\ DOMAIN rows = ps \cup DefaultPools(db, l)
      /\ ps \subseteq Pools /\ \A p, q \in ps : p = q
      /\ \A p \in ps \cup DefaultPools(db, l) :
           /\ rows[p] = [db[p] EXCEPT !.listener_id = IF p \in ps THEN l ELSE None] /\ p \in Pools
           /\ db[p] # None /\ db[p].listener_id \in {None, l}
           /\ db[p] \in [listener_id : Listeners \cup {None}, lb_algorithm : Algorithms,
                         session_persistence : Persistences \cup {None}]
  <2>1. \A p, q \in DefaultPools(db, l) : p = q
    BY <1>2, <1>3 DEF DefaultPools, Tidy
  <2>2. /\ \A p \in DefaultPools(db, l) : p \in Pools /\ db[p] # None /\ db[p].listener_id = l
        /\ \A p \in ps : p \in Pools /\ (p \in DefaultPools(db, l) \/ (prov[p] = "ACTIVE" /\ db[p].listener_id = None))
    BY DEF FreePools, DefaultPools
  <2>3. \A p, q \in ps : p = q
    BY <2>1 DEF FreePools
  <2>4. \A p \in ps \cup DefaultPools(db, l) : db[p] # None /\ db[p] \in Rows(p)
    BY <2>2, <1>2, RowsWhereActive DEF Children, RowsTyped
  <2> QED BY <1>3, <2>2, <2>3, <2>4, RowsByKind
<1>8. \A r \in DOMAIN rows : /\ rows[r] \in Rows(r)
                              /\ rows[r].listener_id = IF r \in ps THEN l ELSE None
  <2> SUFFICES ASSUME NEW r \in ps \cup DefaultPools(db, l)
               PROVE  rows[r] \in Rows(r) /\ rows[r].listener_id = IF r \in ps THEN l ELSE None
    BY <1>7
  <2>1. PICK id \in {None, l} : id = IF r \in ps THEN l ELSE None
    OBVIOUS
  <2>2. rows[r] = [db[r] EXCEPT !.listener_id = id]
    BY <2>1
  <2>3. /\ r \in Pools
        /\ db[r] \in [listener_id : Listeners \cup {None}, lb_algorithm : Algorithms,
                      session_persistence : Persistences \cup {None}]
    BY <1>7
  <2>4. /\ [db[r] EXCEPT !.listener_id = id].listener_id = id
        /\ [db[r] EXCEPT !.listener_id = id]
             \in [listener_id : Listeners \cup {None}, lb_algorithm : Algorithms,
                 session_persistence : Persistences \cup {None}]
    BY <2>1, <2>3
  <2> HIDE DEF rows
  <2> QED BY <2>1, <2>2, <2>3, <2>4, RowsByKind
<1>9. /\ \A r \in Children : d[r] = IF r \in DOMAIN rows THEN rows[r] ELSE db[r]
      /\ \A r \in Resources : st[r] = IF r \in DOMAIN locks THEN locks[r] ELSE prov[r]
      /\ RowsTyped(d)
  <2>1. \A r \in DOMAIN rows : rows[r] \in Rows(r)
    BY <1>8
  <2>2. RowsTyped(d)
    <3> HIDE DEF rows
    <3> QED BY <2>1, <1>2, WrittenIsTyped
  <2> HIDE DEF rows, locks
  <2> QED BY <2>2, StateAhead
<1> HIDE DEF rows, locks, d, st
<1>10. d[l] = db[l] /\ \A k \in Listeners \cup Leaves : d[k] = db[k]
  BY <1>3, <1>7, <1>9 DEF Children, Leaves
<1>11. Tidy(d)
  <2>1. \A p \in Pools : d[p] # None /\ d[p].listener_id # None =>
          \/ p \in ps /\ d[p].listener_id = l
          \/ p \notin ps /\ d[p] = db[p] /\ d[p].listener_id # l
    BY <1>3, <1>7, <1>8, <1>9 DEF DefaultPools, Children
  <2>2. ASSUME NEW p \in Pools, d[p] # None, d[p].listener_id # None
        PROVE  d[d[p].listener_id] # None
    <3>1. CASE d[p].listener_id = l
      BY <1>2, <1>10, <3>1
    <3>2. CASE d[p].listener_id # l
      <4>1. d[p] = db[p]
        BY <2>1, <2>2, <3>2
      <4>2. d[p].listener_id \in Listeners
        <5>1. d[p] \in [listener_id : Listeners \cup {None}, lb_algorithm : Algorithms,
                        session_persistence : Persistences \cup {None}]
          BY <1>9, <2>2, RowsByKind DEF RowsTyped, Children
        <5>2. d[p].listener_id \in Listeners \cup {None}
          BY <5>1
        <5> QED BY <2>2, <5>2
      <4> QED BY <1>2, <1>10, <2>2, <4>1, <4>2 DEF Tidy
    <3> QED BY <3>1, <3>2
  <2>3. \A p, q \in Pools :
          d[p] # None /\ d[q] # None /\ d[p].listener_id # None /\ d[p].listener_id = d[q].listener_id
            => p = q
    <3> SUFFICES ASSUME NEW p \in Pools, NEW q \in Pools, d[p] # None, d[q] # None,
                        d[p].listener_id # None, d[p].listener_id = d[q].listener_id
                 PROVE  p = q
      OBVIOUS
    <3>1. \/ p \in ps /\ q \in ps
          \/ d[p] = db[p] /\ d[q] = db[q]
      BY <2>1
    <3>2. CASE p \in ps /\ q \in ps
      BY <3>2, <1>7
    <3>3. CASE d[p] = db[p] /\ d[q] = db[q]
      BY <3>3, <1>2 DEF Tidy
    <3> QED BY <3>1, <3>2, <3>3
  <2> QED BY <2>2, <2>3, <1>2, <1>10 DEF Tidy, Leaves
<1>12. Closed(rows, locks)
  <2>1. Listeners \cap DOMAIN rows \subseteq DOMAIN locks
    BY <1>3, <1>7
  <2>2. \A p \in Pools \cap (DOMAIN rows \cup DOMAIN locks) : p \in DOMAIN rows /\ d[p] = rows[p]
    BY <1>3, <1>6, <1>7, <1>9 DEF Children
  <2>3. \A m \in Leaves : m \notin DOMAIN rows \cup DOMAIN locks
    <3>1. DOMAIN rows \subseteq Pools
      BY <1>7
    <3>2. \A m \in Leaves : m \notin Pools /\ m # l /\ m # LB
      BY <1>3 DEF Leaves, Children
    <3> QED BY <3>1, <3>2, <1>6
  <2>4. \A p \in DOMAIN rows : /\ rows[p].listener_id \in DOMAIN locks \cup {None}
                               /\ db[p].listener_id \in DOMAIN locks \cup {None}
    BY <1>6, <1>7, <1>8
  <2> QED BY <2>1, <2>2, <2>3, <2>4 DEF Closed, d
<1>13. ExistsIn(d, st, l)
  BY <1>2, <1>3, <1>6, <1>9, <1>10 DEF ExistsIn, WantedIn, Resources
<1>14. \A r \in Children : st[r] # "PENDING_DELETE"
  BY <1>3, <1>6, <1>9, QuietChildren DEF Resources
<1>15. RightStep(s, d, st) /\ Addresses(s, l)
  BY <1>9, <1>11, <1>13, <1>14, WholeTreeIsRight
<1>16. Listeners \cap DOMAIN locks = {l} \ {None}
  BY <1>3, <1>6 DEF Children
<1> HIDE DEF s
<1> QED BY <1>2, <1>5, <1>6, <1>11, <1>12, <1>15, <1>16, OneStepIsRight DEF d, st

\* The calls that write no row: what is there is as tidy as before.
LEMMA NothingWritten ==
  ASSUME Quiet
  PROVE  /\ Tidy(Written(NoRows)) /\ RowsTyped(Written(NoRows))
         /\ \A r \in Children : Written(NoRows)[r] = db[r]
         /\ DOMAIN NoRows = {}
<1>1. (\A r \in Children : Written(NoRows)[r] = db[r]) /\ DOMAIN NoRows = {}
  BY DEF Written, NoRows
<1>2. \A p \in Pools : db[p] # None => db[p].listener_id \in Listeners \cup {None}
  <2>1. \A p \in Pools : db[p] # None =>
          db[p] \in [listener_id : Listeners \cup {None}, lb_algorithm : Algorithms,
                     session_persistence : Persistences \cup {None}]
    BY RowsByKind DEF Quiet, TypeInv, TypeOK, Children
  <2> QED BY <2>1
<1> QED BY <1>1, <1>2 DEF Quiet, Tidy, Children, RowsTyped, TypeInv, TypeOK

LEMMA ListenerOnlyIsClosed ==
  ASSUME NEW l \in Listeners, NEW locks, DOMAIN locks = {l, LB}
  PROVE  Closed(NoRows, locks) /\ Listeners \cap DOMAIN locks = {l} \ {None}
<1>1. l # None /\ DOMAIN NoRows = {}
  BY ResourcesAssumption DEF Resources, Children, NoRows
<1> QED BY <1>1, KindsDiffer DEF Closed

LEMMA ListenerDeleteRight ==
  ASSUME Quiet, ~ GetsMayFail, NEW l \in Listeners, listener_delete(l)
  PROVE  RightPlan(call')
<1> DEFINE locks == Locks(Only(l, "PENDING_DELETE"), {LB})
<1>1. PICK gets \in Gets :
        Serve("listener_delete", <<deletion_of_listener(l, gets)>>, NoRows, locks)
  BY DEF listener_delete, AboveListener
<1> DEFINE s == deletion_of_listener(l, gets)
           d == Written(NoRows)
           st == Ahead(locks)
<1>2. prov[LB] = "ACTIVE" /\ l # LB /\ l \in Resources
  BY KindsDiffer DEF listener_delete, Mutable
<1>3. DOMAIN locks = {l, LB} /\ locks[l] = "PENDING_DELETE" /\ locks[LB] = "PENDING_UPDATE"
  BY <1>2 DEF Locks, Only
<1>4. s.verb = "DELETE" /\ s.arg = l
  BY DeletionIsAsked DEF DeletesListener
<1>5. st[l] = "PENDING_DELETE"
  BY <1>2, <1>3, StateAhead
<1> HIDE DEF locks, s
<1>6. RightStep(s, d, st) /\ Addresses(s, l)
  BY <1>4, <1>5 DEF RightStep, Addresses, Right, ExistsIn, WantedIn
<1>7. Tidy(d)
  BY NothingWritten
<1>8. Closed(NoRows, locks) /\ Listeners \cap DOMAIN locks = {l} \ {None}
  BY <1>3, ListenerOnlyIsClosed
<1>9. Serve("listener_delete", <<s>>, NoRows, locks)
  BY <1>1 DEF s
<1> QED BY <1>2, <1>3, <1>6, <1>7, <1>8, <1>9, OneStepIsRight

LEMMA L7Right ==
  ASSUME Quiet, NEW l \in Listeners, l7policy_or_l7rule(l)
  PROVE  RightPlan(call')
<1> DEFINE locks == Locks(Only(l, "PENDING_UPDATE"), {LB})
           d == Written(NoRows)
           st == Ahead(locks)
<1>1. Serve("l7", <<Raise>>, NoRows, locks)
  BY DEF l7policy_or_l7rule, AboveListener
<1>2. prov[LB] = "ACTIVE" /\ l # LB
  BY KindsDiffer DEF l7policy_or_l7rule, Mutable
<1>3. DOMAIN locks = {l, LB} /\ locks[LB] = "PENDING_UPDATE"
  BY <1>2 DEF Locks, Only
<1> HIDE DEF locks
<1>4. RightStep(Raise, d, st) /\ Addresses(Raise, l)
  BY DEF RightStep, Addresses, Raise
<1>5. Tidy(d)
  BY NothingWritten
<1>6. Closed(NoRows, locks) /\ Listeners \cap DOMAIN locks = {l} \ {None}
  BY <1>3, ListenerOnlyIsClosed
<1> QED BY <1>1, <1>2, <1>3, <1>4, <1>5, <1>6, OneStepIsRight
-----------------------------------------------------------------------------
(* The handlers of pools, members and health monitors *)

LEMMA OnlyPool ==
  ASSUME NEW d, Tidy(d), NEW st, NEW p \in Pools, d[p] # None, NEW l, l # None,
         d[p].listener_id = l
  PROVE  PoolsIn(d, st, l) = IF st[p] = "PENDING_DELETE" THEN {} ELSE {p}
BY DEF PoolsIn, WantedIn, Tidy

\* A pool object of database e, with what is given instead of its members and monitor,
\* shows what pool p will be.
PoolShows(e, members, healthmonitor, d, st, p) ==
  /\ RowsTyped(e) /\ e[p] # None
  /\ e[p].lb_algorithm = d[p].lb_algorithm
  /\ e[p].session_persistence = d[p].session_persistence
  /\ MembersKnown(members)
  /\ MembersOf(ProviderPool(e, p), members) = {ProviderMember(d, m) : m \in MembersIn(d, st, p)}
  /\ MonitorFits(MonitorOf(ProviderPool(e, p), healthmonitor), d, st, p)

\* The listener of a pool, posted with what the pool shows, or with what is given
\* instead.
LEMMA PoolIsRight ==
  ASSUME NEW d, NEW st, RowsTyped(d), Tidy(d), NEW p \in Pools, WantedIn(d, st, p),
         NEW l \in Listeners, ExistsIn(d, st, l), d[p].listener_id = l,
         NEW e, NEW members, NEW healthmonitor, NEW report,
         PoolShows(e, members, healthmonitor, d, st, p),
         NEW s, s = reconcile_service(ProviderListener(db, l), ProviderPool(e, p), members,
                                      healthmonitor, report)
  PROVE  RightStep(s, d, st) /\ Addresses(s, l)
<1> DEFINE listener == ProviderListener(db, l)
           P == ProviderPool(e, p)
<1>1. listener.protocol_port = l /\ listener.listener_id \in Listeners
  BY DEF ProviderListener
<1>2. P # None /\ PoolOf(listener, P) = P /\ MembersKnown(P.members)
  BY PoolIsObject DEF PoolShows
<1>3. P.lb_algorithm = d[p].lb_algorithm /\ P.session_persistence = d[p].session_persistence
  BY DEF ProviderPool, PoolShows
<1>4. PoolsIn(d, st, l) = {p}
  <2>1. l # None
    BY ResourcesAssumption DEF Resources, Children
  <2>2. d[p] # None /\ st[p] # "PENDING_DELETE"
    BY DEF WantedIn
  <2>3. \A q \in PoolsIn(d, st, l) : q = p
    BY <2>1, <2>2 DEF PoolsIn, WantedIn, Tidy
  <2>4. p \in PoolsIn(d, st, l)
    BY DEF PoolsIn
  <2> HIDE DEF listener, P
  <2> QED BY ONLY <2>3, <2>4
<1>5. PoolFits(P, members, healthmonitor, d, st, p)
  BY <1>2, <1>3 DEF PoolFits, PoolShows
<1>6. s = reconcile_service(listener, P, members, healthmonitor, report)
  OBVIOUS
<1>7. l \in Listeners /\ p \in Pools /\ RowsTyped(d) /\ ExistsIn(d, st, l)
  OBVIOUS
<1> HIDE DEF listener, P
<1> QED BY ONLY <1>1, <1>2, <1>4, <1>5, <1>6, <1>7, ReconcileIsRight

\* What a call below pool p does not touch is shown as it will be.
LEMMA MembersAsRead ==
  ASSUME Quiet, NEW p \in Pools, db[p] # None, NEW d, NEW st,
         \A m \in Members : d[m] = db[m] /\ st[m] # "PENDING_DELETE"
  PROVE  MembersOf(ProviderPool(db, p), None) = {ProviderMember(d, m) : m \in MembersIn(d, st, p)}
<1>1. MembersOf(ProviderPool(db, p), None) = ProviderPool(db, p).members
  BY RowsWhereActive, PoolIsObject DEF Quiet
<1>2. MembersIn(d, st, p) = InPool(db, p, Members)
  BY DEF MembersIn, WantedIn, InPool
<1>3. \A m \in InPool(db, p, Members) : ProviderMember(d, m) = ProviderMember(db, m)
  BY DEF InPool, ProviderMember
<1>4. ProviderPool(db, p).members = {ProviderMember(db, m) : m \in InPool(db, p, Members)}
  BY DEF ProviderPool
<1> QED BY <1>1, <1>2, <1>3, <1>4

LEMMA MonitorAsRead ==
  ASSUME Quiet, NEW p \in Pools, db[p] # None, NEW d, NEW st,
         \A h \in Monitors : d[h] = db[h] /\ st[h] # "PENDING_DELETE"
  PROVE  MonitorFits(MonitorOf(ProviderPool(db, p), None), d, st, p)
<1>1. MonitorOf(ProviderPool(db, p), None) = ProviderPool(db, p).healthmonitor
  BY RowsWhereActive, PoolIsObject DEF Quiet
<1>2. MonitorFits(ProviderPool(db, p).healthmonitor, db, st, p)
  <2>1. \A h \in InPool(db, p, Monitors) : st[h] # "PENDING_DELETE"
    BY DEF InPool
  <2> QED BY <2>1, PoolMonitor DEF Quiet
<1>3. MonitorsIn(d, st, p) = MonitorsIn(db, st, p)
  BY DEF MonitorsIn, WantedIn
<1>4. \A h \in Monitors : ProviderMonitor(d, h) = ProviderMonitor(db, h)
  BY DEF ProviderMonitor
<1> QED BY <1>1, <1>2, <1>3, <1>4 DEF MonitorFits

\* A call about members or monitors (locked) of pool p.
LEMMA BelowPoolIsRight ==
  ASSUME Quiet, Thorough, NEW p \in Pools, PoolIsMutable(p),
         NEW rows, NEW locked, DOMAIN rows \subseteq DOMAIN locked, DOMAIN locked \subseteq Leaves,
         \A m \in DOMAIN rows : rows[m] \in Rows(m) /\ rows[m].pool_id = p,
         \A m \in DOMAIN locked : db[m] # None => db[m].pool_id = p,
         NEW changed, NEW gets \in Gets, NEW members, MembersKnown(members), NEW healthmonitor,
         NEW operation, NEW locks, locks = LocksBelow(p, locked),
         NEW s, s = below_pool(p, changed, gets, members, healthmonitor),
         Serve(operation, <<s>>, rows, locks),
         NEW d, d = Written(rows), NEW st, st = Ahead(locks), Tidy(d),
         MembersOf(ProviderPool(db, p), members) = {ProviderMember(d, m) : m \in MembersIn(d, st, p)},
         MonitorFits(MonitorOf(ProviderPool(db, p), healthmonitor), d, st, p)
  PROVE  RightPlan(call')
<1>1. PICK l \in Listeners \cup {None} : /\ db[p].listener_id = l /\ AbovePool(p) = {LB, l} \ {None}
                                         /\ l # None => db[l] # None
  <2>1. /\ db[p] \in [listener_id : Listeners \cup {None}, lb_algorithm : Algorithms,
                      session_persistence : Persistences \cup {None}]
        /\ AbovePool(p) = {LB, db[p].listener_id} \ {None}
        /\ db[p].listener_id # None => db[db[p].listener_id] # None
    BY AbovePoolFacts DEF PoolIsMutable, Quiet
  <2> QED BY <2>1
<1>2. /\ prov[p] = "ACTIVE" /\ db[p] # None /\ prov[LB] = "ACTIVE" /\ RowsTyped(db) /\ TypeInv
      /\ l # None => prov[l] = "ACTIVE"
  <2>1. prov[p] = "ACTIVE" /\ Mutable(AbovePool(p)) /\ LB \in AbovePool(p) /\ db[p] # None
    BY AbovePoolFacts DEF PoolIsMutable, Quiet
  <2> QED BY <2>1, <1>1, RowsWhereActive DEF Mutable, Quiet
<1>3. /\ LB # None /\ p # None /\ p \in Children /\ p \notin Leaves \cup Listeners /\ Leaves \subseteq Children
      /\ LB \notin Children /\ Leaves \cap Listeners = {} /\ None \notin Children /\ Listeners \subseteq Children
  BY ResourcesAssumption DEF Resources, Children, Leaves
<1>4. /\ DOMAIN locks = DOMAIN locked \cup ({p, LB, l} \ {None})
      /\ locks[p] = "PENDING_UPDATE" /\ locks[LB] = "PENDING_UPDATE"
      /\ l # None => locks[l] = "PENDING_UPDATE"
  BY <1>1, <1>3 DEF LocksBelow, Locks
<1>5. /\ \A r \in Children : d[r] = IF r \in DOMAIN rows THEN rows[r] ELSE db[r]
      /\ \A r \in Resources : st[r] = IF r \in DOMAIN locks THEN locks[r] ELSE prov[r]
      /\ RowsTyped(d)
  BY <1>2, StateAhead, WrittenIsTyped
<1>6. d[p] = db[p] /\ (l # None => d[l] = db[l])
  BY <1>3, <1>5
<1>7. st[p] = "PENDING_UPDATE" /\ st[LB] = "PENDING_UPDATE" /\ (l # None => st[l] = "PENDING_UPDATE")
  BY <1>3, <1>4, <1>5 DEF Resources
<1>8. PICK report : s = IF l = None THEN Report(report)
                        ELSE reconcile_service(ProviderListener(db, l), ProviderPool(db, p),
                                               members, healthmonitor, report)
  BY <1>1, <1>2, BelowPoolFinds DEF Thorough
<1>9. RightStep(s, d, st) /\ (l # None => Addresses(s, l))
  <2>1. CASE l = None
    BY <1>8, <2>1, ReportIsRight
  <2>2. CASE l # None
    <3>1. ExistsIn(d, st, l) /\ WantedIn(d, st, p)
      BY <1>1, <1>2, <1>6, <1>7, <2>2 DEF ExistsIn, WantedIn
    <3>2. l \in Listeners /\ d[p].listener_id = l
      BY <1>1, <1>6, <2>2
    <3>3. s = reconcile_service(ProviderListener(db, l), ProviderPool(db, p), members,
                                healthmonitor, report)
      BY <1>8, <2>2
    <3>4. /\ db[p].lb_algorithm = d[p].lb_algorithm
          /\ db[p].session_persistence = d[p].session_persistence
      BY <1>6
    <3>5. RowsTyped(d) /\ RowsTyped(db) /\ db[p] # None
      BY <1>2, <1>5
    <3>6. PoolShows(db, members, healthmonitor, d, st, p)
      BY <3>4, <3>5 DEF PoolShows
    <3> QED BY <3>1, <3>2, <3>3, <3>5, <3>6, PoolIsRight
  <2> QED BY <2>1, <2>2
<1>10. Closed(rows, locks)
  <2>1. Listeners \cap DOMAIN rows \subseteq DOMAIN locks
    BY <1>3
  <2>2. \A q \in Pools \cap (DOMAIN rows \cup DOMAIN locks) : q = p
    BY <1>3, <1>4, KindsDiffer
  <2>3. \A m \in Leaves \cap (DOMAIN rows \cup DOMAIN locks) :
          \A x \in {db[m], d[m]} : x # None => x.pool_id = p
    <3>1. \A m \in Leaves \cap (DOMAIN rows \cup DOMAIN locks) : m \in DOMAIN locked
      BY <1>3, <1>4
    <3> QED BY <3>1, <1>3, <1>5
  <2> QED BY <2>1, <2>2, <2>3, <1>1, <1>3, <1>4, <1>6 DEF Closed
<1>11. Listeners \cap DOMAIN locks = {l} \ {None}
  BY <1>3, <1>4
<1>12. RightStep(s, Written(rows), Ahead(locks)) /\ Tidy(Written(rows))
  BY <1>9
<1> QED BY <1>2, <1>4, <1>9, <1>10, <1>11, <1>12, OneStepIsRight

\* Rows of leaves leave the pools, and the monitors if only members change, as tidy
\* as before.
LEMMA TidyBelowPools ==
  ASSUME Quiet, NEW d, \A r \in Pools \cup Listeners : d[r] = db[r],
         \A h, k \in Monitors : d[h] # None /\ d[k] # None /\ d[h].pool_id = d[k].pool_id => h = k
  PROVE  Tidy(d)
<1>1. \A p \in Pools : db[p] # None => db[p].listener_id \in Listeners \cup {None}
  <2>1. \A p \in Pools : db[p] # None =>
          db[p] \in [listener_id : Listeners \cup {None}, lb_algorithm : Algorithms,
                     session_persistence : Persistences \cup {None}]
    BY RowsByKind DEF Quiet, TypeInv, TypeOK, Children
  <2> QED BY <2>1
<1> QED BY <1>1 DEF Quiet, Tidy

\* The locks of a call below a pool, and what they make of the leaves.
LEMMA LeavesAhead ==
  ASSUME Quiet, NEW p \in Pools, PoolIsMutable(p), NEW locked, DOMAIN locked \subseteq Leaves,
         NEW rows, DOMAIN rows \subseteq Leaves
  PROVE  LET d == Written(rows)
             st == Ahead(LocksBelow(p, locked))
         IN  /\ \A m \in Leaves : /\ d[m] = IF m \in DOMAIN rows THEN rows[m] ELSE db[m]
                                  /\ st[m] = IF m \in DOMAIN locked THEN locked[m] ELSE prov[m]
             /\ \A r \in Pools \cup Listeners : d[r] = db[r]
<1> DEFINE locks == LocksBelow(p, locked)
<1>1. AbovePool(p) \cap (Pools \cup Members \cup Monitors) = {}
  BY AbovePoolFacts DEF PoolIsMutable, Quiet
<1>2. \A m \in Leaves : /\ m \in DOMAIN locks <=> m \in DOMAIN locked
                        /\ m \in DOMAIN locked => locks[m] = locked[m]
  BY <1>1, KindsDiffer DEF LocksBelow, Locks, Leaves
<1> HIDE DEF locks
<1>3. \A m \in Leaves : Ahead(locks)[m] = IF m \in DOMAIN locked THEN locked[m] ELSE prov[m]
  BY <1>2, KindsDiffer, StateAhead
<1>4. \A r \in Children : Written(rows)[r] = IF r \in DOMAIN rows THEN rows[r] ELSE db[r]
  BY StateAhead
<1> QED BY <1>3, <1>4, KindsDiffer DEF locks

LEMMA MemberCreateRight ==
  ASSUME Quiet, Thorough, NEW m \in Members, member_create(m)
  PROVE  RightPlan(call')
<1>1. PICK p \in Pools, up \in BOOLEAN, gets \in Gets :
        LET row == [pool_id |-> p, admin_state_up |-> up]
            new == ProviderMember(Written(Only(m, row)), m)
        IN  /\ PoolIsMutable(p)
            /\ Serve("member_create",
                     <<below_pool(p, Only(m, "ACTIVE"), gets,
                                  with_member(ProviderPool(db, p).members, new), None)>>,
                     Only(m, row), LocksBelow(p, Only(m, "PENDING_CREATE")))
  BY DEF member_create
<1> DEFINE row == [pool_id |-> p, admin_state_up |-> up]
           rows == Only(m, row)
           locked == Only(m, "PENDING_CREATE")
           locks == LocksBelow(p, locked)
           d == Written(rows)
           st == Ahead(locks)
           members == with_member(ProviderPool(db, p).members, ProviderMember(d, m))
           s == below_pool(p, Only(m, "ACTIVE"), gets, members, None)
<1>2. PoolIsMutable(p) /\ prov[m] = "NONE" /\ db[m] = None /\ m \in Leaves /\ db[p] # None
  BY <1>1, AbovePoolFacts DEF member_create, Quiet, TypeInv, Children, Leaves, PoolIsMutable
<1>3. /\ DOMAIN rows = {m} /\ rows[m] = row /\ row \in Rows(m) /\ row.pool_id = p /\ row # None
      /\ DOMAIN locked = {m} /\ locked[m] = "PENDING_CREATE"
  <2>1. row \in Rows(m)
    BY RowsByKind
  <2> QED BY <2>1, <1>2, KindsDiffer, NoneAssumption DEF Only
<1>4. Serve("member_create", <<s>>, rows, locks)
  BY <1>1
<1>5. /\ \A x \in Leaves : /\ d[x] = IF x = m THEN row ELSE db[x]
                           /\ st[x] = IF x = m THEN "PENDING_CREATE" ELSE prov[x]
      /\ \A r \in Pools \cup Listeners : d[r] = db[r]
  <2> HIDE DEF rows, locked
  <2>1. DOMAIN rows \subseteq Leaves /\ DOMAIN locked \subseteq Leaves
    BY <1>2, <1>3
  <2> QED BY <1>2, <1>3, <2>1, LeavesAhead
<1> HIDE DEF d, st, rows, row, locked
<1>6. MembersOf(ProviderPool(db, p), members) = {ProviderMember(d, x) : x \in MembersIn(d, st, p)}
  <2>1. MembersIn(d, st, p) = InPool(db, p, Members) \cup {m}
    <3>1. \A x \in Members : x \in MembersIn(d, st, p) <=> x \in InPool(db, p, Members) \cup {m}
      BY <1>2, <1>3, <1>5, QuietChildren, KindsDiffer DEF MembersIn, WantedIn, InPool, Leaves
    <3> QED BY <3>1 DEF MembersIn, InPool
  <2>2. \A x \in InPool(db, p, Members) : ProviderMember(d, x) = ProviderMember(db, x)
    BY <1>2, <1>5 DEF InPool, ProviderMember, Leaves
  <2>3. members = {ProviderMember(db, x) : x \in InPool(db, p, Members)} \cup {ProviderMember(d, m)}
    BY DEF with_member, ProviderPool
  <2>4. members = {ProviderMember(d, x) : x \in MembersIn(d, st, p)}
    BY <2>1, <2>2, <2>3
  <2>5. members # None
    <3>1. RowsTyped(d)
      BY <1>2, <1>3, WrittenIsTyped DEF d, Quiet
    <3>2. \A x \in MembersIn(d, st, p) : ProviderMember(d, x) \in MemberObjects
      BY <3>1, MemberTyped DEF MembersIn, WantedIn
    <3> HIDE DEF members
    <3>3. members \in SUBSET MemberObjects
      BY <2>4, <3>2
    <3> QED BY <3>3, NoneAssumption
  <2> QED BY <2>4, <2>5 DEF MembersOf
<1>7. MonitorFits(MonitorOf(ProviderPool(db, p), None), d, st, p)
  BY <1>2, <1>5, MonitorAsRead, QuietChildren, KindsDiffer, ResourcesAssumption DEF Leaves
<1>8. Tidy(d)
  <2>1. \A h \in Monitors : d[h] = db[h]
    BY <1>5, ResourcesAssumption DEF Leaves
  <2> QED BY <1>5, <2>1, TidyBelowPools DEF Quiet, Tidy
<1>9. MembersKnown(members)
  BY DEF MembersKnown, with_member, ProviderPool, ProviderMember, InPool
<1>10. /\ DOMAIN rows \subseteq DOMAIN locked /\ DOMAIN locked \subseteq Leaves
       /\ \A x \in DOMAIN rows : rows[x] \in Rows(x) /\ rows[x].pool_id = p
       /\ \A x \in DOMAIN locked : db[x] # None => db[x].pool_id = p
  BY <1>2, <1>3
<1>11. d = Written(rows) /\ st = Ahead(locks) /\ s = below_pool(p, Only(m, "ACTIVE"), gets, members, None)
       /\ locks = LocksBelow(p, locked)
  BY DEF d, st
<1> HIDE DEF members, s, locks
<1> QED BY <1>2, <1>4, <1>6, <1>7, <1>8, <1>9, <1>10, <1>11, BelowPoolIsRight

\* A list of members that is what will be there.
LEMMA ListIsGiven ==
  ASSUME NEW d, RowsTyped(d), NEW st, NEW p, NEW members, NEW pool,
         members = {ProviderMember(d, m) : m \in MembersIn(d, st, p)}
  PROVE  /\ MembersOf(pool, members) = {ProviderMember(d, m) : m \in MembersIn(d, st, p)}
         /\ MembersKnown(members)
<1>1. \A m \in MembersIn(d, st, p) : ProviderMember(d, m) \in MemberObjects
  BY MemberTyped DEF MembersIn, WantedIn
<1>2. members \in SUBSET MemberObjects
  BY <1>1
<1>3. members # None /\ \A n \in members : n.member_id \in Members
  BY <1>2, NoneAssumption DEF MemberObjects
<1> QED BY <1>3 DEF MembersOf, MembersKnown

LEMMA MemberDeleteRight ==
  ASSUME Quiet, Thorough, NEW m \in Members, member_delete(m)
  PROVE  RightPlan(call')
<1> DEFINE row == db[m]
<1>1. PICK gets \in Gets :
        LET members == without_member(ProviderPool(db, db[m].pool_id).members, m)
        IN  Serve("member_delete",
                  <<below_pool(db[m].pool_id, Only(m, "DELETED"), gets, members, None)>>,
                  NoRows, LocksBelow(db[m].pool_id, Only(m, "PENDING_DELETE")))
  BY DEF member_delete
<1>2. prov[m] = "ACTIVE" /\ db[m] # None /\ m \in Leaves /\ db[m].pool_id \in Pools
  <2>1. prov[m] = "ACTIVE" /\ m \in Children /\ m \in Leaves
    BY DEF member_delete, Children, Leaves
  <2>2. db[m] # None
    BY <2>1, RowsWhereActive DEF Quiet
  <2> QED BY <2>1, <2>2, LeafRows DEF Quiet
<1>3. PICK p \in Pools : p = db[m].pool_id
  BY <1>2
<1> DEFINE locked == Only(m, "PENDING_DELETE")
           locks == LocksBelow(p, locked)
           d == Written(NoRows)
           st == Ahead(locks)
           members == without_member(ProviderPool(db, p).members, m)
           s == below_pool(p, Only(m, "DELETED"), gets, members, None)
<1>4. PoolIsMutable(p) /\ db[p] # None
  BY <1>3, AbovePoolFacts DEF member_delete, Quiet, PoolIsMutable
<1>5. DOMAIN NoRows = {} /\ DOMAIN locked = {m} /\ locked[m] = "PENDING_DELETE"
  BY DEF Only, NoRows
<1>6. Serve("member_delete", <<s>>, NoRows, locks)
  BY <1>1, <1>3
<1>7. /\ \A x \in Leaves : /\ d[x] = db[x]
                           /\ st[x] = IF x = m THEN "PENDING_DELETE" ELSE prov[x]
      /\ \A r \in Pools \cup Listeners : d[r] = db[r]
  <2> HIDE DEF locked
  <2>1. DOMAIN NoRows \subseteq Leaves /\ DOMAIN locked \subseteq Leaves
    BY <1>2, <1>5
  <2>2. \A x \in Leaves : st[x] = IF x \in DOMAIN locked THEN locked[x] ELSE prov[x]
    BY <1>4, <2>1, LeavesAhead
  <2>3. \A r \in Children : d[r] = db[r]
    BY NothingWritten
  <2> QED BY <1>5, <2>2, <2>3, KindsDiffer
<1> HIDE DEF d, st, locked
<1>8. RowsTyped(d) /\ Tidy(d)
  BY NothingWritten DEF d
<1>9. members = {ProviderMember(d, x) : x \in MembersIn(d, st, p)}
  <2>1. MembersIn(d, st, p) = InPool(db, p, Members) \ {m}
    <3>1. \A x \in Members : x \in MembersIn(d, st, p) <=> x \in InPool(db, p, Members) \ {m}
      BY <1>7, QuietChildren, KindsDiffer DEF MembersIn, WantedIn, InPool, Leaves
    <3> QED BY <3>1 DEF MembersIn, InPool
  <2>2. \A x \in InPool(db, p, Members) : /\ ProviderMember(d, x) = ProviderMember(db, x)
                                           /\ ProviderMember(db, x).member_id = x
    BY <1>7 DEF InPool, ProviderMember, Leaves
  <2>3. members = {n \in {ProviderMember(db, x) : x \in InPool(db, p, Members)} : n.member_id # m}
    BY DEF without_member, ProviderPool
  <2> HIDE DEF members
  <2> QED BY <2>1, <2>2, <2>3
<1>10. /\ MembersOf(ProviderPool(db, p), members) = {ProviderMember(d, x) : x \in MembersIn(d, st, p)}
       /\ MembersKnown(members)
  <2> HIDE DEF members
  <2> QED BY <1>8, <1>9, ListIsGiven
<1>11. MonitorFits(MonitorOf(ProviderPool(db, p), None), d, st, p)
  BY <1>2, <1>4, <1>7, MonitorAsRead, QuietChildren, KindsDiffer, ResourcesAssumption DEF Leaves
<1>12. /\ DOMAIN NoRows \subseteq DOMAIN locked /\ DOMAIN locked \subseteq Leaves
       /\ \A x \in DOMAIN NoRows : NoRows[x] \in Rows(x) /\ NoRows[x].pool_id = p
       /\ \A x \in DOMAIN locked : db[x] # None => db[x].pool_id = p
  BY <1>2, <1>3, <1>5
<1>13. d = Written(NoRows) /\ st = Ahead(locks) /\ s = below_pool(p, Only(m, "DELETED"), gets, members, None)
       /\ locks = LocksBelow(p, locked)
  BY DEF d, st
<1> HIDE DEF members, s, locks
<1> QED BY <1>4, <1>6, <1>8, <1>10, <1>11, <1>12, <1>13, BelowPoolIsRight

LEMMA MemberBatchRight ==
  ASSUME Quiet, Thorough, NEW p \in Pools, member_batch_update(p)
  PROVE  RightPlan(call')
<1> DEFINE old == InPool(db, p, Members)
<1>1. PICK ms \in SUBSET Members, up \in SUBSET Members, gets \in Gets :
        LET removed == old \ ms
            rows == [m \in ms |-> [pool_id |-> p, admin_state_up |-> m \in up]]
            listed == {ProviderMember(Written(rows), m) : m \in ms}
        IN  /\ \A m \in ms \ old : prov[m] = "NONE"
            /\ up \subseteq ms
            /\ removed # {} => "member_batch_removal" \in Operations
            /\ Serve("member_batch_update",
                     <<below_pool(p, [m \in ms |-> "ACTIVE"], gets, listed, None)>>,
                     rows,
                     LocksBelow(p, [m \in ms \cup removed |->
                                      IF m \in removed THEN "PENDING_DELETE"
                                      ELSE IF m \in old THEN "PENDING_UPDATE"
                                      ELSE "PENDING_CREATE"]))
  BY DEF member_batch_update
<1> DEFINE removed == old \ ms
           rows == [m \in ms |-> [pool_id |-> p, admin_state_up |-> m \in up]]
           changed == [m \in ms |-> "ACTIVE"]
           locked == [m \in ms \cup removed |->
                        IF m \in removed THEN "PENDING_DELETE"
                        ELSE IF m \in old THEN "PENDING_UPDATE" ELSE "PENDING_CREATE"]
           locks == LocksBelow(p, locked)
           d == Written(rows)
           st == Ahead(locks)
           members == {ProviderMember(d, m) : m \in ms}
           s == below_pool(p, changed, gets, members, None)
<1>2. PoolIsMutable(p) /\ db[p] # None /\ removed = {} /\ \A m \in ms \ old : prov[m] = "NONE"
  BY <1>1, AbovePoolFacts DEF member_batch_update, Quiet, PoolIsMutable, Thorough, OneReport
<1>3. /\ DOMAIN rows = ms /\ DOMAIN locked = ms
      /\ \A m \in ms : locked[m] \in {"PENDING_UPDATE", "PENDING_CREATE"}
      /\ ms \subseteq Leaves
  BY <1>2 DEF Leaves
<1>4. \A m \in ms : rows[m] \in Rows(m) /\ rows[m].pool_id = p /\ rows[m] # None
  <2> SUFFICES ASSUME NEW m \in ms PROVE rows[m] \in Rows(m) /\ rows[m].pool_id = p /\ rows[m] # None
    OBVIOUS
  <2>1. (m \in up) \in BOOLEAN
    OBVIOUS
  <2>2. rows[m] = [pool_id |-> p, admin_state_up |-> m \in up] /\ m \in Children
    BY DEF Children
  <2>3. [pool_id |-> p, admin_state_up |-> m \in up] \in [pool_id : Pools, admin_state_up : BOOLEAN]
    BY <2>1
  <2>4. rows[m] \in Rows(m) /\ rows[m].pool_id = p
    BY <2>2, <2>3, RowsByKind
  <2> HIDE DEF rows
  <2> QED BY <2>2, <2>4, NoneAssumption
<1>5. \A m \in ms : db[m] # None => db[m].pool_id = p
  BY <1>2 DEF InPool, Quiet, TypeInv, Children
<1>6. Serve("member_batch_update", <<s>>, rows, locks)
  BY <1>1
<1>7. /\ \A x \in Leaves : /\ d[x] = IF x \in ms THEN rows[x] ELSE db[x]
                           /\ st[x] = IF x \in ms THEN locked[x] ELSE prov[x]
      /\ \A r \in Pools \cup Listeners : d[r] = db[r]
  <2> HIDE DEF rows, locked
  <2>1. DOMAIN rows \subseteq Leaves /\ DOMAIN locked \subseteq Leaves
    BY <1>3
  <2> QED BY <1>2, <1>3, <2>1, LeavesAhead
<1> HIDE DEF d, st, rows, locked
<1>8. RowsTyped(d)
  BY <1>3, <1>4, WrittenIsTyped DEF d, Quiet
<1>9. MembersIn(d, st, p) = ms
  <2>1. old \subseteq ms
    BY <1>2
  <2>2. \A x \in Members : x \in MembersIn(d, st, p) <=> x \in ms
    BY <2>1, <1>3, <1>4, <1>7, QuietChildren, KindsDiffer DEF MembersIn, WantedIn, InPool, Leaves
  <2> QED BY <2>2 DEF MembersIn
<1>10. /\ MembersOf(ProviderPool(db, p), members) = {ProviderMember(d, x) : x \in MembersIn(d, st, p)}
       /\ MembersKnown(members)
  BY <1>8, <1>9, ListIsGiven
<1>11. \A h \in Monitors : h \in Leaves /\ h \notin ms
  BY ResourcesAssumption DEF Leaves
<1>12. MonitorFits(MonitorOf(ProviderPool(db, p), None), d, st, p)
  BY <1>2, <1>7, <1>11, MonitorAsRead, QuietChildren, KindsDiffer
<1>13. Tidy(d)
  <2>1. \A h \in Monitors : d[h] = db[h]
    BY <1>7, <1>11
  <2> QED BY <1>7, <2>1, TidyBelowPools DEF Quiet, Tidy
<1>14. /\ DOMAIN rows \subseteq DOMAIN locked /\ DOMAIN locked \subseteq Leaves
       /\ \A x \in DOMAIN rows : rows[x] \in Rows(x) /\ rows[x].pool_id = p
       /\ \A x \in DOMAIN locked : db[x] # None => db[x].pool_id = p
  BY <1>3, <1>4, <1>5
<1>15. d = Written(rows) /\ st = Ahead(locks) /\ s = below_pool(p, changed, gets, members, None)
       /\ locks = LocksBelow(p, locked)
  BY DEF d, st
<1> HIDE DEF members, s, locks, changed
<1> QED BY <1>2, <1>6, <1>10, <1>12, <1>13, <1>14, <1>15, BelowPoolIsRight

\* The monitor that is given is the one that will be there.
LEMMA MonitorIsGiven ==
  ASSUME NEW d, RowsTyped(d), Tidy(d), NEW st, NEW h \in Monitors, WantedIn(d, st, h),
         NEW p, d[h].pool_id = p, NEW pool
  PROVE  MonitorFits(MonitorOf(pool, ProviderMonitor(d, h)), d, st, p)
<1>1. ProviderMonitor(d, h) # None
  BY MonitorTyped, NoneAssumption DEF WantedIn
<1>2. MonitorsIn(d, st, p) = {h}
  BY DEF MonitorsIn, WantedIn, Tidy
<1> QED BY <1>1, <1>2 DEF MonitorOf, MonitorFits

LEMMA MonitorCreateRight ==
  ASSUME Quiet, Thorough, NEW h \in Monitors, health_monitor_create(h)
  PROVE  RightPlan(call')
<1>1. PICK p \in Pools, type \in MonitorTypes, up \in BOOLEAN, gets \in Gets :
        LET row == [pool_id |-> p, type |-> type, admin_state_up |-> up]
        IN  /\ PoolIsMutable(p) /\ InPool(db, p, Monitors) = {}
            /\ Serve("health_monitor_create",
                     <<below_pool(p, Only(h, "ACTIVE"), gets, None,
                                  ProviderMonitor(Written(Only(h, row)), h))>>,
                     Only(h, row), LocksBelow(p, Only(h, "PENDING_CREATE")))
  BY DEF health_monitor_create
<1> DEFINE row == [pool_id |-> p, type |-> type, admin_state_up |-> up]
           rows == Only(h, row)
           locked == Only(h, "PENDING_CREATE")
           locks == LocksBelow(p, locked)
           d == Written(rows)
           st == Ahead(locks)
           new == ProviderMonitor(d, h)
           s == below_pool(p, Only(h, "ACTIVE"), gets, None, new)
<1>2. /\ PoolIsMutable(p) /\ prov[h] = "NONE" /\ db[h] = None /\ h \in Leaves /\ db[p] # None
      /\ InPool(db, p, Monitors) = {}
  BY <1>1, AbovePoolFacts DEF health_monitor_create, Quiet, TypeInv, Children, Leaves, PoolIsMutable
<1>3. /\ DOMAIN rows = {h} /\ rows[h] = row /\ row \in Rows(h) /\ row.pool_id = p /\ row # None
      /\ DOMAIN locked = {h} /\ locked[h] = "PENDING_CREATE"
  <2>1. row \in Rows(h)
    BY RowsByKind
  <2> QED BY <2>1, <1>2, KindsDiffer, NoneAssumption DEF Only
<1>4. Serve("health_monitor_create", <<s>>, rows, locks)
  BY <1>1
<1>5. /\ \A x \in Leaves : /\ d[x] = IF x = h THEN row ELSE db[x]
                           /\ st[x] = IF x = h THEN "PENDING_CREATE" ELSE prov[x]
      /\ \A r \in Pools \cup Listeners : d[r] = db[r]
  <2> HIDE DEF rows, locked
  <2>1. DOMAIN rows \subseteq Leaves /\ DOMAIN locked \subseteq Leaves
    BY <1>2, <1>3
  <2> QED BY <1>2, <1>3, <2>1, LeavesAhead
<1> HIDE DEF d, st, rows, row, locked
<1>6. \A m \in Members : m \in Leaves /\ m # h
  BY ResourcesAssumption DEF Leaves
<1>7. RowsTyped(d)
  BY <1>2, <1>3, WrittenIsTyped DEF d, Quiet
<1>8. Tidy(d)
  <2>1. \A k \in Monitors : db[k] # None => db[k].pool_id # p
    BY <1>2 DEF InPool
  <2>2. \A k, n \in Monitors : d[k] # None /\ d[n] # None /\ d[k].pool_id = d[n].pool_id => k = n
    BY <2>1, <1>3, <1>5 DEF Leaves, Quiet, Tidy
  <2> QED BY <1>5, <2>2, TidyBelowPools
<1>9. MembersOf(ProviderPool(db, p), None) = {ProviderMember(d, m) : m \in MembersIn(d, st, p)}
  BY <1>2, <1>5, <1>6, MembersAsRead, QuietChildren, KindsDiffer
<1>10. MonitorFits(MonitorOf(ProviderPool(db, p), new), d, st, p)
  <2>1. WantedIn(d, st, h) /\ d[h].pool_id = p
    BY <1>2, <1>3, <1>5 DEF WantedIn
  <2> QED BY <1>7, <1>8, <2>1, MonitorIsGiven
<1>11. /\ DOMAIN rows \subseteq DOMAIN locked /\ DOMAIN locked \subseteq Leaves
       /\ \A x \in DOMAIN rows : rows[x] \in Rows(x) /\ rows[x].pool_id = p
       /\ \A x \in DOMAIN locked : db[x] # None => db[x].pool_id = p
  BY <1>2, <1>3
<1>12. d = Written(rows) /\ st = Ahead(locks) /\ s = below_pool(p, Only(h, "ACTIVE"), gets, None, new)
       /\ locks = LocksBelow(p, locked) /\ MembersKnown(None)
  BY DEF d, st, MembersKnown
<1> HIDE DEF s, locks, new
<1> QED BY <1>2, <1>4, <1>8, <1>9, <1>10, <1>11, <1>12, BelowPoolIsRight

LEMMA MonitorUpdateRight ==
  ASSUME Quiet, Thorough, NEW h \in Monitors, health_monitor_update(h)
  PROVE  RightPlan(call')
<1>1. PICK kind \in UpdateObjects, gets \in Gets :
        LET row == [db[h] EXCEPT !.admin_state_up = ~ @]
            new == Shown(kind, ProviderMonitor(Written(Only(h, row)), h), "healthmonitor_id",
                         {"admin_state_up"})
        IN  Serve("health_monitor_update",
                  <<below_pool(new.pool_id, Only(h, "ACTIVE"), gets, None, new)>>,
                  Only(h, row), LocksBelow(db[h].pool_id, Only(h, "PENDING_UPDATE")))
  BY DEF health_monitor_update
<1>2. prov[h] = "ACTIVE" /\ db[h] # None /\ h \in Leaves /\ h \in Children /\ db[h].pool_id \in Pools
  <2>1. prov[h] = "ACTIVE" /\ h \in Children /\ h \in Leaves
    BY DEF health_monitor_update, Children, Leaves
  <2>2. db[h] # None
    BY <2>1, RowsWhereActive DEF Quiet
  <2> QED BY <2>1, <2>2, LeafRows DEF Quiet
<1>3. PICK p \in Pools : p = db[h].pool_id
  BY <1>2
<1> DEFINE row == [db[h] EXCEPT !.admin_state_up = ~ @]
           rows == Only(h, row)
           locked == Only(h, "PENDING_UPDATE")
           locks == LocksBelow(p, locked)
           d == Written(rows)
           st == Ahead(locks)
           object == ProviderMonitor(d, h)
           new == Shown(kind, object, "healthmonitor_id", {"admin_state_up"})
           s == below_pool(p, Only(h, "ACTIVE"), gets, None, object)
<1>4. PoolIsMutable(p) /\ db[p] # None
  BY <1>3, AbovePoolFacts DEF health_monitor_update, Quiet, PoolIsMutable
<1>5. row \in Rows(h) /\ row.pool_id = p /\ row # None
  <2>1. db[h] \in [pool_id : Pools, type : MonitorTypes, admin_state_up : BOOLEAN]
    BY <1>2, RowsByKind, RowsWhereActive DEF Quiet, RowsTyped
  <2>2. row \in [pool_id : Pools, type : MonitorTypes, admin_state_up : BOOLEAN] /\ row.pool_id = p
    BY <1>3, <2>1
  <2> HIDE DEF row
  <2>3. row \in Rows(h)
    BY <2>2, RowsByKind
  <2>4. None \notin Rows(h)
    BY <1>2, NoneAssumption
  <2> QED BY <2>2, <2>3, <2>4
<1> HIDE DEF row
<1>6. /\ DOMAIN rows = {h} /\ rows[h] = row
      /\ DOMAIN locked = {h} /\ locked[h] = "PENDING_UPDATE"
  BY DEF Only
<1>7. /\ \A x \in Leaves : /\ d[x] = IF x = h THEN row ELSE db[x]
                           /\ st[x] = IF x = h THEN "PENDING_UPDATE" ELSE prov[x]
      /\ \A r \in Pools \cup Listeners : d[r] = db[r]
  <2> HIDE DEF rows, locked
  <2>1. DOMAIN rows \subseteq Leaves /\ DOMAIN locked \subseteq Leaves
    BY <1>2, <1>6
  <2> QED BY <1>4, <1>6, <2>1, LeavesAhead
<1>8. object.pool_id = p /\ new = object
  <2>1. kind = "full"
    BY OptionsAssumption DEF Thorough
  <2>2. object = [f \in DOMAIN object |-> object[f]] /\ object.pool_id = d[h].pool_id
    BY DEF ProviderMonitor
  <2> QED BY <1>2, <1>5, <1>7, <2>1, <2>2 DEF Shown
<1>9. Serve("health_monitor_update", <<s>>, rows, locks)
  <2>1. Serve("health_monitor_update", <<below_pool(new.pool_id, Only(h, "ACTIVE"), gets, None, new)>>,
              rows, locks)
    BY <1>1, <1>3 DEF row
  <2> HIDE DEF new, object
  <2> QED BY <1>8, <2>1
<1> HIDE DEF d, st, rows, locked, new
<1>10. \A m \in Members : m \in Leaves /\ m # h
  BY ResourcesAssumption DEF Leaves
<1>11. RowsTyped(d)
  BY <1>2, <1>5, <1>6, WrittenIsTyped DEF d, Quiet
<1>12. Tidy(d)
  <2>1. \A k, n \in Monitors : d[k] # None /\ d[n] # None /\ d[k].pool_id = d[n].pool_id => k = n
    BY <1>2, <1>3, <1>5, <1>7 DEF Leaves, Quiet, Tidy
  <2> QED BY <1>7, <2>1, TidyBelowPools
<1>13. MembersOf(ProviderPool(db, p), None) = {ProviderMember(d, m) : m \in MembersIn(d, st, p)}
  BY <1>4, <1>7, <1>10, MembersAsRead, QuietChildren, KindsDiffer
<1>14. MonitorFits(MonitorOf(ProviderPool(db, p), object), d, st, p)
  <2>1. WantedIn(d, st, h) /\ d[h].pool_id = p
    BY <1>2, <1>5, <1>7 DEF WantedIn
  <2> QED BY <1>11, <1>12, <2>1, MonitorIsGiven
<1>15. /\ DOMAIN rows \subseteq DOMAIN locked /\ DOMAIN locked \subseteq Leaves
       /\ \A x \in DOMAIN rows : rows[x] \in Rows(x) /\ rows[x].pool_id = p
       /\ \A x \in DOMAIN locked : db[x] # None => db[x].pool_id = p
  BY <1>2, <1>3, <1>5, <1>6
<1>16. d = Written(rows) /\ st = Ahead(locks) /\ s = below_pool(p, Only(h, "ACTIVE"), gets, None, object)
       /\ locks = LocksBelow(p, locked) /\ MembersKnown(None)
  BY DEF d, st, MembersKnown
<1> HIDE DEF s, locks, object
<1> QED BY <1>4, <1>9, <1>12, <1>13, <1>14, <1>15, <1>16, BelowPoolIsRight

\* A call about pool p of listener l, or of none.
PoolCall(p, l, lock, rows, locks, d, st) ==
  /\ p \in Pools /\ l \in Listeners \cup {None}
  /\ prov[LB] = "ACTIVE" /\ (l # None => prov[l] = "ACTIVE")
  /\ DOMAIN rows \subseteq {p}
  /\ locks = Locks(Only(p, lock), {LB, l} \ {None})
  /\ d = Written(rows) /\ st = Ahead(locks)
  /\ d[p] # None /\ d[p].listener_id = l
  /\ db[p] # None => db[p].listener_id = l

LEMMA PoolCallAhead ==
  ASSUME Quiet, NEW p, NEW l, NEW lock, NEW rows, NEW locks, NEW d, NEW st,
         PoolCall(p, l, lock, rows, locks, d, st)
  PROVE  /\ st[p] = lock /\ locks[LB] = "PENDING_UPDATE"
         /\ \A m \in Leaves : st[m] # "PENDING_DELETE"
         /\ l # None => l \in Listeners /\ db[l] # None /\ ExistsIn(d, st, l)
         /\ Closed(rows, locks) /\ Listeners \cap DOMAIN locks = {l} \ {None}
<1> USE DEF PoolCall
<1>1. /\ LB # None /\ LB \notin Children /\ p \in Children /\ p \notin Listeners \cup Leaves
      /\ Listeners \subseteq Children /\ Leaves \subseteq Children /\ None \notin Children
      /\ Leaves \cap (Listeners \cup Pools) = {}
  BY ResourcesAssumption DEF Resources, Children, Leaves
<1>2. /\ DOMAIN locks = {p, LB, l} \ {None} /\ locks[p] = lock /\ locks[LB] = "PENDING_UPDATE"
      /\ l # None => locks[l] = "PENDING_UPDATE"
  BY <1>1 DEF Locks, Only
<1>3. /\ \A r \in Children : r # p => d[r] = db[r]
      /\ \A r \in Resources : st[r] = IF r \in DOMAIN locks THEN locks[r] ELSE prov[r]
      /\ RowsTyped(db) /\ TypeInv
  BY StateAhead, RowsWhereActive DEF Quiet
<1>4. st[p] = lock /\ st[LB] = "PENDING_UPDATE" /\ (l # None => st[l] = "PENDING_UPDATE")
  BY <1>1, <1>2, <1>3 DEF Resources
<1>5. l # None => l \in Listeners /\ db[l] # None /\ ExistsIn(d, st, l)
  <2>1. l # None => l \in Listeners /\ db[l] # None /\ d[l] = db[l]
    BY <1>1, <1>3, RowsWhereActive
  <2> QED BY <2>1, <1>4 DEF ExistsIn, WantedIn
<1>6. \A m \in Leaves : st[m] # "PENDING_DELETE"
  <2>1. \A m \in Leaves : m \in Children /\ m \in Resources /\ m \notin DOMAIN locks
    BY <1>1, <1>2 DEF Resources
  <2> QED BY <2>1, <1>3, QuietChildren
<1>7. Closed(rows, locks)
  <2>1. Listeners \cap DOMAIN rows \subseteq DOMAIN locks
    BY <1>1
  <2>2. \A q \in Pools \cap (DOMAIN rows \cup DOMAIN locks) : q = p
    BY <1>1, <1>2, KindsDiffer
  <2>3. \A m \in Leaves : m \notin DOMAIN rows \cup DOMAIN locks
    BY <1>1, <1>2, KindsDiffer
  <2> QED BY <2>1, <2>2, <2>3, <1>2 DEF Closed
<1>8. Listeners \cap DOMAIN locks = {l} \ {None}
  BY <1>1, <1>2
<1> QED BY <1>2, <1>4, <1>5, <1>6, <1>7, <1>8

\* The pool as it will be, with all that hangs below it.
LEMMA PoolStaysRight ==
  ASSUME Quiet, Thorough, NEW d, NEW st, RowsTyped(d), Tidy(d), NEW p \in Pools,
         NEW l \in Listeners \cup {None}, WantedIn(d, st, p), d[p].listener_id = l,
         l # None => db[l] # None /\ ExistsIn(d, st, l),
         \A m \in Leaves : st[m] # "PENDING_DELETE",
         NEW changed, NEW gets \in Gets, NEW s, s = PoolStep(ProviderPool(d, p), changed, gets, None)
  PROVE  RightStep(s, d, st) /\ (l # None => Addresses(s, l))
<1> DEFINE pool == ProviderPool(d, p)
<1>1. RowsTyped(db) /\ ~ GetsMayFail /\ pool.loadbalancer_id = LB /\ pool.listener_id = l
  BY RowsWhereActive, PoolObject DEF Quiet, Thorough
<1>2. PICK report : s = IF l = None THEN Report(report)
                        ELSE reconcile_service(ProviderListener(db, l), pool, None, None, report)
  <2> HIDE DEF pool
  <2>1. \E report : PoolStep(pool, changed, gets, None) =
           IF l = None THEN Report(report)
           ELSE reconcile_service(ProviderListener(db, l), IF None = None THEN pool ELSE None,
                                  None, None, report)
    BY <1>1, PoolStepFinds
  <2> QED BY <2>1 DEF pool
<1>3. CASE l = None
  BY <1>2, <1>3, ReportIsRight
<1>4. CASE l # None
  <2>1. pool.members = {ProviderMember(d, m) : m \in MembersIn(d, st, p)}
    <3>1. \A m \in InPool(d, p, Members) : st[m] # "PENDING_DELETE"
      BY DEF InPool, Leaves
    <3> QED BY ONLY <3>1, PoolMembers
  <2>2. MonitorFits(pool.healthmonitor, d, st, p)
    <3>1. \A h \in InPool(d, p, Monitors) : st[h] # "PENDING_DELETE"
      BY DEF InPool, Leaves
    <3> QED BY <3>1, PoolMonitor
  <2>3. d[p] # None /\ l \in Listeners
    BY <1>4 DEF WantedIn
  <2>4. /\ MembersOf(pool, None) = {ProviderMember(d, m) : m \in MembersIn(d, st, p)}
        /\ MonitorFits(MonitorOf(pool, None), d, st, p)
    BY <2>1, <2>2, <2>3, PoolIsObject
  <2>5. s = reconcile_service(ProviderListener(db, l), pool, None, None, report)
    BY <1>2, <1>4
  <2>6. MembersKnown(None)
    BY DEF MembersKnown
  <2>7. PoolShows(d, None, None, d, st, p)
    BY <1>4, <2>3, <2>4, <2>6 DEF PoolShows
  <2>8. RightStep(s, d, st) /\ Addresses(s, l)
    BY <1>4, <2>3, <2>5, <2>7, PoolIsRight
  <2> QED BY <2>8
<1> QED BY <1>3, <1>4

\* The listener without the pool that goes.
LEMMA PoolGoesRight ==
  ASSUME Quiet, Thorough, NEW d, NEW st, Tidy(d), NEW p \in Pools, d[p] # None,
         NEW l \in Listeners \cup {None}, d[p].listener_id = l, st[p] = "PENDING_DELETE",
         l # None => db[l] # None,
         NEW changed, NEW gets \in Gets, NEW pool, pool.loadbalancer_id = LB, pool.listener_id = l,
         NEW s, s = PoolStep(pool, changed, gets, {})
  PROVE  RightStep(s, d, st) /\ (l # None => Addresses(s, l))
<1>1. {} # None
  BY NoneAssumption
<1>2. PICK report : s = IF l = None THEN Report(report)
                        ELSE reconcile_service(ProviderListener(db, l), None, {}, None, report)
  <2>1. \E report : PoolStep(pool, changed, gets, {}) =
           IF l = None THEN Report(report)
           ELSE reconcile_service(ProviderListener(db, l), IF {} = None THEN pool ELSE None,
                                  {}, None, report)
    BY RowsWhereActive, PoolStepFinds DEF Quiet, Thorough
  <2> QED BY <1>1, <2>1
<1>3. CASE l = None
  BY <1>2, <1>3, ReportIsRight
<1>4. CASE l # None
  <2>1. s = reconcile_service(ProviderListener(db, l), None, {}, None, report)
    BY <1>2, <1>4
  <2>2. MembersOf(PoolOf(ProviderListener(db, l), None), {}) = {}
    BY <1>1 DEF MembersOf
  <2>3. PoolsIn(d, st, l) = {}
    BY <1>4, OnlyPool
  <2>4. EndpointsIn(d, st, l) = {}
    BY <2>3 DEF EndpointsIn
  <2>5. ProviderListener(db, l).protocol_port = l /\ l \in Listeners
    BY <1>4 DEF ProviderListener
  <2>6. RightStep(s, d, st) /\ Addresses(s, l)
    BY <2>1, <2>2, <2>4, <2>5, NoEndpointsIsRight
  <2> QED BY <2>6
<1> QED BY <1>3, <1>4

\* The handler has the pool as it will be.
LEMMA PoolStaysCall ==
  ASSUME Quiet, Thorough, NEW p, NEW l, NEW lock, NEW rows, NEW locks, NEW d, NEW st,
         PoolCall(p, l, lock, rows, locks, d, st), lock # "PENDING_DELETE", RowsTyped(d), Tidy(d),
         NEW changed, NEW gets \in Gets, NEW s, s = PoolStep(ProviderPool(d, p), changed, gets, None),
         NEW operation, Serve(operation, <<s>>, rows, locks)
  PROVE  RightPlan(call')
<1>1. /\ st[p] = lock /\ locks[LB] = "PENDING_UPDATE"
      /\ \A m \in Leaves : st[m] # "PENDING_DELETE"
      /\ l # None => l \in Listeners /\ db[l] # None /\ ExistsIn(d, st, l)
      /\ Closed(rows, locks) /\ Listeners \cap DOMAIN locks = {l} \ {None}
  BY PoolCallAhead
<1>2. /\ WantedIn(d, st, p) /\ d[p].listener_id = l /\ p \in Pools /\ l \in Listeners \cup {None}
      /\ d = Written(rows) /\ st = Ahead(locks) /\ prov[LB] = "ACTIVE"
  BY <1>1 DEF WantedIn, PoolCall
<1>3. RightStep(s, d, st) /\ (l # None => Addresses(s, l))
  BY <1>1, <1>2, PoolStaysRight
<1> QED BY <1>1, <1>2, <1>3, OneStepIsRight

LEMMA PoolCreateRight ==
  ASSUME Quiet, Thorough, NEW p \in Pools, pool_create(p)
  PROVE  RightPlan(call')
<1>1. PICK l \in {None} \cup {k \in Listeners : prov[k] = "ACTIVE" /\ DefaultPools(db, k) = {}},
           algorithm \in Algorithms, persistence \in Persistences \cup {None}, gets \in Gets :
        LET row == [listener_id |-> l, lb_algorithm |-> algorithm,
                    session_persistence |-> persistence]
            above == {LB, l} \ {None}
        IN  /\ Mutable(above)
            /\ Serve("pool_create",
                     <<PoolStep(ProviderPool(Written(Only(p, row)), p), Only(p, "ACTIVE"),
                                gets, None)>>,
                     Only(p, row), Locks(Only(p, "PENDING_CREATE"), above))
  BY DEF pool_create
<1> DEFINE row == [listener_id |-> l, lb_algorithm |-> algorithm,
                   session_persistence |-> persistence]
           above == {LB, l} \ {None}
           rows == Only(p, row)
           locks == Locks(Only(p, "PENDING_CREATE"), above)
           d == Written(rows)
           st == Ahead(locks)
           pool == ProviderPool(d, p)
           s == PoolStep(pool, Only(p, "ACTIVE"), gets, None)
<1>2. /\ prov[p] = "NONE" /\ p \in Children /\ db[p] = None
      /\ LB # None /\ p \notin Listeners \cup Leaves /\ Leaves \cap (Listeners \cup Pools) = {}
      /\ Listeners \subseteq Children /\ Leaves \subseteq Children /\ None \notin Children
  BY ResourcesAssumption DEF pool_create, Quiet, TypeInv, Resources, Children, Leaves
<1>3. l \in Listeners \cup {None} /\ prov[LB] = "ACTIVE" /\ (l # None => prov[l] = "ACTIVE")
  BY <1>1, <1>2 DEF Mutable
<1>4. row \in Rows(p) /\ row # None /\ row.listener_id = l
  <2>1. row \in Rows(p) /\ row.listener_id = l
    BY <1>3, RowsByKind
  <2>2. None \notin Rows(p)
    BY <1>2, NoneAssumption
  <2> QED BY <2>1, <2>2
<1>5. DOMAIN rows = {p} /\ rows[p] = row
  BY DEF Only
<1>6. Serve("pool_create", <<s>>, rows, locks)
  BY <1>1
<1>7. d[p] = row /\ \A r \in Children : r # p => d[r] = db[r]
  BY <1>2, <1>5, StateAhead
<1>8. RowsTyped(d)
  BY <1>4, <1>5, WrittenIsTyped DEF Quiet
<1> HIDE DEF rows, row, d, st
<1>9. Tidy(d)
  <2>1. \A q \in Pools : db[q] # None => db[q].listener_id \in Listeners \cup {None}
    <3>1. \A q \in Pools : db[q] # None =>
            db[q] \in [listener_id : Listeners \cup {None}, lb_algorithm : Algorithms,
                       session_persistence : Persistences \cup {None}]
      BY RowsByKind DEF Quiet, TypeInv, TypeOK, Children
    <3> QED BY <3>1
  <2>2. l # None => d[l] # None
    BY <1>2, <1>3, <1>7, RowsWhereActive DEF Quiet
  <2>3. \A q \in Pools : db[q] # None /\ db[q].listener_id = l /\ l # None => FALSE
    BY DEF DefaultPools
  <2>4. \A q \in Pools : q = p \/ d[q] = db[q]
    BY <1>7 DEF Children
  <2>5. \A q \in Listeners \cup Leaves : d[q] = db[q]
    BY <1>2, <1>7
  <2>6. ASSUME NEW q \in Pools, d[q] # None, d[q].listener_id # None
        PROVE  d[d[q].listener_id] # None
    BY <2>1, <2>2, <2>4, <2>5, <2>6, <1>4, <1>7 DEF Quiet, Tidy
  <2>7. ASSUME NEW q \in Pools, NEW o \in Pools, d[q] # None, d[o] # None, d[q].listener_id # None,
               d[q].listener_id = d[o].listener_id
        PROVE  q = o
    BY <2>3, <2>4, <2>7, <1>4, <1>7 DEF Quiet, Tidy
  <2> QED BY <2>5, <2>6, <2>7 DEF Quiet, Tidy, Leaves
<1>10. PICK lock, changed : lock = "PENDING_CREATE" /\ changed = Only(p, "ACTIVE")
  OBVIOUS
<1>11. PoolCall(p, l, lock, rows, locks, d, st)
  BY <1>1, <1>2, <1>3, <1>4, <1>5, <1>7, <1>10 DEF d, st, PoolCall
<1>12. s = PoolStep(ProviderPool(d, p), changed, gets, None) /\ lock # "PENDING_DELETE"
  BY <1>10
<1> HIDE DEF s, locks
<1> QED BY <1>6, <1>8, <1>9, <1>11, <1>12, PoolStaysCall

LEMMA PoolUpdateRight ==
  ASSUME Quiet, Thorough, NEW p \in Pools, pool_update(p)
  PROVE  RightPlan(call')
<1>1. PICK kind \in UpdateObjects, algorithm \in Algorithms,
           persistence \in Persistences \cup {None}, gets \in Gets :
        LET row == [db[p] EXCEPT !.lb_algorithm = algorithm,
                                 !.session_persistence = persistence]
            new == Shown(kind, ProviderPool(Written(Only(p, row)), p), "pool_id",
                         {"lb_algorithm", "session_persistence"})
        IN  Serve("pool_update", <<PoolStep(new, Only(p, "ACTIVE"), gets, None)>>,
                  Only(p, row), Locks(Only(p, "PENDING_UPDATE"), AbovePool(p)))
  BY DEF pool_update
<1>2. PICK l \in Listeners \cup {None} : db[p].listener_id = l
  BY AbovePoolFacts DEF pool_update, Quiet
<1>3. /\ db[p] # None /\ p \in Children
      /\ db[p] \in [listener_id : Listeners \cup {None}, lb_algorithm : Algorithms,
                    session_persistence : Persistences \cup {None}]
      /\ AbovePool(p) = {LB, l} \ {None}
      /\ prov[LB] = "ACTIVE" /\ (l # None => prov[l] = "ACTIVE")
  <2>1. /\ AbovePool(p) = {LB, l} \ {None} /\ LB \in AbovePool(p) /\ Mutable(AbovePool(p))
        /\ db[p] # None /\ db[p] \in [listener_id : Listeners \cup {None}, lb_algorithm : Algorithms,
                                      session_persistence : Persistences \cup {None}]
    BY <1>2, AbovePoolFacts DEF pool_update, Quiet
  <2> QED BY <2>1, KindsDiffer DEF Mutable
<1> DEFINE row == [db[p] EXCEPT !.lb_algorithm = algorithm, !.session_persistence = persistence]
           rows == Only(p, row)
           locks == Locks(Only(p, "PENDING_UPDATE"), {LB, l} \ {None})
           d == Written(rows)
           st == Ahead(locks)
           object == ProviderPool(d, p)
           new == Shown(kind, object, "pool_id", {"lb_algorithm", "session_persistence"})
           s == PoolStep(object, Only(p, "ACTIVE"), gets, None)
<1>4. row \in Rows(p) /\ row # None /\ row.listener_id = l
  <2>1. /\ row \in [listener_id : Listeners \cup {None}, lb_algorithm : Algorithms,
                    session_persistence : Persistences \cup {None}]
        /\ row.listener_id = l
    BY <1>2, <1>3
  <2> HIDE DEF row
  <2>2. row \in Rows(p)
    BY <2>1, RowsByKind
  <2> QED BY <1>3, <2>1, <2>2, NoneAssumption
<1> HIDE DEF row
<1>5. DOMAIN rows = {p} /\ rows[p] = row
  BY DEF Only
<1>6. Serve("pool_update", <<s>>, rows, locks)
  <2>1. kind = "full"
    BY OptionsAssumption DEF Thorough
  <2>2. object = [f \in DOMAIN object |-> object[f]]
    BY DEF ProviderPool
  <2>3. new = object
    BY <2>1, <2>2 DEF Shown
  <2>4. Serve("pool_update", <<PoolStep(new, Only(p, "ACTIVE"), gets, None)>>, rows, locks)
    BY <1>1, <1>3 DEF row
  <2> HIDE DEF new, object
  <2> QED BY <2>3, <2>4
<1>7. d[p] = row /\ \A r \in Children : r # p => d[r] = db[r]
  BY <1>3, <1>5, StateAhead
<1>8. RowsTyped(d)
  BY <1>4, <1>5, WrittenIsTyped DEF Quiet
<1> HIDE DEF rows, d, st
<1>9. Tidy(d)
  <2>1. \A q \in Pools : db[q] # None => db[q].listener_id \in Listeners \cup {None}
    <3>1. \A q \in Pools : db[q] # None =>
            db[q] \in [listener_id : Listeners \cup {None}, lb_algorithm : Algorithms,
                       session_persistence : Persistences \cup {None}]
      BY RowsByKind DEF Quiet, TypeInv, TypeOK, Children
    <3> QED BY <3>1
  <2>2. \A q \in Pools : /\ d[q] # None <=> db[q] # None
                         /\ d[q].listener_id = db[q].listener_id
    BY <1>2, <1>3, <1>4, <1>7 DEF Children
  <2>3. \A k \in Listeners \cup Leaves : d[k] = db[k]
    BY <1>7, KindsDiffer
  <2> QED BY <2>1, <2>2, <2>3 DEF Quiet, Tidy, Leaves
<1>10. PICK lock, changed : lock = "PENDING_UPDATE" /\ changed = Only(p, "ACTIVE")
  OBVIOUS
<1>11. PoolCall(p, l, lock, rows, locks, d, st)
  BY <1>2, <1>3, <1>4, <1>5, <1>7, <1>10 DEF d, st, PoolCall
<1>12. s = PoolStep(ProviderPool(d, p), changed, gets, None) /\ lock # "PENDING_DELETE"
  BY <1>10
<1> HIDE DEF s, locks
<1> QED BY <1>6, <1>8, <1>9, <1>11, <1>12, PoolStaysCall

LEMMA PoolDeleteRight ==
  ASSUME Quiet, Thorough, NEW p \in Pools, pool_delete(p)
  PROVE  RightPlan(call')
<1>1. PICK gets \in Gets :
        Serve("pool_delete", <<PoolStep(ProviderPool(db, p), Only(p, "DELETED"), gets, {})>>,
              NoRows, Locks(Only(p, "PENDING_DELETE"), AbovePool(p)))
  BY DEF pool_delete
<1>2. PICK l \in Listeners \cup {None} : db[p].listener_id = l
  BY AbovePoolFacts DEF pool_delete, Quiet
<1>3. /\ db[p] # None /\ p \in Children /\ AbovePool(p) = {LB, l} \ {None}
      /\ prov[LB] = "ACTIVE" /\ (l # None => prov[l] = "ACTIVE")
  <2>1. /\ AbovePool(p) = {LB, l} \ {None} /\ LB \in AbovePool(p) /\ Mutable(AbovePool(p))
        /\ db[p] # None
    BY <1>2, AbovePoolFacts DEF pool_delete, Quiet
  <2> QED BY <2>1, KindsDiffer DEF Mutable
<1>4. PICK lock, changed, rows, locks, pool, d, st :
        /\ lock = "PENDING_DELETE" /\ changed = Only(p, "DELETED") /\ rows = NoRows
        /\ locks = Locks(Only(p, lock), {LB, l} \ {None}) /\ pool = ProviderPool(db, p)
        /\ d = Written(rows) /\ st = Ahead(locks)
  OBVIOUS
<1>5. PICK s : s = PoolStep(pool, changed, gets, {})
  OBVIOUS
<1>6. PICK operation : Serve(operation, <<s>>, rows, locks)
  BY <1>1, <1>3, <1>4, <1>5
<1>7. /\ Tidy(d) /\ d[p] = db[p] /\ DOMAIN rows = {}
  BY <1>3, <1>4, NothingWritten
<1>8. PoolCall(p, l, lock, rows, locks, d, st)
  BY <1>2, <1>3, <1>4, <1>7 DEF PoolCall
<1>9. /\ st[p] = lock /\ locks[LB] = "PENDING_UPDATE"
      /\ l # None => l \in Listeners /\ db[l] # None /\ ExistsIn(d, st, l)
      /\ Closed(rows, locks) /\ Listeners \cap DOMAIN locks = {l} \ {None}
  BY <1>8, PoolCallAhead
<1>10. pool.loadbalancer_id = LB /\ pool.listener_id = l
  BY <1>2, <1>4, PoolObject
<1>11. d[p] # None /\ d[p].listener_id = l /\ st[p] = "PENDING_DELETE"
  BY <1>2, <1>3, <1>4, <1>7, <1>9
<1>12. RightStep(s, d, st) /\ (l # None => Addresses(s, l))
  BY ONLY Quiet, Thorough, p \in Pools, l \in Listeners \cup {None}, gets \in Gets,
          <1>5, <1>7, <1>9, <1>10, <1>11, PoolGoesRight
<1>13. Tidy(Written(rows)) /\ RightStep(s, Written(rows), Ahead(locks))
  BY <1>4, <1>7, <1>12
<1> QED BY <1>3, <1>6, <1>9, <1>12, <1>13, OneStepIsRight
-----------------------------------------------------------------------------
(* The handlers of the load balancer *)

\* A call that locks the load balancer alone and keeps it wants the same as before.
LEMMA BalancerAlone ==
  ASSUME Quiet, prov[LB] = "ACTIVE", NEW locks, DOMAIN locks = {LB}, locks[LB] = "PENDING_UPDATE",
         NEW l \in Listeners, NEW rule
  PROVE  Right(db, prov, l, rule) <=> Right(Written(NoRows), Ahead(locks), l, rule)
<1>1. l \notin DOMAIN locks
  BY KindsDiffer
<1>2. Closed(NoRows, locks)
  <2>1. DOMAIN NoRows = {}
    BY DEF NoRows
  <2> QED BY <2>1, KindsDiffer DEF Closed
<1> QED BY <1>1, <1>2, OthersStayRight

\* Without children nothing is wanted.
LEMMA NoChildren ==
  ASSUME Quiet, \A c \in Children : prov[c] = "NONE", NEW st, NEW l \in Listeners, NEW rule
  PROVE  Right(db, prov, l, rule) <=> Right(Written(NoRows), st, l, rule)
<1>1. db[l] = None
  BY KindsDiffer DEF Quiet, TypeInv
<1>2. Written(NoRows)[l] = None
  BY <1>1, NothingWritten, KindsDiffer
<1> QED BY <1>1, <1>2 DEF Right, ExistsIn, WantedIn

\* A call that locks the load balancer alone.
LEMMA BalancerPlan ==
  ASSUME Quiet, NEW c, c.rows = NoRows, DOMAIN c.locks = {LB},
         NEW st, st = Ahead(c.locks),
         \A n \in 1 .. Len(c.todo) : RightStep(c.todo[n], Written(NoRows), st),
         \A l \in Listeners : \A rule :
           Right(db, prov, l, rule) <=> Right(Written(NoRows), st, l, rule)
  PROVE  RightPlan(c)
<1>1. Tidy(Written(NoRows))
  BY NothingWritten
<1>2. Listeners \cap DOMAIN c.locks = {}
  BY KindsDiffer
<1> QED BY <1>1, <1>2 DEF RightPlan

LEMMA BalancerCreateRight ==
  ASSUME Quiet, Thorough, loadbalancer_create
  PROVE  RightPlan(call')
<1> DEFINE s == Report(Only(LB, "ACTIVE"))
<1>1. PICK rows \in {NoRows} :
        \E order \in Orders(Listeners \cap DOMAIN rows) :
          ServeOr("loadbalancer_create", Append(configure_listeners(Written(rows), order), s),
                  rows, [r \in {LB} \cup DOMAIN rows |-> "PENDING_CREATE"],
                  IF order = <<>> THEN None ELSE Only(LB, "ERROR"))
  BY DEF loadbalancer_create, Thorough, OneReport
<1>2. rows = NoRows /\ DOMAIN rows = {}
  BY DEF NoRows
<1>3. PICK order \in Orders({}) :
          ServeOr("loadbalancer_create", Append(configure_listeners(Written(rows), order), s),
                  rows, [r \in {LB} \cup DOMAIN rows |-> "PENDING_CREATE"],
                  IF order = <<>> THEN None ELSE Only(LB, "ERROR"))
  BY <1>1, <1>2
<1>4. order = <<>>
  BY OrderOfListeners
<1> DEFINE q == configure_listeners(Written(rows), order)
           todo == Append(q, s)
           locks == [r \in {LB} \cup DOMAIN rows |-> "PENDING_CREATE"]
<1>5. call'.todo = todo /\ call'.rows = NoRows /\ call'.locks = locks /\ DOMAIN locks = {LB}
  BY <1>2, <1>3 DEF ServeOr
<1>6. Len(todo) = 1 /\ todo[1] = s
  <2>1. q = <<>>
    BY <1>4 DEF configure_listeners
  <2> HIDE DEF q, s
  <2> QED BY <2>1
<1> HIDE DEF q, s, todo, locks
<1>7. \A n \in 1 .. Len(todo) : RightStep(todo[n], Written(NoRows), Ahead(locks))
  BY <1>6, ReportIsRight DEF s
<1>8. \A l \in Listeners : \A rule :
        Right(db, prov, l, rule) <=> Right(Written(NoRows), Ahead(locks), l, rule)
  BY NoChildren DEF loadbalancer_create
<1> QED BY <1>5, <1>7, <1>8, BalancerPlan

LEMMA BalancerUpdateRight ==
  ASSUME Quiet, loadbalancer_update
  PROVE  RightPlan(call')
<1> DEFINE last == Report(Only(LB, "ACTIVE"))
<1>1. PICK kind \in UpdateObjects :
        \E order \in Orders(IF kind = "full" THEN {l \in Listeners : db[l] # None} ELSE {}) :
          Serve("loadbalancer_update", Append(configure_listeners(db, order), last),
                NoRows, Only(LB, "PENDING_UPDATE"))
  BY DEF loadbalancer_update
<1> DEFINE S == IF kind = "full" THEN {l \in Listeners : db[l] # None} ELSE {}
<1>2. PICK order \in Orders(S) :
          Serve("loadbalancer_update", Append(configure_listeners(db, order), last),
                NoRows, Only(LB, "PENDING_UPDATE"))
  BY <1>1
<1>3. S \in SUBSET Listeners /\ \A l \in S : db[l] # None
  OBVIOUS
<1> HIDE DEF S
<1>4. PICK k \in Nat : DOMAIN order = 1 .. k
  BY <1>3, OrderOfListeners
<1>5. \A n \in 1 .. k : order[n] \in Listeners /\ db[order[n]] # None
  BY <1>3, <1>4, OrderOfListeners
<1> DEFINE q == configure_listeners(db, order)
           todo == Append(q, last)
           locks == Only(LB, "PENDING_UPDATE")
           d == Written(NoRows)
           st == Ahead(locks)
<1>6. q = [n \in 1 .. k |-> q[n]]
  BY <1>4, <1>5, ConfigureIsQuiet
<1>7. \A n \in 1 .. k : q[n] = reconcile_service(ProviderListener(db, order[n]), None, None, None, None)
  BY <1>4 DEF configure_listeners
<1>8. call'.todo = todo /\ call'.rows = NoRows /\ call'.locks = locks
  BY <1>2 DEF Serve, ServeOr
<1>9. DOMAIN locks = {LB} /\ locks[LB] = "PENDING_UPDATE" /\ prov[LB] = "ACTIVE"
  BY DEF Only, loadbalancer_update, Mutable
<1> HIDE DEF q, last, locks, todo
<1>10. Len(todo) = k + 1 /\ \A n \in 1 .. k + 1 : todo[n] = IF n = k + 1 THEN last ELSE q[n]
  BY <1>6, AppendIsSequence DEF todo
<1>11. st[LB] = "PENDING_UPDATE" /\ \A r \in Children : st[r] = prov[r] /\ st[r] # "PENDING_DELETE"
  BY <1>9, StateAhead, QuietChildren, KindsDiffer
<1>12. \A r \in Children : d[r] = db[r]
  BY NothingWritten
<1>13. RowsTyped(db) /\ Tidy(db)
  BY RowsWhereActive DEF Quiet
<1> HIDE DEF st, d
<1>14. ASSUME NEW n \in 1 .. k
       PROVE  RightStep(q[n], d, st)
  <2>1. PICK l \in Listeners : l = order[n] /\ db[l] # None
    BY <1>5
  <2>2. ExistsIn(db, st, l)
    BY <2>1, <1>11, KindsDiffer DEF ExistsIn, WantedIn
  <2>3. q[n] = reconcile_service(ProviderListener(db, l), None, None, None, None)
    BY <1>7, <2>1
  <2>4. \A r \in Children : st[r] # "PENDING_DELETE"
    BY <1>11
  <2>5. RightStep(q[n], db, st) /\ Addresses(q[n], l)
    BY <1>13, <2>2, <2>3, <2>4, WholeTreeIsRight
  <2>6. \A rule : Right(db, st, l, rule) <=> Right(d, st, l, rule)
    <3>1. ExistsIn(db, st, l) <=> ExistsIn(d, st, l)
      BY <1>12, KindsDiffer DEF ExistsIn, WantedIn
    <3>2. \A r \in Pools \cup Leaves : db[r] = d[r]
      BY <1>12, KindsDiffer
    <3> QED BY <3>1, <3>2, SameRight
  <2> QED BY <2>5, <2>6 DEF RightStep, Addresses
<1>15. RightStep(last, d, st)
  BY ReportIsRight DEF last
<1>16. \A n \in 1 .. Len(todo) : RightStep(todo[n], d, st)
  <2> SUFFICES ASSUME NEW n \in 1 .. k + 1 PROVE RightStep(todo[n], d, st)
    BY <1>10
  <2>1. CASE n = k + 1
    BY <1>10, <1>15, <2>1
  <2>2. CASE n # k + 1
    <3>1. n \in 1 .. k
      BY <2>2
    <3> QED BY <1>10, <1>14, <2>2, <3>1
  <2> QED BY <2>1, <2>2
<1>17. \A l \in Listeners : \A rule : Right(db, prov, l, rule) <=> Right(d, st, l, rule)
  BY <1>9, BalancerAlone DEF d, st
<1>18. RightPlan(call')
  <2>1. \A n \in 1 .. Len(call'.todo) : RightStep(call'.todo[n], Written(NoRows), Ahead(call'.locks))
    BY <1>8, <1>16 DEF d, st
  <2>2. \A l \in Listeners : \A rule :
          Right(db, prov, l, rule) <=> Right(Written(NoRows), Ahead(call'.locks), l, rule)
    BY <1>8, <1>17 DEF d, st
  <2> QED BY <1>8, <1>9, <2>1, <2>2, BalancerPlan
<1> QED BY <1>18

LEMMA BalancerFailoverRight ==
  ASSUME Quiet, loadbalancer_failover
  PROVE  RightPlan(call')
<1> DEFINE s == Report(Only(LB, "ACTIVE"))
           locks == Only(LB, "PENDING_UPDATE")
<1>1. call'.todo = <<s>> /\ call'.rows = NoRows /\ call'.locks = locks
  BY DEF loadbalancer_failover, Serve, ServeOr
<1>2. DOMAIN locks = {LB} /\ locks[LB] = "PENDING_UPDATE" /\ prov[LB] = "ACTIVE"
  BY DEF Only, loadbalancer_failover, Mutable
<1> HIDE DEF locks
<1>3. \A l \in Listeners : \A rule :
        Right(db, prov, l, rule) <=> Right(Written(NoRows), Ahead(locks), l, rule)
  BY <1>2, BalancerAlone
<1>4. RightStep(s, Written(NoRows), Ahead(locks))
  BY ReportIsRight
<1> HIDE DEF s
<1>5. \A n \in 1 .. Len(<<s>>) : RightStep(<<s>>[n], Written(NoRows), Ahead(locks))
  <2>1. Len(<<s>>) = 1 /\ 1 .. 1 = {1} /\ <<s>>[1] = s
    OBVIOUS
  <2> QED BY <1>4, <2>1
<1> QED BY <1>1, <1>2, <1>3, <1>5, BalancerPlan

LEMMA BalancerDeleteRight ==
  ASSUME Quiet, Thorough, NEW cascade \in BOOLEAN, loadbalancer_delete(cascade)
  PROVE  RightPlan(call')
<1> DEFINE S == {l \in Listeners : db[l] # None}
           s == DeleteByName(<<LB>>, Only(LB, "DELETED"))
           locks == Only(LB, "PENDING_DELETE")
<1>1. PICK gets \in [Listeners -> Gets], order \in Orders(S) :
        Serve(IF cascade THEN "cascade" ELSE "loadbalancer_delete",
              IF order = <<>> THEN <<s>>
              ELSE Append([n \in DOMAIN order |-> deletion_of_listener(order[n], gets[order[n]])],
                          Report(Only(LB, "DELETED"))),
              NoRows, locks)
  BY DEF loadbalancer_delete
<1>2. ~ cascade
  BY <1>1 DEF Thorough, OneReport, Serve, ServeOr
<1>3. \A c \in Children : prov[c] = "NONE"
  BY <1>2 DEF loadbalancer_delete
<1>4. S = {}
  BY <1>3, KindsDiffer DEF Quiet, TypeInv
<1>5. order = <<>>
  BY <1>4, OrderOfListeners
<1>6. call'.todo = <<s>> /\ call'.rows = NoRows /\ call'.locks = locks /\ DOMAIN locks = {LB}
  BY <1>1, <1>5 DEF Serve, ServeOr, Only
<1>7. \A l \in Listeners : \A rule :
        Right(db, prov, l, rule) <=> Right(Written(NoRows), Ahead(locks), l, rule)
  BY <1>3, NoChildren
<1>8. RightStep(s, Written(NoRows), Ahead(locks))
  BY DEF RightStep, DeleteByName
<1> HIDE DEF s, locks
<1>9. \A n \in 1 .. Len(<<s>>) : RightStep(<<s>>[n], Written(NoRows), Ahead(locks))
  <2>1. Len(<<s>>) = 1 /\ 1 .. 1 = {1} /\ <<s>>[1] = s
    OBVIOUS
  <2> QED BY <1>8, <2>1
<1> QED BY <1>6, <1>7, <1>9, BalancerPlan

\* Every handler plans what Octavia will want.
LEMMA HandlersPlanRight ==
  ASSUME RuleInv, Reliable, Handler
  PROVE  RightPlan(call') /\ Planned
<1>1. TypeInv /\ Thorough
  BY DEF RuleInv, AnswerInv, LockInv, DriverInv, Reliable
<1>2. Planned
  BY <1>1, HandlerPlans
<1>3. Quiet
  BY <1>1, <1>2, HandlersBeginQuiet
<1>4. ~ GetsMayFail
  BY <1>1 DEF Thorough
<1>5. CASE \/ loadbalancer_create \/ loadbalancer_update \/ loadbalancer_failover
           \/ loadbalancer_delete(TRUE) \/ loadbalancer_delete(FALSE)
  BY <1>1, <1>2, <1>3, <1>5, BalancerCreateRight, BalancerUpdateRight, BalancerFailoverRight,
     BalancerDeleteRight
<1>6. CASE \E l \in Listeners : \/ listener_create(l) \/ listener_update(l) \/ listener_delete(l)
                                \/ l7policy_or_l7rule(l)
  BY <1>1, <1>2, <1>3, <1>4, <1>6, ListenerCreateRight, ListenerUpdateRight, ListenerDeleteRight,
     L7Right
<1>7. CASE \E p \in Pools : \/ pool_create(p) \/ pool_update(p) \/ pool_delete(p)
                            \/ member_batch_update(p)
  BY <1>1, <1>2, <1>3, <1>7, PoolCreateRight, PoolUpdateRight, PoolDeleteRight, MemberBatchRight
<1>8. CASE \E m \in Members : member_create(m) \/ member_update(m) \/ member_delete(m)
  <2>1. \A m \in Members : ~ member_update(m)
    BY DEF Reliable, member_update, Serve, ServeOr
  <2> QED BY <1>1, <1>2, <1>3, <1>8, <2>1, MemberCreateRight, MemberDeleteRight
<1>9. CASE \E h \in Monitors : \/ health_monitor_create(h) \/ health_monitor_update(h)
                               \/ health_monitor_delete(h)
  <2>1. \A h \in Monitors : ~ health_monitor_delete(h)
    BY DEF Reliable, health_monitor_delete, Serve, ServeOr
  <2> QED BY <1>1, <1>2, <1>3, <1>9, <2>1, MonitorCreateRight, MonitorUpdateRight
<1> QED BY <1>5, <1>6, <1>7, <1>8, <1>9 DEF Handler
-----------------------------------------------------------------------------
(* Carrying a call out brings the rules there *)

LEMMA RulesTyped ==
  ASSUME TypeInv, NEW l \in Listeners, rules[l] # None
  PROVE  rules[l].name # <<LB>>
<1>1. rules[l] \in Rules
  BY DEF TypeInv, TypeOK
<1>2. rules[l].name \in {LB} \X Listeners
  BY <1>1 DEF Rules
<1>3. PICK k \in Listeners : rules[l].name = <<LB, k>>
  BY <1>2
<1>4. Len(<<LB, k>>) = 2 /\ Len(<<LB>>) = 1
  OBVIOUS
<1> QED BY <1>3, <1>4

\* A step that is right makes one rule right and leaves the others.
LEMMA PerformedIsRight ==
  ASSUME TypeInv, NEW d, NEW st, NEW s, IsStep(s), RightStep(s, d, st), NEW l \in Listeners,
         Right(d, st, l, rules[l]) \/ (Addresses(s, l) /\ s.verb # "RAISE")
  PROVE  Right(d, st, l, Performed(s)[l])
<1>1. rules \in [Listeners -> Rules \cup {None}]
  BY DEF TypeInv, TypeOK
<1>2. CASE s.verb = "POST"
  <2>1. Performed(s) = [rules EXCEPT ![s.arg.port] = s.arg]
    BY <1>2 DEF Performed
  <2>2. Performed(s)[l] = IF l = s.arg.port THEN s.arg ELSE rules[l]
    BY <1>1, <2>1
  <2>3. Right(d, st, s.arg.port, s.arg)
    BY <1>2 DEF RightStep
  <2> QED BY <1>2, <2>2, <2>3 DEF Addresses
<1>3. CASE s.verb = "DELETE"
  <2>1. Performed(s)[l] = IF l = s.arg THEN None ELSE rules[l]
    BY <1>1, <1>3 DEF Performed
  <2>2. Right(d, st, s.arg, None)
    BY <1>3 DEF RightStep
  <2> QED BY <1>3, <2>1, <2>2 DEF Addresses
<1>4. CASE s.verb = "DELETE_BY_NAME"
  <2>1. s.arg = <<LB>>
    BY <1>4 DEF RightStep
  <2>2. Performed(s)[l] = rules[l]
    BY <1>4, <2>1, RulesTyped DEF Performed
  <2> QED BY <1>4, <2>2 DEF Addresses
<1>5. CASE s.verb \in {"NONE", "RAISE"}
  BY <1>5 DEF Performed, Addresses
<1> QED BY <1>2, <1>3, <1>4, <1>5 DEF IsStep, Verbs

LEMMA PlannedRules ==
  ASSUME RuleInv, Reliable, Handler, AnswerInv'
  PROVE  RuleInv'
<1>1. RightPlan(call') /\ Planned
  BY HandlersPlanRight
<1>2. call = None /\ UNCHANGED <<db, prov, rules, reports>> /\ WellReported(call') /\ LB \in DOMAIN call'.locks
  BY <1>1 DEF Planned, WellLocked
<1> DEFINE todo == call'.todo
           d == Written(call'.rows)
           st == Ahead(call'.locks)
<1>3. Written(call.rows)' = d /\ Ahead(call.locks)' = st
  BY <1>2 DEF Written, Ahead
<1>4. /\ Tidy(d) /\ \A n \in 1 .. Len(todo) : RightStep(todo[n], d, st)
      /\ \A l \in Listeners \cap DOMAIN call'.locks : \E n \in 1 .. Len(todo) : Addresses(todo[n], l)
  BY <1>1 DEF RightPlan
<1>5. ASSUME NEW n \in 1 .. Len(todo), todo[n].report # None
      PROVE  todo[n].verb = "RAISE" \/ LB \in DOMAIN todo[n].report
  <2>1. n = Len(todo)
    BY <1>2, <1>5 DEF WellReported, Reliable, Thorough, OneReport
  <2>2. todo[Len(todo)].verb = "RAISE" \/ DOMAIN todo[Len(todo)].report = DOMAIN call'.locks
    BY <1>2 DEF WellReported, Reliable
  <2> QED BY <1>2, <2>1, <2>2
<1>6. Tidy(db)' /\ \A p \in reports' : LB \in DOMAIN p
  BY <1>2 DEF RuleInv, Tidy
<1> HIDE DEF d, st
<1>7. /\ Tidy(d)
      /\ \A n \in 1 .. Len(todo) : todo[n].report # None => todo[n].verb = "RAISE" \/ LB \in DOMAIN todo[n].report
      /\ \A n \in 1 .. Len(todo) : RightStep(todo[n], d, st)
      /\ \A l \in Listeners \cap DOMAIN call'.locks :
           (\E n \in 1 .. Len(todo) : Addresses(todo[n], l)) \/ Right(d, st, l, rules'[l])
  BY <1>4, <1>5
<1> QED BY <1>3, <1>6, <1>7 DEF RuleInv, Tidy, RightStep, Addresses, Right

LEMMA DoneRules ==
  ASSUME RuleInv, StepDone, AnswerInv'
  PROVE  RuleInv'
<1> DEFINE todo == call.todo
           rest == call'.todo
           d == Written(call.rows)
           st == Ahead(call.locks)
<1>1. TypeInv /\ CallInv
  BY DEF RuleInv, AnswerInv, LockInv, DriverInv
<1>2. /\ call # None /\ call' # None /\ UNCHANGED <<db, prov>>
      /\ call'.rows = call.rows /\ call'.locks = call.locks
      /\ 1 \in 1 .. Len(todo) /\ Head(todo) = todo[1]
      /\ \A n \in 1 .. Len(rest) : n + 1 \in 1 .. Len(todo) /\ rest[n] = todo[n + 1]
      /\ ~ call.failed /\ call'.failed = call.failed
      /\ reports' = Sent(todo[1].report)
  BY <1>1, DoneFacts
<1>3. Written(call.rows)' = d /\ Ahead(call.locks)' = st
  BY <1>2 DEF Written, Ahead
<1>4. /\ Tidy(d) /\ \A n \in 1 .. Len(todo) : RightStep(todo[n], d, st)
      /\ \A l \in Listeners \cap DOMAIN call.locks :
           (\E n \in 1 .. Len(todo) : Addresses(todo[n], l)) \/ Right(d, st, l, rules[l])
      /\ \A n \in 1 .. Len(todo) : todo[n].report # None => todo[n].verb = "RAISE" \/ LB \in DOMAIN todo[n].report
  BY <1>2 DEF RuleInv
<1>5. todo[1].verb # "RAISE" /\ rules' = Performed(todo[1]) /\ IsStep(todo[1])
  BY <1>1, <1>2, CallFacts DEF StepDone
<1> HIDE DEF d, st
<1>6. ASSUME NEW l \in Listeners \cap DOMAIN call.locks
      PROVE  (\E n \in 1 .. Len(rest) : Addresses(rest[n], l)) \/ Right(d, st, l, rules'[l])
  <2>1. CASE Right(d, st, l, rules[l]) \/ Addresses(todo[1], l)
    BY <1>1, <1>2, <1>4, <1>5, <2>1, PerformedIsRight
  <2>2. CASE \E n \in 1 .. Len(todo) : n # 1 /\ Addresses(todo[n], l)
    <3>1. PICK n \in 1 .. Len(todo) : n # 1 /\ Addresses(todo[n], l)
      BY <2>2
    <3>2. n - 1 \in 1 .. Len(rest)
      BY <1>1, <3>1, DoneFacts
    <3>3. rest[n - 1] = todo[(n - 1) + 1]
      BY <1>2, <3>2
    <3> QED BY <3>1, <3>2, <3>3
  <2> QED BY <1>4, <2>1, <2>2
<1>7. \A p \in reports' : LB \in DOMAIN p
  BY <1>2, <1>4, <1>5 DEF Sent, RuleInv
<1>8. Tidy(db)'
  BY <1>2 DEF RuleInv, Tidy
<1>9. /\ Tidy(d)
      /\ \A n \in 1 .. Len(rest) : rest[n].report # None => rest[n].verb = "RAISE" \/ LB \in DOMAIN rest[n].report
      /\ \A n \in 1 .. Len(rest) : RightStep(rest[n], d, st)
      /\ \A l \in Listeners \cap DOMAIN call'.locks :
           (\E n \in 1 .. Len(rest) : Addresses(rest[n], l)) \/ Right(d, st, l, rules'[l])
  BY <1>2, <1>4, <1>6
<1> QED BY <1>3, <1>7, <1>8, <1>9 DEF RuleInv, Tidy, RightStep, Addresses, Right

LEMMA FailedRules ==
  ASSUME RuleInv, StepFails, AnswerInv'
  PROVE  RuleInv'
<1>1. TypeInv /\ CallInv
  BY DEF RuleInv, AnswerInv, LockInv, DriverInv
<1>2. /\ call # None /\ call' # None /\ UNCHANGED <<db, prov>> /\ call'.rows = call.rows
      /\ call'.failed = TRUE /\ call'.todo = <<>> /\ Len(<<>>) = 0
  <2>1. call'.todo = <<>> /\ call'.failed = TRUE /\ call'.rows = call.rows /\ call # None /\ call' # None
    BY <1>1, StepEffect, CallFacts, CallIsOver DEF StepFails, Raised
  <2> QED BY <2>1 DEF StepFails
<1>3. reports' = reports
  BY <1>2 DEF StepFails, ReportedOnError, Sent, RuleInv, AnswerInv, LockInv
<1>4. Written(call.rows)' = Written(call.rows)
  BY <1>2 DEF Written
<1>5. Tidy(Written(call.rows))' /\ Tidy(db)'
  BY <1>2, <1>4 DEF RuleInv, Tidy
<1> QED BY <1>2, <1>3, <1>5 DEF RuleInv

\* The commit makes the state to come the present one.
LEMMA CommitComes ==
  ASSUME Commit
  PROVE  db' = Written(call.rows) /\ prov' = Ahead(call.locks)
BY DEF Commit, Ahead

LEMMA EndRules ==
  ASSUME RuleInv, Commit \/ Rollback, AnswerInv'
  PROVE  RuleInv'
<1>1. call # None /\ call' = None /\ reports' = reports
  BY DEF Commit, Rollback
<1>2. CASE Commit
  <2>1. db' = Written(call.rows) /\ Tidy(Written(call.rows))
    BY <1>1, <1>2, CommitComes DEF RuleInv
  <2>2. Tidy(db)'
    BY <2>1 DEF Tidy
  <2> QED BY <1>1, <2>2 DEF RuleInv
<1>3. CASE Rollback
  <2>1. Tidy(db)'
    BY <1>3 DEF Rollback, RuleInv, Tidy
  <2> QED BY <1>1, <2>1 DEF RuleInv
<1> QED BY <1>2, <1>3

LEMMA ApplyIsTidy ==
  ASSUME TypeInv, Tidy(db), NEW p, Apply(p)
  PROVE  Tidy(db)'
<1>1. TypeInv /\ Tidy(db)
  OBVIOUS
<1>2. \A r \in Children :
        db'[r] = IF r \in Removed(p) THEN None
                 ELSE IF r \in Pools /\ db[r] # None /\ db[r].listener_id \in Removed(p)
                 THEN [db[r] EXCEPT !.listener_id = None]
                 ELSE db[r]
  BY DEF Apply
<1>3. \A q \in Pools : db[q] # None =>
        /\ db[q].listener_id \in Listeners \cup {None}
        /\ [db[q] EXCEPT !.listener_id = None].listener_id = None
  <2>1. \A q \in Pools : db[q] # None =>
          db[q] \in [listener_id : Listeners \cup {None}, lb_algorithm : Algorithms,
                     session_persistence : Persistences \cup {None}]
    BY <1>1, RowsWhereActive, RowsByKind DEF RowsTyped, Children
  <2> QED BY <2>1
<1>4. \A q \in Pools : db'[q] # None /\ db'[q].listener_id # None =>
        db'[q] = db[q] /\ db[q].listener_id \in Listeners /\ db[q].listener_id \notin Removed(p)
  BY <1>2, <1>3, KindsDiffer
<1>5. \A l \in Listeners \cup Leaves : db'[l] = IF l \in Removed(p) THEN None ELSE db[l]
  BY <1>2, KindsDiffer
<1>6. \A q \in Pools : db'[q] # None /\ db'[q].listener_id # None => db'[db'[q].listener_id] # None
  <2> SUFFICES ASSUME NEW q \in Pools, db'[q] # None, db'[q].listener_id # None
               PROVE  db'[db'[q].listener_id] # None
    OBVIOUS
  <2>1. PICK l \in Listeners : l = db[q].listener_id /\ l \notin Removed(p) /\ db'[q] = db[q]
    BY <1>4
  <2>2. db[l] # None
    BY <1>1, <2>1 DEF Tidy
  <2> QED BY <1>5, <2>1, <2>2
<1>7. \A q, r \in Pools :
        db'[q] # None /\ db'[r] # None /\ db'[q].listener_id # None
          /\ db'[q].listener_id = db'[r].listener_id => q = r
  BY <1>1, <1>4 DEF Tidy
<1>8. \A h, k \in Monitors :
        db'[h] # None /\ db'[k] # None /\ db'[h].pool_id = db'[k].pool_id => h = k
  BY <1>1, <1>5 DEF Tidy, Leaves
<1> QED BY <1>6, <1>7, <1>8 DEF Tidy

LEMMA RulesInitially == Init => RuleInv
<1> SUFFICES ASSUME Init PROVE RuleInv
  OBVIOUS
<1>1. AnswerInv
  <2>1. \A r \in Resources : ~ (StatusThen(r) \in Pending)
    BY DEF Init, StatusThen, Underway, Pending
  <2> QED BY <2>1, LocksInitially DEF Init, AnswerInv
<1>2. \A r \in Children : db[r] = None
  BY DEF Init
<1>3. Tidy(db)
  BY <1>2, KindsDiffer DEF Tidy, Leaves
<1> QED BY <1>1, <1>3 DEF Init, RuleInv

LEMMA RulesPreserved ==
  ASSUME Reliable
  PROVE  RuleInv /\ [Next]_vars => RuleInv'
<1> SUFFICES ASSUME RuleInv, [Next]_vars PROVE RuleInv'
  OBVIOUS
<1>1. AnswerInv'
  BY AnswersPreserved DEF RuleInv, Reliable
<1>2. CASE Handler
  BY <1>1, <1>2, PlannedRules
<1>3. CASE StepDone
  BY <1>1, <1>3, DoneRules
<1>4. CASE StepFails
  BY <1>1, <1>4, FailedRules
<1>5. CASE Commit \/ Rollback
  BY <1>1, <1>5, EndRules
<1>6. CASE Deliver
  <2>1. PICK p \in reports : /\ reports' = reports \ {p}
                             /\ IF Known(p) THEN Apply(p) ELSE UNCHANGED <<db, prov>>
    BY <1>6 DEF Deliver
  <2>2. Tidy(db)'
    BY <2>1, ApplyIsTidy DEF RuleInv, AnswerInv, LockInv, DriverInv, Tidy
  <2>3. call' = None /\ \A q \in reports' : LB \in DOMAIN q
    BY <1>6, <2>1 DEF Deliver, RuleInv
  <2> QED BY <1>1, <2>2, <2>3 DEF RuleInv
<1>7. CASE DeliverEarly
  BY <1>7 DEF DeliverEarly, Reliable
<1>8. CASE UNCHANGED vars
  <2>1. UNCHANGED <<db, prov, rules, call, reports>>
    BY <1>8 DEF vars
  <2>2. /\ \A rows : Written(rows)' = Written(rows)
        /\ \A locks : Ahead(locks)' = Ahead(locks)
    BY <2>1 DEF Written, Ahead
  <2>3. Written(call.rows)' = Written(call.rows) /\ Ahead(call.locks)' = Ahead(call.locks)
    BY <2>1 DEF Written, Ahead
  <2> DEFINE d == Written(call.rows)
             st == Ahead(call.locks)
  <2>4. Written(call.rows)' = d /\ Ahead(call.locks)' = st
    BY <2>3
  <2>5. call # None =>
          /\ Tidy(d)
          /\ \A n \in 1 .. Len(call.todo) :
               call.todo[n].report # None => call.todo[n].verb = "RAISE" \/ LB \in DOMAIN call.todo[n].report
          /\ ~ call.failed =>
               /\ \A n \in 1 .. Len(call.todo) : RightStep(call.todo[n], d, st)
               /\ \A l \in Listeners \cap DOMAIN call.locks :
                    (\E n \in 1 .. Len(call.todo) : Addresses(call.todo[n], l)) \/ Right(d, st, l, rules[l])
    BY DEF RuleInv
  <2>6. Tidy(db)'
    BY <2>1 DEF RuleInv, Tidy
  <2>7. \A p \in reports' : LB \in DOMAIN p
    BY <2>1 DEF RuleInv
  <2> HIDE DEF d, st
  <2>8. call' # None =>
          /\ Tidy(d)
          /\ \A n \in 1 .. Len(call'.todo) :
               call'.todo[n].report # None => call'.todo[n].verb = "RAISE" \/ LB \in DOMAIN call'.todo[n].report
          /\ ~ call'.failed =>
               /\ \A n \in 1 .. Len(call'.todo) : RightStep(call'.todo[n], d, st)
               /\ \A l \in Listeners \cap DOMAIN call'.locks :
                    (\E n \in 1 .. Len(call'.todo) : Addresses(call'.todo[n], l)) \/ Right(d, st, l, rules'[l])
    BY <2>1, <2>5
  <2> QED BY <1>1, <2>4, <2>6, <2>7, <2>8 DEF RuleInv, Tidy, RightStep, Addresses, Right
<1> QED BY <1>2, <1>3, <1>4, <1>5, <1>6, <1>7, <1>8 DEF Next, Service

\* A call that succeeds leaves the rule of the listener it locked as Octavia wants it,
\* whatever requests failed before: the handler found all that hangs below the
\* listener, with the change it was called for, and made the rule of that.
THEOREM CallsRealise == Reliable => (Spec => SuccessRealises)
<1> SUFFICES ASSUME Reliable PROVE Spec => SuccessRealises
  OBVIOUS
<1>1. Init => RuleInv
  BY RulesInitially
<1>2. RuleInv /\ [Next]_vars => RuleInv'
  BY RulesPreserved
<1>3. RuleInv /\ [Next]_vars =>
        [call # None /\ ~ call.failed /\ call' = None =>
           \A l \in Listeners \cap DOMAIN call.locks : Realised(l)']_vars
  <2> SUFFICES ASSUME RuleInv, [Next]_vars, call # None, ~ call.failed, call' = None,
                      NEW l \in Listeners \cap DOMAIN call.locks
               PROVE  Realised(l)'
    OBVIOUS
  <2>1. TypeInv /\ CallInv
    BY DEF RuleInv, AnswerInv, LockInv, DriverInv
  <2>2. Commit
    <3>1. ~ Handler
      <4>1. Handler => Planned
        BY <2>1, HandlerPlans
      <4> QED BY <4>1 DEF Planned
    <3>2. ~ (StepDone \/ StepFails)
      BY <2>1, StepEffect
    <3>3. ~ Rollback /\ ~ Deliver /\ ~ DeliverEarly /\ ~ UNCHANGED vars
      BY DEF Rollback, Deliver, DeliverEarly, vars
    <3> QED BY <3>1, <3>2, <3>3 DEF Next, Service
  <2> DEFINE d == Written(call.rows)
             st == Ahead(call.locks)
  <2>3. call.todo = <<>> /\ rules' = rules /\ Len(<<>>) = 0
    BY <2>2 DEF Commit
  <2>4. Right(d, st, l, rules[l])
    BY <2>3 DEF RuleInv
  <2>5. db' = d /\ prov' = st
    BY <2>2, CommitComes
  <2> HIDE DEF d, st
  <2>6. Right(db, prov, l, rules[l])'
    <3>1. Right(db', prov', l, rules'[l])
      BY <2>3, <2>4, <2>5
    <3> QED BY <3>1 DEF Right
  <2>7. (Realised(l) <=> Right(db, prov, l, rules[l]))'
    BY RightIsRealised, PTL
  <2> QED BY <2>6, <2>7
<1> QED BY <1>1, <1>2, <1>3, PTL DEF Spec, SuccessRealises
-----------------------------------------------------------------------------
(* LoxiLB holds what Octavia has committed to, when no request fails *)

\* While a call is at work, the rules are still those of the present state, should the
\* handler raise; and those of the listeners it leaves alone are right for the state
\* to come.  A call of several steps wants the same before and after.
MatchInv ==
  /\ RuleInv
  /\ call = None => \A l \in Listeners : Right(db, prov, l, rules[l])
  /\ call # None =>
       LET d == Written(call.rows)
           st == Ahead(call.locks)
       IN  /\ call.failed => \A l \in Listeners : Right(db, prov, l, rules[l])
           /\ ~ call.failed => \A l \in Listeners \ DOMAIN call.locks : Right(d, st, l, rules[l])
           /\ call.todo # <<>> =>
                /\ \A l \in Listeners : Right(db, prov, l, rules[l])
                /\ \/ Len(call.todo) = 1
                   \/ \A l \in Listeners : \A rule : Right(db, prov, l, rule) <=> Right(d, st, l, rule)

LEMMA PlannedMatch ==
  ASSUME MatchInv, Reliable, Handler, RuleInv'
  PROVE  MatchInv'
<1>1. RightPlan(call') /\ Planned
  BY HandlersPlanRight DEF MatchInv
<1>2. call = None /\ UNCHANGED <<db, prov, rules, reports>> /\ call'.failed = FALSE
  BY <1>1 DEF Planned, WellTyped
<1> DEFINE d == Written(call'.rows)
           st == Ahead(call'.locks)
<1>3. Written(call.rows)' = d /\ Ahead(call.locks)' = st
  BY <1>2 DEF Written, Ahead
<1>4. \A l \in Listeners : Right(db, prov, l, rules[l]) /\ Right(db', prov', l, rules'[l])
  BY <1>2 DEF MatchInv
<1>5. /\ \A l \in Listeners \ DOMAIN call'.locks : \A rule : Right(db, prov, l, rule) => Right(d, st, l, rule)
      /\ \/ Len(call'.todo) = 1
         \/ \A l \in Listeners : \A rule : Right(db, prov, l, rule) <=> Right(d, st, l, rule)
  BY <1>1 DEF RightPlan
<1> HIDE DEF d, st
<1>6. /\ \A l \in Listeners \ DOMAIN call'.locks : Right(d, st, l, rules'[l])
      /\ \/ Len(call'.todo) = 1
         \/ \A l \in Listeners : \A rule : Right(db', prov', l, rule) <=> Right(d, st, l, rule)
  BY <1>2, <1>4, <1>5
<1> QED BY <1>2, <1>3, <1>4, <1>6 DEF MatchInv, Right

LEMMA DoneMatch ==
  ASSUME MatchInv, StepDone, RuleInv'
  PROVE  MatchInv'
<1> DEFINE todo == call.todo
           d == Written(call.rows)
           st == Ahead(call.locks)
<1>1. TypeInv /\ CallInv /\ RuleInv
  BY DEF MatchInv, RuleInv, AnswerInv, LockInv, DriverInv
<1>2. /\ call # None /\ call' # None /\ UNCHANGED <<db, prov>> /\ todo # <<>>
      /\ call'.rows = call.rows /\ call'.locks = call.locks
      /\ 1 \in 1 .. Len(todo) /\ Head(todo) = todo[1]
      /\ Len(call'.todo) = Len(todo) - 1 /\ Len(todo) \in Nat \ {0}
      /\ ~ call.failed /\ ~ call'.failed
  BY <1>1, DoneFacts
<1>3. Written(call.rows)' = d /\ Ahead(call.locks)' = st
  BY <1>2 DEF Written, Ahead
<1>4. /\ RightStep(todo[1], d, st)
      /\ \A l \in Listeners \ DOMAIN call.locks : Right(d, st, l, rules[l])
      /\ \A l \in Listeners : Right(db, prov, l, rules[l])
      /\ \/ Len(todo) = 1
         \/ \A l \in Listeners : \A rule : Right(db, prov, l, rule) <=> Right(d, st, l, rule)
  BY <1>1, <1>2 DEF MatchInv, RuleInv
<1>5. rules' = Performed(todo[1]) /\ IsStep(todo[1])
  BY <1>1, <1>2, CallFacts DEF StepDone
<1> HIDE DEF d, st
<1>6. \A l \in Listeners : Right(d, st, l, rules[l]) => Right(d, st, l, rules'[l])
  BY <1>1, <1>4, <1>5, PerformedIsRight
<1>7. call'.todo # <<>> => Len(todo) # 1
  <2>1. call'.todo \in Seq({call'.todo[n] : n \in DOMAIN call'.todo})
    BY <1>1, StepEffect DEF IsCall
  <2>2. Len(call'.todo) = 0 => call'.todo = <<>>
    BY <2>1
  <2> QED BY <1>2, <2>2
<1>8. call'.todo # <<>> =>
        /\ \A l \in Listeners : Right(db', prov', l, rules'[l])
        /\ \A l \in Listeners : \A rule : Right(db', prov', l, rule) <=> Right(d, st, l, rule)
  BY <1>2, <1>4, <1>6, <1>7
<1>9. \A l \in Listeners \ DOMAIN call'.locks : Right(d, st, l, rules'[l])
  BY <1>2, <1>4, <1>6
<1> QED BY <1>2, <1>3, <1>8, <1>9 DEF MatchInv, Right

LEMMA FailedMatch ==
  ASSUME MatchInv, StepFails, ~ RestMayFail, RuleInv'
  PROVE  MatchInv'
<1>1. TypeInv /\ CallInv
  BY DEF MatchInv, RuleInv, AnswerInv, LockInv, DriverInv
<1>2. /\ call # None /\ call' # None /\ UNCHANGED <<db, prov, rules>> /\ call.todo # <<>>
      /\ call'.failed = TRUE /\ call'.todo = <<>>
  <2>1. call'.todo = <<>> /\ call'.failed = TRUE /\ call # None /\ call' # None
    BY <1>1, StepEffect, CallFacts, CallIsOver DEF StepFails, Raised
  <2> QED BY <2>1 DEF StepFails
<1>3. \A l \in Listeners : Right(db', prov', l, rules'[l])
  BY <1>2 DEF MatchInv
<1> QED BY <1>2, <1>3 DEF MatchInv, Right

LEMMA EndMatch ==
  ASSUME MatchInv, Commit \/ Rollback, RuleInv'
  PROVE  MatchInv'
<1>1. call # None /\ call' = None /\ rules' = rules
  BY DEF Commit, Rollback
<1>2. CASE Commit
  <2> DEFINE d == Written(call.rows)
             st == Ahead(call.locks)
  <2>1. call.todo = <<>> /\ ~ call.failed /\ Len(<<>>) = 0
    BY <1>2 DEF Commit
  <2>2. /\ \A l \in Listeners \cap DOMAIN call.locks : Right(d, st, l, rules[l])
        /\ \A l \in Listeners \ DOMAIN call.locks : Right(d, st, l, rules[l])
    BY <1>1, <2>1 DEF MatchInv, RuleInv
  <2>3. db' = d /\ prov' = st
    BY <1>2, CommitComes
  <2> HIDE DEF d, st
  <2>4. \A l \in Listeners : Right(db', prov', l, rules'[l])
    BY <1>1, <2>2, <2>3
  <2> QED BY <1>1, <2>4 DEF MatchInv, Right
<1>3. CASE Rollback
  <2>1. \A l \in Listeners : Right(db', prov', l, rules'[l])
    BY <1>1, <1>3 DEF Rollback, MatchInv
  <2> QED BY <1>1, <2>1 DEF MatchInv, Right
<1> QED BY <1>2, <1>3

\* A report makes of a status what Octavia wanted anyway, and takes away what was no
\* longer wanted.
LEMMA ApplyWantsTheSame ==
  ASSUME RuleInv, call = None, NEW p \in reports, Apply(p), NEW l \in Listeners, NEW rule
  PROVE  Right(db, prov, l, rule) <=> Right(db', prov', l, rule)
<1>1. TypeInv /\ LB \in DOMAIN p
  BY DEF RuleInv, AnswerInv, LockInv, DriverInv
<1>2. \A r \in DOMAIN p : prov[r] \in Pending /\ p[r] = Answer(prov[r])
  BY NoCallAhead, NoErrorReported DEF RuleInv, AnswerInv
<1>3. /\ \A r \in Children :
           db'[r] = IF r \in Removed(p) THEN None
                    ELSE IF r \in Pools /\ db[r] # None /\ db[r].listener_id \in Removed(p)
                    THEN [db[r] EXCEPT !.listener_id = None]
                    ELSE db[r]
      /\ \A r \in Resources : prov'[r] = IF r \in Removed(p) THEN "NONE"
                                         ELSE IF r \in DOMAIN p THEN p[r] ELSE prov[r]
  BY DEF Apply
<1>4. \A r \in Children : r \in DOMAIN p /\ p[r] = "DELETED" => r \in Removed(p)
  BY DEF Removed
<1>5. \A r \in Children : r \notin Removed(p) =>
        (prov[r] = "PENDING_DELETE" <=> prov'[r] = "PENDING_DELETE")
  BY <1>2, <1>3, <1>4, KindsDiffer DEF Answer, Pending
<1>6. \A r \in Removed(p) :
        \/ prov[r] = "PENDING_DELETE"
        \/ /\ r \in Leaves /\ db[r] # None
           /\ \E pool \in Pools : db[r].pool_id = pool /\ prov[pool] = "PENDING_DELETE"
  <2> SUFFICES ASSUME NEW r \in Removed(p), prov[r] # "PENDING_DELETE"
               PROVE  /\ r \in Leaves /\ db[r] # None
                      /\ \E pool \in Pools : db[r].pool_id = pool /\ prov[pool] = "PENDING_DELETE"
    OBVIOUS
  <2>1. r \notin DOMAIN p \/ p[r] # "DELETED"
    BY <1>2 DEF Answer
  <2>2. /\ r \in Leaves /\ db[r] # None
        /\ \E pool \in Pools \cap DOMAIN p : db[r].pool_id = pool /\ p[pool] = "DELETED"
    BY <2>1, RemovedBelow
  <2> QED BY <1>2, <2>2 DEF Answer
<1>7. Removed(p) \subseteq Children
  BY DEF Removed, InPool, Children
<1>8. (prov[LB] \in {"PENDING_DELETE", "DELETED"}) <=> (prov'[LB] \in {"PENDING_DELETE", "DELETED"})
  BY <1>1, <1>2, <1>3, <1>7, KindsDiffer DEF Answer, Pending
<1>9. ExistsIn(db, prov, l) <=> ExistsIn(db', prov', l)
  <2>1. CASE l \in Removed(p)
    BY <1>3, <1>6, <2>1, KindsDiffer DEF ExistsIn, WantedIn
  <2>2. CASE l \notin Removed(p)
    BY <1>3, <1>5, <1>8, <2>2, KindsDiffer DEF ExistsIn, WantedIn
  <2> QED BY <2>1, <2>2
<1>10. ASSUME ExistsIn(db, prov, l), NEW q \in Pools
       PROVE  \/ db[q] = db'[q] /\ (prov[q] = "PENDING_DELETE" <=> prov'[q] = "PENDING_DELETE")
              \/ q \notin PoolsIn(db, prov, l) /\ q \notin PoolsIn(db', prov', l)
  <2>1. CASE q \in Removed(p)
    <3>1. prov[q] = "PENDING_DELETE" /\ db'[q] = None
      BY <1>3, <1>6, <2>1, KindsDiffer
    <3> QED BY <3>1 DEF PoolsIn, WantedIn
  <2>2. CASE q \notin Removed(p) /\ db[q] # None /\ db[q].listener_id \in Removed(p)
    <3>1. db[q] \in [listener_id : Listeners \cup {None}, lb_algorithm : Algorithms,
                     session_persistence : Persistences \cup {None}]
      BY <1>1, <2>2, RowsWhereActive, RowsByKind, KindsDiffer DEF RowsTyped
    <3>2. db'[q] = [db[q] EXCEPT !.listener_id = None]
      BY <1>3, <2>2, KindsDiffer
    <3>3. db'[q].listener_id = None
      BY <3>1, <3>2
    <3>4. l # None
      BY ResourcesAssumption DEF Resources, Children
    <3>5. l \notin Removed(p)
      BY <1>6, <1>10, KindsDiffer DEF ExistsIn, WantedIn
    <3> QED BY <2>2, <3>3, <3>4, <3>5 DEF PoolsIn
  <2>3. CASE q \notin Removed(p) /\ ~ (db[q] # None /\ db[q].listener_id \in Removed(p))
    BY <1>3, <1>5, <2>3, KindsDiffer
  <2> QED BY <2>1, <2>2, <2>3
<1>11. ASSUME NEW m \in Leaves
       PROVE  \/ db[m] = db'[m] /\ (prov[m] = "PENDING_DELETE" <=> prov'[m] = "PENDING_DELETE")
              \/ /\ ~ (WantedIn(db, prov, m) /\ db[m].pool_id \in PoolsIn(db, prov, l))
                 /\ ~ (WantedIn(db', prov', m) /\ db'[m].pool_id \in PoolsIn(db', prov', l))
  <2>1. CASE m \in Removed(p)
    <3>1. db'[m] = None
      BY <1>3, <2>1, KindsDiffer
    <3> QED BY <1>6, <2>1, <3>1 DEF PoolsIn, WantedIn
  <2>2. CASE m \notin Removed(p)
    BY <1>3, <1>5, <2>2, KindsDiffer
  <2> QED BY <2>1, <2>2
<1> QED BY <1>9, <1>10, <1>11, SameRight

LEMMA MatchPreserved ==
  ASSUME Reliable, ~ RestMayFail
  PROVE  MatchInv /\ [Next]_vars => MatchInv'
<1> SUFFICES ASSUME MatchInv, [Next]_vars PROVE MatchInv'
  OBVIOUS
<1>1. RuleInv' /\ RuleInv
  BY RulesPreserved DEF MatchInv
<1>2. CASE Handler
  BY <1>1, <1>2, PlannedMatch
<1>3. CASE StepDone
  BY <1>1, <1>3, DoneMatch
<1>4. CASE StepFails
  BY <1>1, <1>4, FailedMatch
<1>5. CASE Commit \/ Rollback
  BY <1>1, <1>5, EndMatch
<1>6. CASE Deliver
  <2>1. PICK p \in reports : IF Known(p) THEN Apply(p) ELSE UNCHANGED <<db, prov>>
    BY <1>6 DEF Deliver
  <2>2. call = None /\ call' = None /\ rules' = rules
    BY <1>6 DEF Deliver
  <2>3. \A l \in Listeners : Right(db, prov, l, rules[l])
    BY <2>2 DEF MatchInv
  <2>4. \A l \in Listeners : Right(db', prov', l, rules'[l])
    <3>1. CASE Apply(p)
      BY <1>1, <2>2, <2>3, <3>1, ApplyWantsTheSame
    <3>2. CASE UNCHANGED <<db, prov>>
      BY <2>2, <2>3, <3>2
    <3> QED BY <2>1, <3>1, <3>2
  <2> QED BY <1>1, <2>2, <2>4 DEF MatchInv, Right
<1>7. CASE DeliverEarly
  BY <1>7 DEF DeliverEarly, Reliable
<1>8. CASE UNCHANGED vars
  <2>1. UNCHANGED <<db, prov, rules, call, reports>>
    BY <1>8 DEF vars
  <2> DEFINE d == Written(call.rows)
             st == Ahead(call.locks)
  <2>2. Written(call.rows)' = d /\ Ahead(call.locks)' = st
    BY <2>1 DEF Written, Ahead
  <2>3. /\ call' = None => \A l \in Listeners : Right(db', prov', l, rules'[l])
        /\ call' # None =>
             /\ call'.failed => \A l \in Listeners : Right(db', prov', l, rules'[l])
             /\ ~ call'.failed => \A l \in Listeners \ DOMAIN call'.locks : Right(d, st, l, rules'[l])
             /\ call'.todo # <<>> =>
                  /\ \A l \in Listeners : Right(db', prov', l, rules'[l])
                  /\ \/ Len(call'.todo) = 1
                     \/ \A l \in Listeners : \A rule : Right(db', prov', l, rule) <=> Right(d, st, l, rule)
    BY <2>1 DEF MatchInv
  <2> HIDE DEF d, st
  <2> QED BY <1>1, <2>2, <2>3 DEF MatchInv, Right
<1> QED BY <1>2, <1>3, <1>4, <1>5, <1>6, <1>7, <1>8 DEF Next, Service

\* LoxiLB holds the rule of each listener that has enabled members, with these members,
\* the pool's algorithm and its enabled monitor's probe, and no other rule, whenever no
\* call is at work: no handler forgets or spoils a rule, not even one the translator
\* refuses, and no report changes what is wanted.
THEOREM RulesAreOctavias == Reliable /\ ~ RestMayFail => (Spec => []RulesMatchOctavia)
<1> SUFFICES ASSUME Reliable, ~ RestMayFail PROVE Spec => []RulesMatchOctavia
  OBVIOUS
<1>1. Init => MatchInv
  <2> SUFFICES ASSUME Init PROVE MatchInv
    OBVIOUS
  <2>1. \A l \in Listeners : rules[l] = None /\ db[l] = None
    BY KindsDiffer DEF Init
  <2> QED BY <2>1, RulesInitially DEF Init, MatchInv, Right, ExistsIn, WantedIn
<1>2. MatchInv /\ [Next]_vars => MatchInv'
  BY MatchPreserved
<1>3. MatchInv => RulesMatchOctavia
  BY RightIsRealised DEF MatchInv, RulesMatchOctavia
<1> QED BY <1>1, <1>2, <1>3, PTL DEF Spec

\* A load balancer that was reported DELETED has left no rule behind, though its own
\* deletion asks for a name that no rule has: its listeners went before it.
COROLLARY DeletedLeavesNothing == Reliable /\ ~ RestMayFail => (Spec => []DeletedLeavesNoRule)
<1>1. RulesMatchOctavia => DeletedLeavesNoRule
  BY DEF RulesMatchOctavia, DeletedLeavesNoRule, Realised, Exists
<1> QED BY <1>1, RulesAreOctavias, PTL
=============================================================================
