---------------------- MODULE ProviderDriverTypes_proofs ----------------------
(***************************************************************************)
(* What every handler plans, and the types of all variables.  The          *)
(* handlers differ in what they read and pass on; what the later proofs    *)
(* need of the call they begin is the same for all: Planned.               *)
(***************************************************************************)
EXTENDS ProviderDriver, SequenceTheorems, FiniteSetTheorems, TLAPS

\* A function is given by its values.
IsTable(f) == f = [x \in DOMAIN f |-> f[x]]

\* A call is a record, its steps a sequence.
IsCall(c) ==
  /\ IsTable(c.rows) /\ IsTable(c.locks)
  /\ c = [todo |-> c.todo, rows |-> c.rows, locks |-> c.locks, onError |-> c.onError,
          failed |-> c.failed]
  /\ c.todo \in Seq({c.todo[n] : n \in DOMAIN c.todo})

\* The report that answers a lock.
Answer(lock) == IF lock = "PENDING_DELETE" THEN "DELETED" ELSE "ACTIVE"

\* A report says of locked resources what the locks wait for.
Fits(report, locks) ==
  /\ IsReport(report) /\ report # None
  /\ DOMAIN report \subseteq DOMAIN locks
  /\ \A r \in DOMAIN report : report[r] = Answer(locks[r])

\* The calls Octavia finishes with one report about all it has locked.
OneReport == {"tree", "cascade", "member_batch_removal"} \cap Operations = {}
Thorough == OneReport /\ ~ GetsMayFail /\ "changes" \notin UpdateObjects

\* A resource is locked when it is new, or when it is free; but a member that was
\* removed from a list is never reported, and may be put back while it is locked.
Lockable(r, c) ==
  \/ /\ prov[r] = "ACTIVE" /\ c.locks[r] \in {"PENDING_UPDATE", "PENDING_DELETE"}
  \/ /\ prov[r] = "NONE" \/ (r = LB /\ prov[r] = "DELETED")
     /\ c.locks[r] = "PENDING_CREATE"
     /\ r \in Children => r \in DOMAIN c.rows
  \/ /\ r \in Members /\ db[r] # None
     /\ prov[db[r].pool_id] = "ACTIVE" /\ db[r].pool_id \in DOMAIN c.locks
     /\ c.locks[r] \in {"PENDING_UPDATE", "PENDING_DELETE"}

\* What a handler has planned for a call c, when it begins.
WellTyped(c) ==
  /\ \A n \in 1 .. Len(c.todo) : IsStep(c.todo[n])
  /\ DOMAIN c.rows \subseteq Children
  /\ \A r \in DOMAIN c.rows : c.rows[r] \in Rows(r)
  /\ \A r \in DOMAIN c.locks : c.locks[r] \in Pending
  /\ c.onError # None => IsReport(c.onError)
  /\ c.failed = FALSE

WellLocked(c) ==
  /\ LB \in DOMAIN c.locks /\ DOMAIN c.locks \subseteq Resources
  /\ \A r \in DOMAIN c.locks : Lockable(r, c)
  /\ \A r \in DOMAIN c.rows : r \in DOMAIN c.locks \/ (r \in Pools /\ db[r] # None)
  /\ \A m \in DOMAIN c.locks \cap (Members \cup Monitors) :
       Written(c.rows)[m].pool_id \in DOMAIN c.locks
  /\ reports = {} \/ prov[LB] = "ACTIVE"

\* The step whose report says that listener l is deleted is the one that deletes it.
DeletesListener(s, l) == s.verb = "DELETE" /\ s.arg = l /\ LB \in DOMAIN s.report

WellReported(c) ==
  /\ c.onError # None => /\ c.onError = Only(LB, "ERROR")
                         /\ prov[LB] \in {"NONE", "DELETED"}
                         /\ ~ OneReport
  /\ "cascade" \notin Operations =>
       \A n \in 1 .. Len(c.todo) :
         \/ c.todo[n].report = None
         \/ (n = Len(c.todo) /\ Fits(c.todo[n].report, c.locks))
  /\ "cascade" \notin Operations /\ ~ GetsMayFail =>
       \A n \in 1 .. Len(c.todo) : c.todo[n].report # None =>
         \A l \in Listeners \cap DOMAIN c.todo[n].report :
           c.locks[l] = "PENDING_DELETE" => DeletesListener(c.todo[n], l)
  /\ OneReport =>
       \A n \in 1 .. Len(c.todo) :
         c.todo[n].report # None => Members \cap DOMAIN c.locks \subseteq DOMAIN c.todo[n].report
  /\ Thorough =>
       /\ c.todo # <<>>
       /\ LET last == c.todo[Len(c.todo)]
          IN  last.verb = "RAISE" \/ (last.report # None /\ DOMAIN last.report = DOMAIN c.locks)

\* The call has begun, and nothing else has happened.
Planned ==
  /\ call = None /\ UNCHANGED <<db, prov, rules, reports>>
  /\ IsCall(call')
  /\ WellTyped(call') /\ WellLocked(call') /\ WellReported(call')

\* Types, and what they need: children have a row exactly while they have a
\* status, and the rows a call will write are of children that exist or are locked.
TypeInv ==
  /\ TypeOK
  /\ \A r \in Children : (db[r] = None <=> prov[r] = "NONE") /\ prov[r] # "DELETED"
  /\ call # None =>
       /\ IsCall(call)
       /\ DOMAIN call.rows \subseteq Children
       /\ LB \in DOMAIN call.locks /\ DOMAIN call.locks \subseteq Resources
       /\ \A r \in DOMAIN call.rows : r \in DOMAIN call.locks \/ db[r] # None
       /\ \A r \in DOMAIN call.locks \cap Children : r \in DOMAIN call.rows \/ db[r] # None
-----------------------------------------------------------------------------
(* Sequences of steps *)

LEMMA SequenceOfItsElements ==
  ASSUME NEW S, NEW q \in Seq(S)
  PROVE  q \in Seq({q[n] : n \in DOMAIN q})
<1> DEFINE T == {q[n] : n \in DOMAIN q}
<1>1. DOMAIN q = 1 .. Len(q) /\ Len(q) \in Nat /\ q \in [1 .. Len(q) -> S]
  OBVIOUS
<1>2. q \in [1 .. Len(q) -> T]
  BY <1>1
<1> QED BY <1>1, <1>2, SMTT(20)

\* Orders lists a set of listeners: a function from 1 .. k.
LEMMA OrdersAreSequences ==
  ASSUME NEW S \in SUBSET Listeners, NEW order \in Orders(S)
  PROVE  \E k \in Nat : DOMAIN order = 1 .. k
<1>1. Cardinality(S) \in Nat
  BY ResourcesAssumption, FS_Subset, FS_CardinalityType
<1> QED BY <1>1 DEF Orders, SetToSeqs
-----------------------------------------------------------------------------
(* The translator's rules *)

\* Members are known by their identifiers.
MembersKnown(members) == members # None => \A m \in members : m.member_id \in Members

\* What the translator does not refuse is a rule of the listener.
LEMMA EntryIsRule ==
  ASSUME NEW listener, NEW pool, NEW members, NEW healthmonitor,
         listener.protocol_port \in Listeners \cup {None}, listener.listener_id \in Listeners,
         PoolOf(listener, pool) # None => MembersKnown(PoolOf(listener, pool).members),
         MembersKnown(members),
         to_loxilb_service(LB, listener, pool, members, healthmonitor) # Refused
           \/ Translatable(listener, PoolOf(listener, pool), MonitorOf(PoolOf(listener, pool), healthmonitor))
  PROVE  to_loxilb_service(LB, listener, pool, members, healthmonitor) \in Rules
<1> DEFINE p == PoolOf(listener, pool)
           h == MonitorOf(p, healthmonitor)
<1>1. Translatable(listener, p, h)
  BY DEF to_loxilb_service
<1>2. Selection(p) \in {0, 3, 4}
  BY <1>1 DEF Selection, Translatable, LB_ALGORITHM_MAP, LOXILB_SEL_ROUND_ROBIN,
              LOXILB_SEL_PERSIST, LOXILB_SEL_LEAST_CONNECTIONS
<1>3. Probe(h) \in {"tcp", "http", "https", "ping", "udp", None}
  BY <1>1 DEF Probe, Translatable, HEALTH_MONITOR_PROBE_MAP, SUPPORTED_HEALTH_MONITOR_TYPES
<1>4. to_loxilb_endpoints(MembersOf(p, members)) \in SUBSET Members
  BY DEF to_loxilb_endpoints, MembersOf, MembersKnown, get_field
<1>5. listener.protocol_port \in Listeners
  BY <1>1 DEF Translatable
<1> QED BY <1>1, <1>2, <1>3, <1>4, <1>5 DEF to_loxilb_service, Rules, generate_service_name
-----------------------------------------------------------------------------
(* Steps *)

\* A step that sends this report once it is done, unless it cannot be done.
Carries(s, report) ==
  /\ IsStep(s)
  /\ s.report = report \/ (s.verb = "RAISE" /\ s.report = None)

LEMMA TablesMade ==
  IsTable(NoRows) /\ \A r, value : IsTable(Only(r, value))
BY DEF IsTable, NoRows, Only

LEMMA RaiseCarries ==
  ASSUME NEW report
  PROVE  Carries(Raise, report)
<1> DEFINE s == Raise
<1>1. /\ s.verb = "RAISE" /\ s.arg = None /\ s.report = None
      /\ s = [verb |-> s.verb, arg |-> s.arg, report |-> s.report]
  BY DEF Raise
<1> HIDE DEF s
<1>2. Carries(s, report)
  BY <1>1 DEF Carries, IsStep, Verbs
<1> QED BY <1>2 DEF s

\* A report is one of the statuses of some resources, and not None.
LEMMA NoReportIsNone ==
  ASSUME NEW S \in SUBSET Resources, NEW f \in [S -> {"ACTIVE", "ERROR", "DELETED"}]
  PROVE  f # None
BY NoneAssumption DEF Reports

LEMMA PostCarries ==
  ASSUME NEW entry \in Rules, NEW report, report = None \/ IsReport(report)
  PROVE  Carries(Post(entry, report), report)
<1> DEFINE s == Post(entry, report)
<1>1. /\ s.verb = "POST" /\ s.arg = entry /\ s.report = report
      /\ s = [verb |-> s.verb, arg |-> s.arg, report |-> s.report]
  BY DEF Post
<1>2. s.report # None => IsReport(s.report)
  BY <1>1
<1> HIDE DEF s
<1>3. Carries(s, report)
  BY <1>1, <1>2 DEF Carries, IsStep, Verbs
<1> QED BY <1>3 DEF s

LEMMA DeleteCarries ==
  ASSUME NEW l \in Listeners, NEW report, report = None \/ IsReport(report)
  PROVE  Carries(Delete(l, report), report)
<1> DEFINE s == Delete(l, report)
<1>1. /\ s.verb = "DELETE" /\ s.arg = l /\ s.report = report
      /\ s = [verb |-> s.verb, arg |-> s.arg, report |-> s.report]
  BY DEF Delete
<1>2. s.report # None => IsReport(s.report)
  BY <1>1
<1> HIDE DEF s
<1>3. Carries(s, report)
  BY <1>1, <1>2 DEF Carries, IsStep, Verbs
<1> QED BY <1>3 DEF s

LEMMA DeleteByNameCarries ==
  ASSUME NEW name \in Names, NEW report, IsReport(report)
  PROVE  Carries(DeleteByName(name, report), report)
<1> DEFINE s == DeleteByName(name, report)
<1>1. /\ s.verb = "DELETE_BY_NAME" /\ s.arg = name /\ s.report = report
      /\ s = [verb |-> s.verb, arg |-> s.arg, report |-> s.report]
  BY DEF DeleteByName
<1>2. s.report # None => IsReport(s.report)
  BY <1>1
<1> HIDE DEF s
<1>3. Carries(s, report)
  BY <1>1, <1>2 DEF Carries, IsStep, Verbs
<1> QED BY <1>3 DEF s

LEMMA ReportCarries ==
  ASSUME NEW report, IsReport(report)
  PROVE  Carries(Report(report), report)
<1> DEFINE s == Report(report)
<1>1. /\ s.verb = "NONE" /\ s.arg = None /\ s.report = report
      /\ s = [verb |-> s.verb, arg |-> s.arg, report |-> s.report]
  BY DEF Report
<1>2. s.report # None => IsReport(s.report)
  BY <1>1
<1> HIDE DEF s
<1>3. Carries(s, report)
  BY <1>1, <1>2 DEF Carries, IsStep, Verbs
<1> QED BY <1>3 DEF s

LEMMA ReconcileCarries ==
  ASSUME NEW listener, NEW pool, NEW members, NEW healthmonitor, NEW report,
         listener.protocol_port \in Listeners \cup {None}, listener.listener_id \in Listeners,
         PoolOf(listener, pool) # None => MembersKnown(PoolOf(listener, pool).members),
         MembersKnown(members),
         report = None \/ IsReport(report)
  PROVE  Carries(reconcile_service(listener, pool, members, healthmonitor, report), report)
<1> DEFINE entry == to_loxilb_service(LB, listener, pool, members, healthmonitor)
           s == reconcile_service(listener, pool, members, healthmonitor, report)
<1>1. s = IF entry = Refused THEN Raise
          ELSE IF entry.endpoints # {} THEN Post(entry, report) ELSE Delete(entry.port, report)
  BY DEF reconcile_service
<1>2. entry # Refused => entry \in Rules /\ entry.port \in Listeners
  BY EntryIsRule DEF Rules
<1>3. Carries(Raise, report)
  BY RaiseCarries
<1> HIDE DEF entry, s
<1>4. Carries(s, report)
  BY <1>1, <1>2, <1>3, PostCarries, DeleteCarries
<1> QED BY <1>4 DEF s
-----------------------------------------------------------------------------
(* Rows and the objects made of them *)

LEMMA RowsByKind ==
  /\ \A l \in Listeners : Rows(l) = [protocol : Protocols]
  /\ \A p \in Pools : Rows(p) = [listener_id : Listeners \cup {None}, lb_algorithm : Algorithms,
                                 session_persistence : Persistences \cup {None}]
  /\ \A m \in Members : Rows(m) = [pool_id : Pools, admin_state_up : BOOLEAN]
  /\ \A h \in Monitors : Rows(h) = [pool_id : Pools, type : MonitorTypes,
                                    admin_state_up : BOOLEAN]
BY ResourcesAssumption DEF Rows, Resources, Children

RowsTyped(d) == \A r \in Children : d[r] = None \/ d[r] \in Rows(r)

LEMMA PoolObject ==
  ASSUME NEW d, NEW p
  PROVE  LET pool == ProviderPool(d, p)
         IN  /\ pool.pool_id = p /\ pool.loadbalancer_id = LB
             /\ pool.listener_id = d[p].listener_id
             /\ MembersKnown(pool.members)
BY DEF ProviderPool, MembersKnown, ProviderMember, InPool

LEMMA ListenerObject ==
  ASSUME NEW d, NEW l
  PROVE  LET listener == ProviderListener(d, l)
         IN  /\ listener.listener_id = l /\ listener.protocol_port = l
             /\ listener.loadbalancer_id = LB
             /\ listener.default_pool # None => MembersKnown(listener.default_pool.members)
<1>1. \A q : MembersKnown(ProviderPool(d, q).members)
  BY PoolObject
<1>2. ProviderListener(d, l).default_pool # None =>
        MembersKnown(ProviderListener(d, l).default_pool.members)
  BY <1>1 DEF ProviderListener
<1> QED BY <1>2 DEF ProviderListener

LEMMA MemberTyped ==
  ASSUME NEW d, RowsTyped(d), NEW m \in Members, d[m] # None
  PROVE  ProviderMember(d, m) \in MemberObjects
<1>1. d[m] \in [pool_id : Pools, admin_state_up : BOOLEAN]
  BY RowsByKind DEF RowsTyped, Children
<1> QED BY <1>1 DEF ProviderMember, MemberObjects

LEMMA MonitorTyped ==
  ASSUME NEW d, RowsTyped(d), NEW h \in Monitors, d[h] # None
  PROVE  ProviderMonitor(d, h) \in MonitorObjects
<1>1. d[h] \in [pool_id : Pools, type : MonitorTypes, admin_state_up : BOOLEAN]
  BY RowsByKind DEF RowsTyped, Children
<1> QED BY <1>1 DEF ProviderMonitor, MonitorObjects

LEMMA PoolTyped ==
  ASSUME NEW d, RowsTyped(d), NEW p \in Pools, d[p] # None
  PROVE  ProviderPool(d, p) \in PoolObjects
<1> DEFINE hs == InPool(d, p, Monitors)
           ms == {ProviderMember(d, m) : m \in InPool(d, p, Members)}
           monitor == IF hs = {} THEN None ELSE ProviderMonitor(d, CHOOSE h \in hs : TRUE)
<1>1. d[p] \in [listener_id : Listeners \cup {None}, lb_algorithm : Algorithms,
                session_persistence : Persistences \cup {None}]
  BY RowsByKind DEF RowsTyped, Children
<1>2. ms \in SUBSET MemberObjects
  BY MemberTyped DEF InPool
<1>3. monitor \in MonitorObjects \cup {None}
  BY MonitorTyped DEF InPool
<1>4. ProviderPool(d, p) =
        [pool_id |-> p, loadbalancer_id |-> LB, listener_id |-> d[p].listener_id,
         lb_algorithm |-> d[p].lb_algorithm, session_persistence |-> d[p].session_persistence,
         members |-> ms, healthmonitor |-> monitor]
  BY DEF ProviderPool
<1> QED BY <1>1, <1>2, <1>3, <1>4 DEF PoolObjects

LEMMA ListenerTyped ==
  ASSUME NEW d, RowsTyped(d), NEW l \in Listeners, d[l] # None
  PROVE  ProviderListener(d, l) \in ListenerObjects
<1> DEFINE ps == DefaultPools(d, l)
           pool == IF ps = {} THEN None ELSE ProviderPool(d, CHOOSE p \in ps : TRUE)
<1>1. d[l] \in [protocol : Protocols]
  BY RowsByKind DEF RowsTyped, Children
<1>2. pool \in PoolObjects \cup {None}
  BY PoolTyped DEF DefaultPools
<1>3. ProviderListener(d, l) =
        [listener_id |-> l, loadbalancer_id |-> LB, protocol_port |-> l,
         protocol |-> d[l].protocol, default_pool |-> pool]
  BY DEF ProviderListener
<1> QED BY <1>1, <1>2, <1>3 DEF ListenerObjects
-----------------------------------------------------------------------------
(* Reports *)

LEMMA StatusOfIsReport ==
  ASSUME NEW changed, IsReport(changed), NEW parents \in SUBSET (Resources \cup {None})
  PROVE  LET report == StatusOf(changed, parents)
         IN  /\ IsReport(report) /\ report # None
             /\ DOMAIN report = DOMAIN changed \cup (parents \ {None})
             /\ \A r \in DOMAIN report :
                  report[r] = IF r \in DOMAIN changed THEN changed[r] ELSE "ACTIVE"
<1> DEFINE S == DOMAIN changed \cup (parents \ {None})
           report == StatusOf(changed, parents)
<1>1. report = [r \in S |-> IF r \in DOMAIN changed THEN changed[r] ELSE "ACTIVE"]
  BY DEF StatusOf
<1>2. S \in SUBSET Resources
  BY DEF IsReport
<1>3. report \in [S -> {"ACTIVE", "ERROR", "DELETED"}]
  BY <1>1 DEF IsReport
<1>4. report # None
  BY <1>2, <1>3, NoReportIsNone
<1> QED BY <1>1, <1>2, <1>3, <1>4 DEF IsReport

LEMMA OnlyIsReport ==
  ASSUME NEW r \in Resources, NEW value \in {"ACTIVE", "ERROR", "DELETED"}
  PROVE  /\ IsReport(Only(r, value)) /\ Only(r, value) # None
         /\ DOMAIN Only(r, value) = {r} /\ Only(r, value)[r] = value
<1>1. Only(r, value) \in [{r} -> {"ACTIVE", "ERROR", "DELETED"}]
  BY DEF Only
<1>2. Only(r, value) # None
  BY <1>1, NoReportIsNone
<1> QED BY <1>2 DEF Only, IsReport

\* A report about what the call changes and about parents of it: all of them, if
\* everything can be read.
Reporting(s, changed, above) ==
  \E ps \in SUBSET above : /\ Carries(s, StatusOf(changed, ps))
                           /\ Thorough => ps = above

LEMMA NoneIsNoParent ==
  ASSUME NEW changed, NEW parents
  PROVE  StatusOf(changed, parents) = StatusOf(changed, parents \ {None})
<1>1. (parents \ {None}) \ {None} = parents \ {None}
  OBVIOUS
<1> QED BY <1>1 DEF StatusOf
LEMMA GetsAnswer ==
  ASSUME NEW gets \in Gets, ~ GetsMayFail
  PROVE  "loadbalancer" \in gets /\ "listener" \in gets /\ "pool" \in gets
BY DEF Gets

LEMMA ResolvedLoadBalancer ==
  ASSUME NEW lb \in {LB, None}, NEW gets \in Gets
  PROVE  /\ resolve_loadbalancer(lb, gets) \in {LB, None}
         /\ ~ GetsMayFail /\ lb = LB => resolve_loadbalancer(lb, gets) = LB
BY GetsAnswer, ResourcesAssumption DEF resolve_loadbalancer, Resources

LEMMA ResolvedListener ==
  ASSUME RowsTyped(db), NEW l \in Listeners \cup {None}, NEW gets \in Gets
  PROVE  LET listener == resolve_listener(l, gets)
         IN  /\ listener # None => /\ l \in Listeners /\ listener = ProviderListener(db, l)
                                   /\ IdOf(listener) = l
             /\ listener = None => IdOf(listener) = None
             /\ ~ GetsMayFail /\ l # None /\ db[l] # None => listener # None
<1>1. l \in Listeners /\ db[l] # None => ProviderListener(db, l) # None
  BY ListenerTyped, NoneAssumption
<1>2. ProviderListener(db, l).listener_id = l
  BY ListenerObject
<1> QED BY <1>1, <1>2, GetsAnswer DEF resolve_listener, IdOf

\* The handlers of pools: PoolStep.
LEMMA PoolStepReporting ==
  ASSUME RowsTyped(db), NEW pool, NEW changed, IsReport(changed), NEW gets \in Gets, NEW members,
         pool.loadbalancer_id \in {LB, None}, pool.listener_id \in Listeners \cup {None},
         MembersKnown(pool.members), MembersKnown(members),
         NEW above \in SUBSET Resources, {LB, pool.listener_id} \ {None} \subseteq above,
         Thorough => /\ pool.loadbalancer_id = LB
                     /\ above = {LB, pool.listener_id} \ {None}
                     /\ pool.listener_id # None => db[pool.listener_id] # None
  PROVE  Reporting(PoolStep(pool, changed, gets, members), changed, above)
<1> DEFINE lb == resolve_loadbalancer(pool.loadbalancer_id, gets)
           listener == resolve_listener(pool.listener_id, gets)
           found == {IdOf(listener), lb}
           report == StatusOf(changed, found)
           s == PoolStep(pool, changed, gets, members)
<1>1. lb \in {LB, None} /\ (Thorough => lb = LB)
  BY ResolvedLoadBalancer DEF Thorough
<1>2. /\ listener # None => /\ pool.listener_id \in Listeners
                            /\ listener = ProviderListener(db, pool.listener_id)
                            /\ IdOf(listener) = pool.listener_id
      /\ listener = None => IdOf(listener) = None
      /\ Thorough /\ pool.listener_id # None => listener # None
  BY ResolvedListener DEF Thorough
<1>3. LB # None /\ LB \in Resources /\ Listeners \subseteq Resources
  BY ResourcesAssumption DEF Resources, Children
<1>4. found \ {None} \in SUBSET above /\ (Thorough => found \ {None} = above)
  BY <1>1, <1>2, <1>3
<1>5. IsReport(report) /\ report = StatusOf(changed, found \ {None})
  <2>1. found \in SUBSET (Resources \cup {None})
    BY <1>1, <1>2, <1>3
  <2> QED BY <2>1, StatusOfIsReport, NoneIsNoParent
<1>6. s = IF lb # None /\ listener # None
          THEN reconcile_service(listener, IF members = None THEN pool ELSE None, members,
                                 None, report)
          ELSE Report(report)
  BY DEF PoolStep
<1>7. Carries(s, report)
  <2>1. CASE lb # None /\ listener # None
    <3>1. /\ listener.protocol_port \in Listeners /\ listener.listener_id \in Listeners
          /\ listener.default_pool # None => MembersKnown(listener.default_pool.members)
      BY <2>1, <1>2, ListenerObject
    <3> HIDE DEF lb, listener, report, s
    <3>2. LET p == PoolOf(listener, IF members = None THEN pool ELSE None)
          IN  p # None => MembersKnown(p.members)
      BY <3>1 DEF PoolOf
    <3> QED BY <2>1, <3>1, <3>2, <1>5, <1>6, ReconcileCarries
  <2>2. CASE ~ (lb # None /\ listener # None)
    BY <2>2, <1>5, <1>6, ReportCarries
  <2> QED BY <2>1, <2>2
<1> QED BY <1>4, <1>5, <1>7 DEF Reporting

\* The handlers of members and health monitors: below_pool.
LEMMA BelowPoolReporting ==
  ASSUME RowsTyped(db), NEW p \in Pools, db[p] # None, NEW changed, IsReport(changed),
         NEW gets \in Gets, NEW members, MembersKnown(members), NEW healthmonitor,
         Thorough => (db[p].listener_id # None => db[db[p].listener_id] # None)
  PROVE  Reporting(below_pool(p, changed, gets, members, healthmonitor), changed,
                   {p} \cup AbovePool(p))
<1> DEFINE pool == IF p # None /\ "pool" \in gets THEN ProviderPool(db, p) ELSE None
           lb == IF pool = None THEN None ELSE resolve_loadbalancer(pool.loadbalancer_id, gets)
           listener == IF pool = None THEN None ELSE resolve_listener(pool.listener_id, gets)
           found == {p, IdOf(listener), lb}
           report == StatusOf(changed, found)
           above == {p} \cup AbovePool(p)
           s == below_pool(p, changed, gets, members, healthmonitor)
           l == db[p].listener_id
<1>1. LB # None /\ LB \in Resources /\ Listeners \subseteq Resources /\ p # None
  BY ResourcesAssumption DEF Resources, Children
<1>2. ProviderPool(db, p) # None /\ l \in Listeners \cup {None}
  <2>1. db[p] \in [listener_id : Listeners \cup {None}, lb_algorithm : Algorithms,
                  session_persistence : Persistences \cup {None}]
    BY RowsByKind DEF RowsTyped, Children
  <2>2. ProviderPool(db, p) # None
    BY PoolTyped, NoneAssumption
  <2> QED BY <2>1, <2>2
<1>3. pool # None => /\ pool.loadbalancer_id = LB /\ pool.listener_id = l
                     /\ MembersKnown(pool.members)
  BY PoolObject
<1>4. Thorough => pool # None
  BY <1>1, <1>2, GetsAnswer DEF Thorough
<1>5. lb \in {LB, None} /\ (Thorough => lb = LB)
  BY <1>3, <1>4, ResolvedLoadBalancer DEF Thorough
<1>6. /\ listener # None => /\ pool # None /\ l \in Listeners /\ listener = ProviderListener(db, l)
                            /\ IdOf(listener) = l
      /\ listener = None => IdOf(listener) = None
      /\ Thorough /\ l # None => listener # None
  <2>1. CASE pool = None
    BY <2>1, <1>4 DEF IdOf
  <2>2. CASE pool # None
    BY <2>2, <1>2, <1>3, ResolvedListener DEF Thorough
  <2> QED BY <2>1, <2>2
<1>7. above = {p, LB, l} \ {None} /\ above \in SUBSET Resources
  BY <1>1, <1>2 DEF AbovePool, Resources, Children
<1>8. found \ {None} \in SUBSET above /\ (Thorough => found \ {None} = above)
  BY <1>1, <1>5, <1>6, <1>7
<1>9. IsReport(report) /\ report = StatusOf(changed, found \ {None})
  <2>1. found \in SUBSET (Resources \cup {None})
    BY <1>1, <1>5, <1>6, <1>7
  <2> QED BY <2>1, StatusOfIsReport, NoneIsNoParent
<1>10. s = IF lb # None /\ listener # None
           THEN reconcile_service(listener, pool, members, healthmonitor, report)
           ELSE Report(report)
  BY DEF below_pool
<1>11. Carries(s, report)
  <2>1. CASE lb # None /\ listener # None
    <3>1. /\ listener.protocol_port \in Listeners /\ listener.listener_id \in Listeners
          /\ listener.default_pool # None => MembersKnown(listener.default_pool.members)
      BY <2>1, <1>6, ListenerObject
    <3>2. pool # None => MembersKnown(pool.members)
      BY <1>3
    <3> HIDE DEF lb, listener, pool, report, s
    <3>3. PoolOf(listener, pool) # None => MembersKnown(PoolOf(listener, pool).members)
      BY <3>1, <3>2 DEF PoolOf
    <3> QED BY <2>1, <3>1, <3>3, <1>9, <1>10, ReconcileCarries
  <2>2. CASE ~ (lb # None /\ listener # None)
    BY <2>2, <1>9, <1>10, ReportCarries
  <2> QED BY <2>1, <2>2
<1> QED BY <1>8, <1>9, <1>11 DEF Reporting

\* An update object without the pool: only a report.
LEMMA BelowNoPoolReporting ==
  ASSUME NEW changed, IsReport(changed), NEW gets, NEW members, NEW healthmonitor,
         NEW above, ~ Thorough
  PROVE  Reporting(below_pool(None, changed, gets, members, healthmonitor), changed, above)
<1>1. StatusOf(changed, {None, None, None}) = StatusOf(changed, {})
  <2>1. {None, None, None} \ {None} = {}
    OBVIOUS
  <2> QED BY <2>1, NoneIsNoParent
<1>2. below_pool(None, changed, gets, members, healthmonitor) = Report(StatusOf(changed, {}))
  BY <1>1 DEF below_pool, IdOf
<1>3. IsReport(StatusOf(changed, {}))
  BY StatusOfIsReport
<1> QED BY <1>2, <1>3, ReportCarries DEF Reporting

\* A load balancer that can be read lets the rule be deleted by its address.
LEMMA DeletionIsAsked ==
  ASSUME NEW l \in Listeners, NEW gets \in Gets, ~ GetsMayFail
  PROVE  DeletesListener(deletion_of_listener(l, gets), l)
<1>1. resolve_loadbalancer(LB, gets) = LB /\ LB # None
  BY ResolvedLoadBalancer, ResourcesAssumption DEF Resources
<1> DEFINE report == StatusOf(Only(l, "DELETED"), {LB})
<1>2. deletion_of_listener(l, gets) = Delete(l, report)
  BY <1>1 DEF deletion_of_listener
<1>3. LB \in DOMAIN report
  BY <1>1 DEF StatusOf
<1> HIDE DEF report
<1> QED BY <1>2, <1>3 DEF DeletesListener, Delete

LEMMA DeletionReporting ==
  ASSUME NEW l \in Listeners, NEW gets \in Gets
  PROVE  Reporting(deletion_of_listener(l, gets), Only(l, "DELETED"), {LB})
<1> DEFINE lb == resolve_loadbalancer(LB, gets)
           changed == Only(l, "DELETED")
           report == StatusOf(changed, {lb})
<1>1. LB # None /\ LB \in Resources /\ l \in Resources
  BY ResourcesAssumption DEF Resources, Children
<1>2. lb \in {LB, None} /\ (Thorough => lb = LB)
  BY ResolvedLoadBalancer DEF Thorough
<1>3. IsReport(report) /\ report = StatusOf(changed, {lb} \ {None})
  <2>1. IsReport(changed)
    BY <1>1, OnlyIsReport
  <2>2. {lb} \in SUBSET (Resources \cup {None})
    BY <1>1, <1>2
  <2> HIDE DEF lb, changed
  <2> QED BY <2>1, <2>2, StatusOfIsReport, NoneIsNoParent
<1>4. Carries(deletion_of_listener(l, gets), report)
  <2>1. generate_service_name("unknown_lb", l) \in Names
    BY DEF generate_service_name, Names
  <2> QED BY <2>1, <1>3, DeleteCarries, DeleteByNameCarries DEF deletion_of_listener
<1>5. {lb} \ {None} \in SUBSET {LB} /\ (Thorough => {lb} \ {None} = {LB})
  BY <1>1, <1>2
<1> QED BY <1>3, <1>4, <1>5 DEF Reporting
-----------------------------------------------------------------------------
(* Calls of a single step *)

\* A call of one step that reports on what it changes and on the parents above.
LEMMA SingleStepPlan ==
  ASSUME NEW operation, NEW s, NEW rows, NEW locked, NEW changed,
         NEW above \in SUBSET Resources,
         Serve(operation, <<s>>, rows, Locks(locked, above)),
         IsReport(changed), Reporting(s, changed, above),
         LB \in above, \A r \in above : prov[r] = "ACTIVE",
         above \cap (Members \cup Monitors) = {},
         DOMAIN locked \in SUBSET (Resources \ above),
         \A r \in DOMAIN changed : r \in DOMAIN locked /\ changed[r] = Answer(locked[r]),
         OneReport => DOMAIN changed = DOMAIN locked,
         \A r \in DOMAIN locked :
           \/ prov[r] = "ACTIVE" /\ locked[r] \in {"PENDING_UPDATE", "PENDING_DELETE"}
           \/ prov[r] = "NONE" /\ locked[r] = "PENDING_CREATE" /\ r \in DOMAIN rows
           \/ /\ r \in Members /\ db[r] # None
              /\ prov[db[r].pool_id] = "ACTIVE" /\ db[r].pool_id \in above
              /\ locked[r] \in {"PENDING_UPDATE", "PENDING_DELETE"},
         IsTable(rows), DOMAIN rows \subseteq Children,
         \A r \in DOMAIN rows :
           /\ rows[r] \in Rows(r)
           /\ r \in DOMAIN locked \/ (r \in Pools /\ db[r] # None),
         \A l \in Listeners \cap DOMAIN locked :
           locked[l] = "PENDING_DELETE" /\ ~ GetsMayFail /\ s.report # None =>
             DeletesListener(s, l),
         \A m \in DOMAIN locked \cap (Members \cup Monitors) : Written(rows)[m].pool_id \in above
  PROVE  Planned
<1> DEFINE locks == Locks(locked, above)
           c == [todo |-> <<s>>, rows |-> rows, locks |-> locks, onError |-> None,
                 failed |-> FALSE]
<1>1. call = None /\ call' = c /\ UNCHANGED <<db, prov, rules, reports>>
  BY DEF Serve, ServeOr
<1>2. /\ DOMAIN locks = DOMAIN locked \cup above
      /\ \A r \in DOMAIN locked : locks[r] = locked[r]
      /\ \A r \in above : locks[r] = "PENDING_UPDATE"
  BY DEF Locks
<1>3. PICK ps \in SUBSET above : /\ Carries(s, StatusOf(changed, ps))
                                 /\ Thorough => ps = above
  BY DEF Reporting
<1> DEFINE report == StatusOf(changed, ps)
<1>4. /\ IsReport(report) /\ report # None
      /\ DOMAIN report = DOMAIN changed \cup ps
      /\ \A r \in DOMAIN report :
           report[r] = IF r \in DOMAIN changed THEN changed[r] ELSE "ACTIVE"
  <2>1. ps \in SUBSET (Resources \cup {None}) /\ ps \ {None} = ps /\ IsReport(changed)
    BY ResourcesAssumption
  <2>2. /\ IsReport(report) /\ report # None
        /\ DOMAIN report = DOMAIN changed \cup (ps \ {None})
        /\ \A r \in DOMAIN report :
             report[r] = IF r \in DOMAIN changed THEN changed[r] ELSE "ACTIVE"
    BY ONLY <2>1, StatusOfIsReport
  <2> HIDE DEF report
  <2> QED BY <2>1, <2>2
<1>5. Fits(report, locks)
  <2>1. \A r \in DOMAIN changed : r \in DOMAIN locks /\ locks[r] = locked[r]
    BY <1>2
  <2>2. \A r \in ps : r \in DOMAIN locks /\ locks[r] = "PENDING_UPDATE"
    BY <1>2, <1>3
  <2>3. \A r \in DOMAIN report : r \in DOMAIN locks /\ report[r] = Answer(locks[r])
    <3> HIDE DEF report, locks
    <3> QED BY <2>1, <2>2, <1>4 DEF Answer
  <2> HIDE DEF report, locks
  <2> QED BY <2>3, <1>4 DEF Fits
<1>6. s.report = report \/ (s.verb = "RAISE" /\ s.report = None)
  BY <1>3 DEF Carries
<1> HIDE DEF report, locks
<1>7. Len(c.todo) = 1 /\ DOMAIN c.todo = {1} /\ c.todo[1] = s /\ c.todo # <<>>
  OBVIOUS
<1>8. IsCall(c)
  <2>1. c.todo \in Seq({c.todo[n] : n \in DOMAIN c.todo})
    OBVIOUS
  <2>2. IsTable(locks)
    BY DEF IsTable, Locks, locks
  <2> QED BY <2>1, <2>2 DEF IsCall
<1>9. WellTyped(c)
  <2>1. IsStep(s)
    BY <1>3 DEF Carries
  <2>2. \A n \in 1 .. Len(c.todo) : IsStep(c.todo[n])
    BY <1>7, <2>1
  <2>3. \A r \in DOMAIN c.locks : c.locks[r] \in Pending
    BY <1>2 DEF Pending
  <2> QED BY <2>2, <2>3 DEF WellTyped
<1>10. WellLocked(c)
  <2>1. \A r \in DOMAIN locks : Lockable(r, c)
    BY <1>2 DEF Lockable
  <2> QED BY <1>2, <2>1 DEF WellLocked
<1>11. WellReported(c)
  <2>1. \A n \in 1 .. Len(c.todo) : n = 1 /\ c.todo[n] = s
    BY <1>7
  <2>2. c.onError = None
    OBVIOUS
  <2>3. "cascade" \notin Operations =>
          \A n \in 1 .. Len(c.todo) :
            \/ c.todo[n].report = None
            \/ (n = Len(c.todo) /\ Fits(c.todo[n].report, c.locks))
    BY <2>1, <1>5, <1>6, <1>7
  <2>4. OneReport /\ s.report # None => Members \cap DOMAIN locks \subseteq DOMAIN s.report
    BY <1>2, <1>4, <1>6
  <2>5. Thorough => s.verb = "RAISE" \/ (s.report # None /\ DOMAIN s.report = DOMAIN locks)
    BY <1>2, <1>3, <1>4, <1>6 DEF Thorough
  <2>6. ~ GetsMayFail /\ s.report # None =>
          \A l \in Listeners \cap DOMAIN s.report :
            locks[l] = "PENDING_DELETE" => DeletesListener(s, l)
    BY <1>2, <1>4, <1>6
  <2>7. ~ GetsMayFail =>
          \A n \in 1 .. Len(c.todo) : c.todo[n].report # None =>
            \A l \in Listeners \cap DOMAIN c.todo[n].report :
              c.locks[l] = "PENDING_DELETE" => DeletesListener(c.todo[n], l)
    BY <2>1, <2>6
  <2> QED BY <2>1, <2>2, <2>3, <2>4, <2>5, <2>7, <1>7 DEF WellReported
<1> QED BY <1>1, <1>8, <1>9, <1>10, <1>11 DEF Planned

\* One that changes a single child.
LEMMA SingleChildPlan ==
  ASSUME NEW operation, NEW s, NEW rows, NEW r \in Children, NEW lock \in Pending,
         NEW above \in SUBSET Resources,
         Serve(operation, <<s>>, rows, Locks(Only(r, lock), above)),
         Reporting(s, Only(r, Answer(lock)), above),
         LB \in above, Mutable(above), above \cap (Members \cup Monitors) = {}, r \notin above,
         IF lock = "PENDING_CREATE" THEN prov[r] = "NONE" /\ r \in DOMAIN rows
                                    ELSE prov[r] = "ACTIVE",
         IsTable(rows), DOMAIN rows \subseteq Children,
         \A x \in DOMAIN rows : rows[x] \in Rows(x) /\ (x = r \/ (x \in Pools /\ db[x] # None)),
         r \in Listeners /\ lock = "PENDING_DELETE" /\ ~ GetsMayFail /\ s.report # None =>
           DeletesListener(s, r),
         r \in Members \cup Monitors => Written(rows)[r].pool_id \in above
  PROVE  Planned
<1> DEFINE changed == Only(r, Answer(lock))
           locked == Only(r, lock)
<1>1. r \in Resources /\ Answer(lock) \in {"ACTIVE", "DELETED"}
  BY DEF Resources, Answer
<1>2. IsReport(changed) /\ DOMAIN changed = {r} /\ changed[r] = Answer(lock)
  BY <1>1, OnlyIsReport
<1>3. DOMAIN locked = {r} /\ locked[r] = lock
  BY DEF Only
<1>4. lock # "PENDING_CREATE" => lock \in {"PENDING_UPDATE", "PENDING_DELETE"}
  BY DEF Pending
<1> HIDE DEF changed, locked
<1> QED BY <1>1, <1>2, <1>3, <1>4, SingleStepPlan DEF Mutable, changed, locked
-----------------------------------------------------------------------------
(* The handlers of listeners *)

\* What the handlers may take for granted of the state they begin in.
LEMMA RowsWhereActive ==
  ASSUME TypeInv
  PROVE  /\ RowsTyped(db)
         /\ \A r \in Children : prov[r] = "ACTIVE" => db[r] # None /\ db[r] \in Rows(r)
BY DEF TypeInv, TypeOK, RowsTyped

LEMMA ListenerStepReporting ==
  ASSUME NEW changed, IsReport(changed), NEW gets \in Gets, NEW new,
         new.protocol_port \in Listeners \cup {None}, new.listener_id \in Listeners,
         new.default_pool # None => MembersKnown(new.default_pool.members),
         NEW id \in {LB, None}, Thorough => id = LB
  PROVE  LET lb == resolve_loadbalancer(id, gets)
             report == StatusOf(changed, {lb})
         IN  Reporting(IF lb = None THEN Report(report)
                       ELSE reconcile_service(new, None, None, None, report), changed, {LB})
<1> DEFINE lb == resolve_loadbalancer(id, gets)
           report == StatusOf(changed, {lb})
           s == IF lb = None THEN Report(report)
                ELSE reconcile_service(new, None, None, None, report)
<1>1. LB # None /\ LB \in Resources
  BY ResourcesAssumption DEF Resources
<1>2. lb \in {LB, None} /\ (Thorough => lb = LB)
  BY ResolvedLoadBalancer DEF Thorough
<1>3. IsReport(report) /\ report = StatusOf(changed, {lb} \ {None})
  <2>1. {lb} \in SUBSET (Resources \cup {None})
    BY <1>1, <1>2
  <2> QED BY <2>1, StatusOfIsReport, NoneIsNoParent
<1>4. Carries(s, report)
  <2>1. PoolOf(new, None) # None => MembersKnown(PoolOf(new, None).members)
    BY DEF PoolOf
  <2>2. MembersKnown(None)
    BY DEF MembersKnown
  <2> HIDE DEF report
  <2>3. Carries(Report(report), report)
    BY <1>3, ReportCarries
  <2>4. Carries(reconcile_service(new, None, None, None, report), report)
    BY <2>1, <2>2, <1>3, ReconcileCarries
  <2> QED BY <2>3, <2>4
<1>5. {lb} \ {None} \in SUBSET {LB} /\ (Thorough => {lb} \ {None} = {LB})
  BY <1>1, <1>2
<1> QED BY <1>3, <1>4, <1>5 DEF Reporting

\* The object an update passes: a field of the resource, or None.
LEMMA ShownField ==
  ASSUME NEW kind, NEW object, NEW id, NEW changed, NEW f \in DOMAIN object
  PROVE  Shown(kind, object, id, changed)[f] =
           IF kind = "full" \/ f \in {id} \cup changed THEN object[f] ELSE None
BY DEF Shown

LEMMA ListenerCreatePlan ==
  ASSUME TypeInv, NEW l \in Listeners, listener_create(l)
  PROVE  Planned
<1>1. PICK protocol \in Protocols, gets \in Gets, ps \in {{}} \cup FreePools :
        LET rows == [r \in {l} \cup ps |-> IF r = l THEN [protocol |-> protocol]
                                           ELSE [db[r] EXCEPT !.listener_id = l]]
            lb == resolve_loadbalancer(LB, gets)
            report == StatusOf(Only(l, "ACTIVE"), {lb})
        IN  Serve("listener_create",
                  <<IF lb = None THEN Report(report)
                    ELSE reconcile_service(ProviderListener(Written(rows), l),
                                           None, None, None, report)>>,
                  rows, Locks(Only(l, "PENDING_CREATE"), {LB}))
  BY DEF listener_create, AboveListener
<1> DEFINE rows == [r \in {l} \cup ps |-> IF r = l THEN [protocol |-> protocol]
                                          ELSE [db[r] EXCEPT !.listener_id = l]]
           lb == resolve_loadbalancer(LB, gets)
           report == StatusOf(Only(l, "ACTIVE"), {lb})
           new == ProviderListener(Written(rows), l)
           s == IF lb = None THEN Report(report)
                ELSE reconcile_service(new, None, None, None, report)
<1>2. prov[l] = "NONE" /\ Mutable({LB})
  BY DEF listener_create
<1>3. /\ LB \in Resources /\ l \in Children /\ l # LB /\ {LB} \cap (Members \cup Monitors) = {}
      /\ l \notin Pools \cup Members \cup Monitors
  BY ResourcesAssumption DEF Resources, Children
<1>4. IsReport(Only(l, "ACTIVE"))
  BY <1>3, OnlyIsReport DEF Resources
<1>5. Reporting(s, Only(l, "ACTIVE"), {LB})
  <2>1. /\ new.protocol_port \in Listeners \cup {None} /\ new.listener_id \in Listeners
        /\ new.default_pool # None => MembersKnown(new.default_pool.members)
    BY ListenerObject
  <2> HIDE DEF new
  <2> QED BY <2>1, <1>4, ListenerStepReporting
<1>6. DOMAIN rows \subseteq Children /\ l \in DOMAIN rows /\ IsTable(rows)
  BY DEF FreePools, Children, IsTable
<1>7. \A x \in DOMAIN rows : rows[x] \in Rows(x) /\ (x = l \/ (x \in Pools /\ db[x] # None))
  <2>1. rows[l] \in Rows(l)
    BY RowsByKind
  <2>2. ASSUME NEW x \in ps PROVE rows[x] \in Rows(x) /\ x \in Pools /\ db[x] # None
    <3>1. x \in Pools /\ x # l /\ db[x] # None
      BY <1>3, RowsWhereActive DEF FreePools, Children
    <3>2. db[x] \in [listener_id : Listeners \cup {None}, lb_algorithm : Algorithms,
                     session_persistence : Persistences \cup {None}]
      BY <3>1, RowsByKind, RowsWhereActive DEF RowsTyped, Children
    <3>3. rows[x] = [db[x] EXCEPT !.listener_id = l]
      BY <3>1
    <3> QED BY <3>1, <3>2, <3>3, RowsByKind
  <2> QED BY <2>1, <2>2
<1>8. Serve("listener_create", <<s>>, rows, Locks(Only(l, "PENDING_CREATE"), {LB}))
  BY <1>1
<1>9. Answer("PENDING_CREATE") = "ACTIVE" /\ "PENDING_CREATE" \in Pending
  BY DEF Answer, Pending
<1> HIDE DEF s, rows
<1> QED BY <1>2, <1>3, <1>5, <1>6, <1>7, <1>8, <1>9, SingleChildPlan

LEMMA ListenerUpdatePlan ==
  ASSUME TypeInv, NEW l \in Listeners, listener_update(l)
  PROVE  Planned
<1>1. PICK kind \in UpdateObjects, gets \in Gets, ps \in {{}, DefaultPools(db, l)} \cup FreePools :
        LET rows == [r \in ps \cup DefaultPools(db, l) |->
                       [db[r] EXCEPT !.listener_id = IF r \in ps THEN l ELSE None]]
            new == Shown(kind, ProviderListener(Written(rows), l), "listener_id",
                         IF ps = DefaultPools(db, l) THEN {} ELSE {"default_pool"})
            lb == resolve_loadbalancer(new.loadbalancer_id, gets)
            report == StatusOf(Only(l, "ACTIVE"), {lb})
        IN  Serve("listener_update",
                  <<IF lb = None THEN Report(report)
                    ELSE reconcile_service(new, None, None, None, report)>>,
                  rows, Locks(Only(l, "PENDING_UPDATE"), {LB}))
  BY DEF listener_update, AboveListener
<1> DEFINE rows == [r \in ps \cup DefaultPools(db, l) |->
                      [db[r] EXCEPT !.listener_id = IF r \in ps THEN l ELSE None]]
           object == ProviderListener(Written(rows), l)
           changed == IF ps = DefaultPools(db, l) THEN {} ELSE {"default_pool"}
           new == Shown(kind, object, "listener_id", changed)
           lb == resolve_loadbalancer(new.loadbalancer_id, gets)
           report == StatusOf(Only(l, "ACTIVE"), {lb})
           s == IF lb = None THEN Report(report)
                ELSE reconcile_service(new, None, None, None, report)
<1>2. Mutable({LB, l})
  BY DEF listener_update
<1>3. /\ LB \in Resources /\ l \in Children /\ l # LB /\ {LB} \cap (Members \cup Monitors) = {}
      /\ l \notin Pools \cup Members \cup Monitors
  BY ResourcesAssumption DEF Resources, Children
<1>4. IsReport(Only(l, "ACTIVE"))
  BY <1>3, OnlyIsReport DEF Resources
<1>5. Reporting(s, Only(l, "ACTIVE"), {LB})
  <2>1. /\ object.protocol_port = l /\ object.listener_id = l /\ object.loadbalancer_id = LB
        /\ object.default_pool # None => MembersKnown(object.default_pool.members)
    BY ListenerObject
  <2>2. {"protocol_port", "listener_id", "loadbalancer_id", "default_pool"} \subseteq DOMAIN object
    BY DEF ProviderListener
  <2> HIDE DEF object, changed
  <2>3. /\ new.protocol_port \in {l, None} /\ new.listener_id = l
        /\ new.default_pool \in {object.default_pool, None}
        /\ new.loadbalancer_id \in {LB, None}
        /\ kind = "full" => new.loadbalancer_id = LB
    BY <2>1, <2>2, ShownField
  <2>4. Thorough => kind = "full"
    BY OptionsAssumption DEF Thorough
  <2> HIDE DEF new
  <2> QED BY <2>1, <2>3, <2>4, <1>4, ListenerStepReporting
<1>6. DOMAIN rows \subseteq Children /\ IsTable(rows)
  BY DEF FreePools, Children, DefaultPools, IsTable
<1>7. \A x \in DOMAIN rows : rows[x] \in Rows(x) /\ (x = l \/ (x \in Pools /\ db[x] # None))
  <2> SUFFICES ASSUME NEW x \in ps \cup DefaultPools(db, l)
               PROVE  rows[x] \in Rows(x) /\ x \in Pools /\ db[x] # None
    OBVIOUS
  <2>1. x \in Pools /\ db[x] # None
    BY RowsWhereActive DEF FreePools, DefaultPools, Children
  <2>2. db[x] \in [listener_id : Listeners \cup {None}, lb_algorithm : Algorithms,
                   session_persistence : Persistences \cup {None}]
    BY <2>1, RowsByKind, RowsWhereActive DEF RowsTyped, Children
  <2>3. rows[x] = [db[x] EXCEPT !.listener_id = IF x \in ps THEN l ELSE None]
    OBVIOUS
  <2> QED BY <2>1, <2>2, <2>3, RowsByKind
<1>8. Serve("listener_update", <<s>>, rows, Locks(Only(l, "PENDING_UPDATE"), {LB}))
  BY <1>1
<1>9. Answer("PENDING_UPDATE") = "ACTIVE" /\ "PENDING_UPDATE" \in Pending
  BY DEF Answer, Pending
<1>10. prov[l] = "ACTIVE" /\ Mutable({LB})
  BY <1>2 DEF Mutable
<1> HIDE DEF s, rows
<1> QED BY <1>3, <1>5, <1>6, <1>7, <1>8, <1>9, <1>10, SingleChildPlan

LEMMA ListenerDeletePlan ==
  ASSUME TypeInv, NEW l \in Listeners, listener_delete(l)
  PROVE  Planned
<1>1. PICK gets \in Gets :
        Serve("listener_delete", <<deletion_of_listener(l, gets)>>, NoRows,
              Locks(Only(l, "PENDING_DELETE"), {LB}))
  BY DEF listener_delete, AboveListener
<1>2. prov[l] = "ACTIVE" /\ Mutable({LB})
  BY DEF listener_delete, Mutable
<1>3. /\ LB \in Resources /\ l \in Children /\ l # LB /\ {LB} \cap (Members \cup Monitors) = {}
      /\ l \notin Pools \cup Members \cup Monitors
  BY ResourcesAssumption DEF Resources, Children
<1>4. /\ Reporting(deletion_of_listener(l, gets), Only(l, "DELETED"), {LB})
      /\ ~ GetsMayFail => DeletesListener(deletion_of_listener(l, gets), l)
  BY DeletionReporting, DeletionIsAsked
<1>5. Answer("PENDING_DELETE") = "DELETED" /\ "PENDING_DELETE" \in Pending
  BY DEF Answer, Pending
<1>6. DOMAIN NoRows = {} /\ IsTable(NoRows)
  BY TablesMade DEF NoRows
<1> QED BY <1>1, <1>2, <1>3, <1>4, <1>5, <1>6, SingleChildPlan

LEMMA L7Plan ==
  ASSUME TypeInv, NEW l \in Listeners, l7policy_or_l7rule(l)
  PROVE  Planned
<1>1. Serve("l7", <<Raise>>, NoRows, Locks(Only(l, "PENDING_UPDATE"), {LB}))
  BY DEF l7policy_or_l7rule, AboveListener
<1>2. prov[l] = "ACTIVE" /\ Mutable({LB})
  BY DEF l7policy_or_l7rule, Mutable
<1>3. /\ LB \in Resources /\ l \in Children /\ l # LB /\ {LB} \cap (Members \cup Monitors) = {}
      /\ l \notin Pools \cup Members \cup Monitors
  BY ResourcesAssumption DEF Resources, Children
<1>4. Reporting(Raise, Only(l, "ACTIVE"), {LB})
  BY RaiseCarries DEF Reporting
<1>5. Answer("PENDING_UPDATE") = "ACTIVE" /\ "PENDING_UPDATE" \in Pending
  BY DEF Answer, Pending
<1>6. DOMAIN NoRows = {} /\ IsTable(NoRows)
  BY TablesMade DEF NoRows
<1> QED BY <1>1, <1>2, <1>3, <1>4, <1>5, <1>6, SingleChildPlan
-----------------------------------------------------------------------------
(* The handlers of pools *)

LEMMA AbovePoolFacts ==
  ASSUME TypeInv, NEW p \in Pools, prov[p] = "ACTIVE", Mutable(AbovePool(p))
  PROVE  /\ db[p] # None
         /\ db[p] \in [listener_id : Listeners \cup {None}, lb_algorithm : Algorithms,
                       session_persistence : Persistences \cup {None}]
         /\ AbovePool(p) = {LB, db[p].listener_id} \ {None}
         /\ AbovePool(p) \in SUBSET Resources /\ LB \in AbovePool(p)
         /\ AbovePool(p) \cap (Pools \cup Members \cup Monitors) = {}
         /\ db[p].listener_id # None => db[db[p].listener_id] # None
<1>1. db[p] # None /\ db[p] \in Rows(p)
  BY RowsWhereActive DEF Children
<1>2. db[p] \in [listener_id : Listeners \cup {None}, lb_algorithm : Algorithms,
                 session_persistence : Persistences \cup {None}]
  BY <1>1, RowsByKind
<1>3. LB # None
  BY ResourcesAssumption DEF Resources
<1>4. AbovePool(p) = {LB, db[p].listener_id} \ {None}
  BY <1>3 DEF AbovePool
<1>5. db[p].listener_id # None =>
        db[p].listener_id \in Listeners /\ prov[db[p].listener_id] = "ACTIVE"
  BY <1>2, <1>4 DEF Mutable
<1>6. db[p].listener_id # None => db[db[p].listener_id] # None
  BY <1>5, RowsWhereActive DEF Children
<1> QED BY <1>1, <1>2, <1>3, <1>4, <1>5, <1>6, ResourcesAssumption DEF Resources, Children

LEMMA PoolCreatePlan ==
  ASSUME TypeInv, NEW p \in Pools, pool_create(p)
  PROVE  Planned
<1>1. PICK l \in {None} \cup {k \in Listeners : prov[k] = "ACTIVE" /\ DefaultPools(db, k) = {}},
           algorithm \in Algorithms, persistence \in Persistences \cup {None}, gets \in Gets :
        LET row == [listener_id |-> l, lb_algorithm |-> algorithm,
                    session_persistence |-> persistence]
            above == {LB, l} \ {None}
        IN  /\ Mutable(above)
            /\ Serve("pool_create",
                     <<PoolStep(ProviderPool(Written(Only(p, row)), p), Only(p, "ACTIVE"),
                                gets, None)>>,
                     Only(p, row), Locks(Only(p, "PENDING_CREATE"), above))
  BY DEF pool_create
<1> DEFINE row == [listener_id |-> l, lb_algorithm |-> algorithm,
                   session_persistence |-> persistence]
           above == {LB, l} \ {None}
           rows == Only(p, row)
           pool == ProviderPool(Written(rows), p)
           s == PoolStep(pool, Only(p, "ACTIVE"), gets, None)
<1>2. prov[p] = "NONE"
  BY DEF pool_create
<1>3. /\ p \in Children /\ p \notin above /\ above \cap (Members \cup Monitors) = {}
      /\ p \notin Members \cup Monitors /\ above \in SUBSET Resources /\ LB \in above
  BY ResourcesAssumption DEF Resources, Children
<1>4. IsReport(Only(p, "ACTIVE"))
  BY <1>3, OnlyIsReport DEF Resources
<1>5. DOMAIN rows = {p} /\ rows[p] = row /\ Written(rows)[p] = row /\ IsTable(rows)
  BY <1>3, TablesMade DEF Only, Written
<1>6. row \in Rows(p)
  BY RowsByKind
<1>7. l # None => db[l] # None
  BY RowsWhereActive DEF Children
<1>8. Reporting(s, Only(p, "ACTIVE"), above)
  <2>1. pool.loadbalancer_id = LB /\ pool.listener_id = l /\ MembersKnown(pool.members)
    BY <1>5, PoolObject
  <2>2. MembersKnown(None)
    BY DEF MembersKnown
  <2>3. RowsTyped(db)
    BY RowsWhereActive
  <2> HIDE DEF pool
  <2> QED BY <2>1, <2>2, <2>3, <1>3, <1>4, <1>7, PoolStepReporting
<1>9. Serve("pool_create", <<s>>, rows, Locks(Only(p, "PENDING_CREATE"), above)) /\ Mutable(above)
  BY <1>1
<1>10. Answer("PENDING_CREATE") = "ACTIVE" /\ "PENDING_CREATE" \in Pending
  BY DEF Answer, Pending
<1> HIDE DEF s, rows, row, above
<1> QED BY <1>2, <1>3, <1>5, <1>6, <1>8, <1>9, <1>10, SingleChildPlan

LEMMA PoolUpdatePlan ==
  ASSUME TypeInv, NEW p \in Pools, pool_update(p)
  PROVE  Planned
<1>1. PICK kind \in UpdateObjects, algorithm \in Algorithms,
           persistence \in Persistences \cup {None}, gets \in Gets :
        LET row == [db[p] EXCEPT !.lb_algorithm = algorithm,
                                 !.session_persistence = persistence]
            new == Shown(kind, ProviderPool(Written(Only(p, row)), p), "pool_id",
                         {"lb_algorithm", "session_persistence"})
        IN  Serve("pool_update", <<PoolStep(new, Only(p, "ACTIVE"), gets, None)>>,
                  Only(p, row), Locks(Only(p, "PENDING_UPDATE"), AbovePool(p)))
  BY DEF pool_update
<1> DEFINE row == [db[p] EXCEPT !.lb_algorithm = algorithm,
                                !.session_persistence = persistence]
           rows == Only(p, row)
           object == ProviderPool(Written(rows), p)
           changed == {"lb_algorithm", "session_persistence"}
           new == Shown(kind, object, "pool_id", changed)
           s == PoolStep(new, Only(p, "ACTIVE"), gets, None)
           above == AbovePool(p)
           l == db[p].listener_id
<1>2. prov[p] = "ACTIVE" /\ Mutable(above)
  BY DEF pool_update
<1>3. /\ db[p] # None
      /\ db[p] \in [listener_id : Listeners \cup {None}, lb_algorithm : Algorithms,
                    session_persistence : Persistences \cup {None}]
      /\ above = {LB, l} \ {None} /\ above \in SUBSET Resources /\ LB \in above
      /\ above \cap (Pools \cup Members \cup Monitors) = {}
      /\ l # None => db[l] # None
  BY <1>2, AbovePoolFacts
<1>4. p \in Children /\ p \notin above /\ p \notin Members \cup Monitors
  BY <1>3, ResourcesAssumption DEF Resources, Children
<1>5. IsReport(Only(p, "ACTIVE"))
  BY <1>4, OnlyIsReport DEF Resources
<1>6. row \in Rows(p) /\ row.listener_id = l
  BY <1>3, RowsByKind
<1>7. DOMAIN rows = {p} /\ rows[p] = row /\ Written(rows)[p] = row /\ IsTable(rows)
  BY <1>4, TablesMade DEF Only, Written
<1>8. Reporting(s, Only(p, "ACTIVE"), above)
  <2> HIDE DEF rows, row, l
  <2>0. Written(rows)[p].listener_id = l
    BY <1>6, <1>7
  <2>1. object.loadbalancer_id = LB /\ object.listener_id = l /\ MembersKnown(object.members)
    BY <2>0, PoolObject
  <2>2. {"loadbalancer_id", "listener_id", "members"} \subseteq DOMAIN object
    BY DEF ProviderPool
  <2> HIDE DEF object
  <2>3. /\ new.loadbalancer_id \in {LB, None} /\ new.listener_id \in {l, None}
        /\ new.members \in {object.members, None}
        /\ kind = "full" => new.loadbalancer_id = LB /\ new.listener_id = l
    BY <2>1, <2>2, ShownField
  <2>4. Thorough => kind = "full"
    BY OptionsAssumption DEF Thorough
  <2>5. MembersKnown(None) /\ MembersKnown(new.members)
    BY <2>1, <2>3 DEF MembersKnown
  <2>6. RowsTyped(db) /\ l \in Listeners \cup {None}
    BY <1>3, RowsWhereActive DEF l
  <2> HIDE DEF new, above, l
  <2> QED BY <2>3, <2>4, <2>5, <2>6, <1>3, <1>5, PoolStepReporting
<1>9. Serve("pool_update", <<s>>, rows, Locks(Only(p, "PENDING_UPDATE"), above))
  BY <1>1
<1>10. Answer("PENDING_UPDATE") = "ACTIVE" /\ "PENDING_UPDATE" \in Pending
  BY DEF Answer, Pending
<1> HIDE DEF s, rows, row, above
<1> QED BY <1>2, <1>3, <1>4, <1>6, <1>7, <1>8, <1>9, <1>10, SingleChildPlan

LEMMA PoolDeletePlan ==
  ASSUME TypeInv, NEW p \in Pools, pool_delete(p)
  PROVE  Planned
<1> DEFINE pool == ProviderPool(db, p)
           above == AbovePool(p)
           l == db[p].listener_id
<1>1. PICK gets \in Gets :
        Serve("pool_delete", <<PoolStep(pool, Only(p, "DELETED"), gets, {})>>,
              NoRows, Locks(Only(p, "PENDING_DELETE"), above))
  BY DEF pool_delete
<1>2. prov[p] = "ACTIVE" /\ Mutable(above)
  BY DEF pool_delete
<1>3. /\ l \in Listeners \cup {None}
      /\ above = {LB, l} \ {None} /\ above \in SUBSET Resources /\ LB \in above
      /\ above \cap (Pools \cup Members \cup Monitors) = {}
      /\ l # None => db[l] # None
  BY <1>2, AbovePoolFacts
<1>4. p \in Children /\ p \notin above /\ p \notin Listeners \cup Members \cup Monitors
  BY <1>3, ResourcesAssumption DEF Resources, Children
<1>5. IsReport(Only(p, "DELETED"))
  BY <1>4, OnlyIsReport DEF Resources
<1>6. Reporting(PoolStep(pool, Only(p, "DELETED"), gets, {}), Only(p, "DELETED"), above)
  <2>1. pool.loadbalancer_id = LB /\ pool.listener_id = l /\ MembersKnown(pool.members)
    BY PoolObject
  <2>2. MembersKnown({})
    BY DEF MembersKnown
  <2>3. RowsTyped(db)
    BY RowsWhereActive
  <2> HIDE DEF pool, above, l
  <2> QED BY <2>1, <2>2, <2>3, <1>3, <1>5, PoolStepReporting
<1>7. Answer("PENDING_DELETE") = "DELETED" /\ "PENDING_DELETE" \in Pending
  BY DEF Answer, Pending
<1>8. DOMAIN NoRows = {} /\ IsTable(NoRows)
  BY TablesMade DEF NoRows
<1> HIDE DEF pool, above
<1> QED BY <1>1, <1>2, <1>3, <1>4, <1>6, <1>7, <1>8, SingleChildPlan
-----------------------------------------------------------------------------
(* The handlers of members and health monitors *)

LEMMA BelowPoolPlan ==
  ASSUME TypeInv, NEW p \in Pools, PoolIsMutable(p), NEW r \in Members \cup Monitors,
         NEW lock \in Pending, NEW operation, NEW s, NEW rows,
         Serve(operation, <<s>>, rows, LocksBelow(p, Only(r, lock))),
         Reporting(s, Only(r, Answer(lock)), {p} \cup AbovePool(p)),
         IF lock = "PENDING_CREATE" THEN prov[r] = "NONE" /\ r \in DOMAIN rows
                                    ELSE prov[r] = "ACTIVE",
         IsTable(rows), DOMAIN rows \subseteq {r},
         IF r \in DOMAIN rows THEN rows[r] \in Rows(r) /\ rows[r].pool_id = p
                              ELSE db[r].pool_id = p
  PROVE  Planned
<1> DEFINE above == {p} \cup AbovePool(p)
<1>1. prov[p] = "ACTIVE" /\ Mutable(AbovePool(p))
  BY DEF PoolIsMutable
<1>2. /\ AbovePool(p) \in SUBSET Resources /\ LB \in AbovePool(p)
      /\ AbovePool(p) \cap (Pools \cup Members \cup Monitors) = {}
  BY <1>1, AbovePoolFacts
<1>3. /\ r \in Children /\ r \notin above /\ above \cap (Members \cup Monitors) = {}
      /\ above \in SUBSET Resources /\ LB \in above
  BY <1>2, ResourcesAssumption DEF Resources, Children
<1>4. Mutable(above)
  BY <1>1 DEF Mutable
<1>5. Serve(operation, <<s>>, rows, Locks(Only(r, lock), above))
  BY DEF LocksBelow
<1>6. Written(rows)[r].pool_id = p
  BY <1>3 DEF Written
<1>7. p \in above
  OBVIOUS
<1> HIDE DEF above
<1>8. DOMAIN rows \subseteq Children
  BY <1>3
<1>9. /\ \A x \in DOMAIN rows : rows[x] \in Rows(x) /\ (x = r \/ (x \in Pools /\ db[x] # None))
      /\ r \notin Listeners
  BY ResourcesAssumption
<1>10. Reporting(s, Only(r, Answer(lock)), above)
  BY DEF above
<1> QED BY <1>3, <1>4, <1>5, <1>6, <1>7, <1>8, <1>9, <1>10, SingleChildPlan

\* The pool of an update object: the pool, or None.
LEMMA BelowShownPoolReporting ==
  ASSUME TypeInv, NEW p \in Pools, PoolIsMutable(p), NEW kind \in UpdateObjects,
         NEW pool_id, pool_id = (IF kind = "full" THEN p ELSE None),
         NEW changed, IsReport(changed), NEW gets \in Gets,
         NEW members, MembersKnown(members), NEW healthmonitor
  PROVE  Reporting(below_pool(pool_id, changed, gets, members, healthmonitor), changed,
                   {p} \cup AbovePool(p))
<1>1. db[p] # None /\ (db[p].listener_id # None => db[db[p].listener_id] # None)
  BY AbovePoolFacts DEF PoolIsMutable
<1>2. CASE kind = "full"
  BY <1>1, <1>2, RowsWhereActive, BelowPoolReporting
<1>3. CASE kind # "full"
  <2>1. ~ Thorough
    BY <1>3, OptionsAssumption DEF Thorough
  <2> QED BY <2>1, <1>3, BelowNoPoolReporting
<1> QED BY <1>2, <1>3

LEMMA BelowKnownPoolReporting ==
  ASSUME TypeInv, NEW p \in Pools, PoolIsMutable(p),
         NEW changed, IsReport(changed), NEW gets \in Gets,
         NEW members, MembersKnown(members), NEW healthmonitor
  PROVE  Reporting(below_pool(p, changed, gets, members, healthmonitor), changed,
                   {p} \cup AbovePool(p))
<1>1. db[p] # None /\ (db[p].listener_id # None => db[db[p].listener_id] # None)
  BY AbovePoolFacts DEF PoolIsMutable
<1> QED BY <1>1, RowsWhereActive, BelowPoolReporting

LEMMA LockFacts ==
  /\ Answer("PENDING_CREATE") = "ACTIVE" /\ Answer("PENDING_UPDATE") = "ACTIVE"
  /\ Answer("PENDING_DELETE") = "DELETED"
  /\ {"PENDING_CREATE", "PENDING_UPDATE", "PENDING_DELETE"} = Pending
BY DEF Answer, Pending

LEMMA BelowReport ==
  ASSUME NEW r \in Members \cup Monitors, NEW value \in {"ACTIVE", "DELETED"}
  PROVE  r \in Children /\ IsReport(Only(r, value))
<1>1. r \in Resources /\ r \in Children
  BY DEF Resources, Children
<1> QED BY <1>1, OnlyIsReport

LEMMA MemberCreatePlan ==
  ASSUME TypeInv, NEW m \in Members, member_create(m)
  PROVE  Planned
<1>1. PICK p \in Pools, up \in BOOLEAN, gets \in Gets :
        LET row == [pool_id |-> p, admin_state_up |-> up]
            new == ProviderMember(Written(Only(m, row)), m)
        IN  /\ PoolIsMutable(p)
            /\ Serve("member_create",
                     <<below_pool(p, Only(m, "ACTIVE"), gets,
                                  with_member(ProviderPool(db, p).members, new), None)>>,
                     Only(m, row), LocksBelow(p, Only(m, "PENDING_CREATE")))
  BY DEF member_create
<1> DEFINE row == [pool_id |-> p, admin_state_up |-> up]
           rows == Only(m, row)
           members == with_member(ProviderPool(db, p).members, ProviderMember(Written(rows), m))
           s == below_pool(p, Only(m, "ACTIVE"), gets, members, None)
<1>2. PoolIsMutable(p) /\ prov[m] = "NONE"
  BY <1>1 DEF member_create
<1>3. DOMAIN rows = {m} /\ rows[m] = row /\ IsTable(rows)
  BY TablesMade DEF Only
<1>4. row \in Rows(m) /\ row.pool_id = p
  BY RowsByKind
<1>5. MembersKnown(members)
  <2>1. MembersKnown(ProviderPool(db, p).members) /\ ProviderPool(db, p).members # None
        => MembersKnown(members)
    BY DEF MembersKnown, with_member, ProviderMember
  <2>2. \A x \in ProviderPool(db, p).members : x.member_id \in Members
    BY DEF ProviderPool, ProviderMember, InPool
  <2> QED BY <2>2 DEF MembersKnown, with_member, ProviderMember
<1>6. Reporting(s, Only(m, "ACTIVE"), {p} \cup AbovePool(p))
  BY <1>2, <1>5, BelowReport, BelowKnownPoolReporting
<1>7. Serve("member_create", <<s>>, rows, LocksBelow(p, Only(m, "PENDING_CREATE")))
  BY <1>1
<1> HIDE DEF s, rows, row
<1> QED BY <1>2, <1>3, <1>4, <1>6, <1>7, LockFacts, BelowPoolPlan

LEMMA MemberUpdatePlan ==
  ASSUME TypeInv, NEW m \in Members, member_update(m)
  PROVE  Planned
<1> DEFINE p == db[m].pool_id
           row == [db[m] EXCEPT !.admin_state_up = ~ @]
           rows == Only(m, row)
           object == ProviderMember(Written(rows), m)
<1>1. PICK kind \in UpdateObjects, gets \in Gets :
        Serve("member_update",
              <<below_pool(Shown(kind, object, "member_id", {"admin_state_up"}).pool_id,
                           Only(m, "ACTIVE"), gets, None, None)>>,
              rows, LocksBelow(p, Only(m, "PENDING_UPDATE")))
  BY DEF member_update
<1> DEFINE new == Shown(kind, object, "member_id", {"admin_state_up"})
           s == below_pool(new.pool_id, Only(m, "ACTIVE"), gets, None, None)
<1>2. PoolIsMutable(p) /\ prov[m] = "ACTIVE"
  BY DEF member_update
<1>3. m \in Children /\ db[m] \in [pool_id : Pools, admin_state_up : BOOLEAN]
  BY <1>2, RowsWhereActive, RowsByKind DEF Children
<1>4. row \in Rows(m) /\ row.pool_id = p /\ p \in Pools
  BY <1>3, RowsByKind
<1>5. DOMAIN rows = {m} /\ rows[m] = row /\ Written(rows)[m] = row /\ IsTable(rows)
  BY <1>3, TablesMade DEF Only, Written
<1> HIDE DEF rows, row, p
<1>6. new.pool_id = IF kind = "full" THEN p ELSE None
  <2>1. object.pool_id = p /\ "pool_id" \in DOMAIN object
    BY <1>4, <1>5 DEF ProviderMember
  <2> HIDE DEF object
  <2> QED BY <2>1, ShownField
<1>7. Reporting(s, Only(m, "ACTIVE"), {p} \cup AbovePool(p))
  <2>1. MembersKnown(None)
    BY DEF MembersKnown
  <2> HIDE DEF new
  <2> QED BY <2>1, <1>2, <1>4, <1>6, BelowReport, BelowShownPoolReporting
<1> HIDE DEF s
<1>8. Serve("member_update", <<s>>, rows, LocksBelow(p, Only(m, "PENDING_UPDATE")))
  BY <1>1 DEF s
<1> QED BY <1>2, <1>4, <1>5, <1>7, <1>8, LockFacts, BelowPoolPlan

LEMMA MemberDeletePlan ==
  ASSUME TypeInv, NEW m \in Members, member_delete(m)
  PROVE  Planned
<1> DEFINE p == db[m].pool_id
           members == without_member(ProviderPool(db, p).members, m)
<1>1. PICK gets \in Gets :
        Serve("member_delete", <<below_pool(p, Only(m, "DELETED"), gets, members, None)>>,
              NoRows, LocksBelow(p, Only(m, "PENDING_DELETE")))
  BY DEF member_delete
<1> DEFINE s == below_pool(p, Only(m, "DELETED"), gets, members, None)
<1>2. PoolIsMutable(p) /\ prov[m] = "ACTIVE"
  BY DEF member_delete
<1>3. m \in Children /\ db[m] \in [pool_id : Pools, admin_state_up : BOOLEAN]
  BY <1>2, RowsWhereActive, RowsByKind DEF Children
<1>4. p \in Pools
  BY <1>3
<1>5. MembersKnown(members)
  BY DEF MembersKnown, without_member, ProviderPool, ProviderMember, InPool
<1>6. Reporting(s, Only(m, "DELETED"), {p} \cup AbovePool(p))
  <2> HIDE DEF p, members
  <2> QED BY <1>2, <1>4, <1>5, BelowReport, BelowKnownPoolReporting
<1>7. DOMAIN NoRows = {} /\ IsTable(NoRows)
  BY TablesMade DEF NoRows
<1>8. Serve("member_delete", <<s>>, NoRows, LocksBelow(p, Only(m, "PENDING_DELETE")))
  BY <1>1
<1> HIDE DEF s
<1> QED BY <1>2, <1>4, <1>6, <1>7, <1>8, LockFacts, BelowPoolPlan

LEMMA MonitorCreatePlan ==
  ASSUME TypeInv, NEW h \in Monitors, health_monitor_create(h)
  PROVE  Planned
<1>1. PICK p \in Pools, type \in MonitorTypes, up \in BOOLEAN, gets \in Gets :
        LET row == [pool_id |-> p, type |-> type, admin_state_up |-> up]
        IN  /\ PoolIsMutable(p)
            /\ Serve("health_monitor_create",
                     <<below_pool(p, Only(h, "ACTIVE"), gets, None,
                                  ProviderMonitor(Written(Only(h, row)), h))>>,
                     Only(h, row), LocksBelow(p, Only(h, "PENDING_CREATE")))
  BY DEF health_monitor_create
<1> DEFINE row == [pool_id |-> p, type |-> type, admin_state_up |-> up]
           rows == Only(h, row)
           s == below_pool(p, Only(h, "ACTIVE"), gets, None, ProviderMonitor(Written(rows), h))
<1>2. PoolIsMutable(p) /\ prov[h] = "NONE"
  BY <1>1 DEF health_monitor_create
<1>3. DOMAIN rows = {h} /\ rows[h] = row /\ IsTable(rows)
  BY TablesMade DEF Only
<1>4. row \in Rows(h) /\ row.pool_id = p
  BY RowsByKind
<1>5. Reporting(s, Only(h, "ACTIVE"), {p} \cup AbovePool(p))
  <2>1. MembersKnown(None)
    BY DEF MembersKnown
  <2> QED BY <2>1, <1>2, BelowReport, BelowKnownPoolReporting
<1>6. Serve("health_monitor_create", <<s>>, rows, LocksBelow(p, Only(h, "PENDING_CREATE")))
  BY <1>1
<1> HIDE DEF s, rows, row
<1> QED BY <1>2, <1>3, <1>4, <1>5, <1>6, LockFacts, BelowPoolPlan

LEMMA MonitorUpdatePlan ==
  ASSUME TypeInv, NEW h \in Monitors, health_monitor_update(h)
  PROVE  Planned
<1> DEFINE p == db[h].pool_id
           row == [db[h] EXCEPT !.admin_state_up = ~ @]
           rows == Only(h, row)
           object == ProviderMonitor(Written(rows), h)
<1>1. PICK kind \in UpdateObjects, gets \in Gets :
        LET new == Shown(kind, object, "healthmonitor_id", {"admin_state_up"})
        IN  Serve("health_monitor_update",
                  <<below_pool(new.pool_id, Only(h, "ACTIVE"), gets, None, new)>>,
                  rows, LocksBelow(p, Only(h, "PENDING_UPDATE")))
  BY DEF health_monitor_update
<1> DEFINE new == Shown(kind, object, "healthmonitor_id", {"admin_state_up"})
           s == below_pool(new.pool_id, Only(h, "ACTIVE"), gets, None, new)
<1>2. PoolIsMutable(p) /\ prov[h] = "ACTIVE"
  BY DEF health_monitor_update
<1>3. h \in Children /\ db[h] \in [pool_id : Pools, type : MonitorTypes, admin_state_up : BOOLEAN]
  BY <1>2, RowsWhereActive, RowsByKind DEF Children
<1>4. row \in Rows(h) /\ row.pool_id = p /\ p \in Pools
  BY <1>3, RowsByKind
<1>5. DOMAIN rows = {h} /\ rows[h] = row /\ Written(rows)[h] = row /\ IsTable(rows)
  BY <1>3, TablesMade DEF Only, Written
<1> HIDE DEF rows, row, p
<1>6. new.pool_id = IF kind = "full" THEN p ELSE None
  <2>1. object.pool_id = p /\ "pool_id" \in DOMAIN object
    BY <1>4, <1>5 DEF ProviderMonitor
  <2> HIDE DEF object
  <2> QED BY <2>1, ShownField
<1>7. Reporting(s, Only(h, "ACTIVE"), {p} \cup AbovePool(p))
  <2>1. MembersKnown(None)
    BY DEF MembersKnown
  <2> HIDE DEF new
  <2> QED BY <2>1, <1>2, <1>4, <1>6, BelowReport, BelowShownPoolReporting
<1> HIDE DEF s
<1>8. Serve("health_monitor_update", <<s>>, rows, LocksBelow(p, Only(h, "PENDING_UPDATE")))
  BY <1>1 DEF s
<1> QED BY <1>2, <1>4, <1>5, <1>7, <1>8, LockFacts, BelowPoolPlan

LEMMA MonitorDeletePlan ==
  ASSUME TypeInv, NEW h \in Monitors, health_monitor_delete(h)
  PROVE  Planned
<1> DEFINE p == db[h].pool_id
<1>1. PICK gets \in Gets :
        Serve("health_monitor_delete", <<below_pool(p, Only(h, "DELETED"), gets, None, None)>>,
              NoRows, LocksBelow(p, Only(h, "PENDING_DELETE")))
  BY DEF health_monitor_delete
<1> DEFINE s == below_pool(p, Only(h, "DELETED"), gets, None, None)
<1>2. PoolIsMutable(p) /\ prov[h] = "ACTIVE"
  BY DEF health_monitor_delete
<1>3. h \in Children /\ db[h] \in [pool_id : Pools, type : MonitorTypes, admin_state_up : BOOLEAN]
  BY <1>2, RowsWhereActive, RowsByKind DEF Children
<1>4. p \in Pools
  BY <1>3
<1>5. Reporting(s, Only(h, "DELETED"), {p} \cup AbovePool(p))
  <2>1. MembersKnown(None)
    BY DEF MembersKnown
  <2> HIDE DEF p
  <2> QED BY <2>1, <1>2, <1>4, BelowReport, BelowKnownPoolReporting
<1>6. DOMAIN NoRows = {} /\ IsTable(NoRows)
  BY TablesMade DEF NoRows
<1>7. Serve("health_monitor_delete", <<s>>, NoRows, LocksBelow(p, Only(h, "PENDING_DELETE")))
  BY <1>1
<1> HIDE DEF s
<1> QED BY <1>2, <1>4, <1>5, <1>6, <1>7, LockFacts, BelowPoolPlan
\* The list of a batch: what is new, what stays and what goes.
LEMMA MemberBatchPlan ==
  ASSUME TypeInv, NEW p \in Pools, member_batch_update(p)
  PROVE  Planned
<1> DEFINE old == InPool(db, p, Members)
           above == {p} \cup AbovePool(p)
<1>1. PICK ms \in SUBSET Members, up \in SUBSET Members, gets \in Gets :
        LET removed == old \ ms
            rows == [m \in ms |-> [pool_id |-> p, admin_state_up |-> m \in up]]
            listed == {ProviderMember(Written(rows), m) : m \in ms}
        IN  /\ \A m \in ms \ old : prov[m] = "NONE"
            /\ up \subseteq ms
            /\ removed # {} => "member_batch_removal" \in Operations
            /\ Serve("member_batch_update",
                     <<below_pool(p, [m \in ms |-> "ACTIVE"], gets, listed, None)>>,
                     rows,
                     Locks([m \in ms \cup removed |->
                              IF m \in removed THEN "PENDING_DELETE"
                              ELSE IF m \in old THEN "PENDING_UPDATE" ELSE "PENDING_CREATE"],
                           above))
  BY DEF member_batch_update, LocksBelow
<1> DEFINE removed == old \ ms
           rows == [m \in ms |-> [pool_id |-> p, admin_state_up |-> m \in up]]
           listed == {ProviderMember(Written(rows), m) : m \in ms}
           changed == [m \in ms |-> "ACTIVE"]
           locked == [m \in ms \cup removed |->
                        IF m \in removed THEN "PENDING_DELETE"
                        ELSE IF m \in old THEN "PENDING_UPDATE" ELSE "PENDING_CREATE"]
           s == below_pool(p, changed, gets, listed, None)
<1>2. /\ PoolIsMutable(p) /\ \A m \in ms \ old : prov[m] = "NONE"
      /\ removed # {} => "member_batch_removal" \in Operations
  BY <1>1 DEF member_batch_update
<1>3. /\ prov[p] = "ACTIVE" /\ Mutable(AbovePool(p))
      /\ AbovePool(p) \in SUBSET Resources /\ LB \in AbovePool(p)
      /\ AbovePool(p) \cap (Pools \cup Members \cup Monitors) = {}
  BY <1>2, AbovePoolFacts DEF PoolIsMutable
<1>4. /\ above \in SUBSET Resources /\ LB \in above /\ above \cap (Members \cup Monitors) = {}
      /\ p \in above /\ Members \in SUBSET (Resources \ above) /\ Members \subseteq Children
      /\ Members \cap Monitors = {}
  BY <1>3, ResourcesAssumption DEF Resources, Children
<1>5. \A r \in above : prov[r] = "ACTIVE"
  BY <1>3 DEF Mutable
<1>6. IsReport(changed)
  BY <1>4 DEF IsReport
<1>7. Reporting(s, changed, above)
  <2>1. \A m \in ms : ProviderMember(Written(rows), m).member_id = m /\ m \in Members
    BY DEF ProviderMember
  <2>2. MembersKnown(listed)
    BY <2>1 DEF MembersKnown
  <2> HIDE DEF changed, listed
  <2> QED BY <2>2, <1>2, <1>6, BelowKnownPoolReporting
<1>8. removed \in SUBSET Members /\ old \in SUBSET Members
      /\ \A m \in old : db[m] # None /\ db[m].pool_id = p
  BY DEF InPool
<1>9. /\ DOMAIN locked = ms \cup removed /\ DOMAIN changed = ms /\ DOMAIN rows = ms
      /\ \A r \in DOMAIN changed : r \in DOMAIN locked /\ changed[r] = Answer(locked[r])
  BY DEF Answer
<1>10. OneReport => DOMAIN changed = DOMAIN locked
  BY <1>2, <1>9 DEF OneReport
<1>11. \A r \in DOMAIN locked :
           \/ prov[r] = "NONE" /\ locked[r] = "PENDING_CREATE" /\ r \in DOMAIN rows
           \/ /\ r \in Members /\ db[r] # None
              /\ prov[db[r].pool_id] = "ACTIVE" /\ db[r].pool_id \in above
              /\ locked[r] \in {"PENDING_UPDATE", "PENDING_DELETE"}
  BY <1>2, <1>4, <1>5, <1>8
<1>12. \A r \in DOMAIN rows : rows[r] \in Rows(r) /\ r \in DOMAIN locked
  <2>1. \A r : (r \in up) \in BOOLEAN
    OBVIOUS
  <2>2. \A r \in ms : /\ rows[r] = [pool_id |-> p, admin_state_up |-> r \in up]
                     /\ Rows(r) = [pool_id : Pools, admin_state_up : BOOLEAN]
    BY RowsByKind
  <2>3. \A r \in ms : [pool_id |-> p, admin_state_up |-> r \in up]
                       \in [pool_id : Pools, admin_state_up : BOOLEAN]
    BY <2>1
  <2>4. \A r \in ms : rows[r] \in Rows(r)
    BY <2>2, <2>3
  <2> HIDE DEF rows, locked
  <2> QED BY <2>4, <1>9
<1>13. \A m \in DOMAIN locked \cap (Members \cup Monitors) : Written(rows)[m].pool_id \in above
  BY <1>4, <1>8 DEF Written
<1>14. Serve("member_batch_update", <<s>>, rows, Locks(locked, above))
  BY <1>1
<1>15. /\ DOMAIN locked \in SUBSET (Resources \ above)
       /\ DOMAIN rows \subseteq Children /\ IsTable(rows)
       /\ Listeners \cap DOMAIN locked = {}
  BY <1>4, <1>8, <1>9, ResourcesAssumption DEF IsTable
<1> HIDE DEF s, rows, locked, changed, above
<1> QED BY <1>4, <1>5, <1>6, <1>7, <1>9, <1>10, <1>11, <1>12, <1>13, <1>14, <1>15,
           SingleStepPlan
-----------------------------------------------------------------------------
(* The handlers of load balancers: several steps, and a last one that reports *)

LEMMA AppendIsSequence ==
  ASSUME NEW q, NEW k \in Nat, q = [n \in 1 .. k |-> q[n]], NEW s, NEW r, r = Append(q, s)
  PROVE  /\ r \in Seq({r[n] : n \in DOMAIN r}) /\ Len(r) = k + 1 /\ r # <<>>
         /\ \A n \in 1 .. k + 1 : r[n] = IF n = k + 1 THEN s ELSE q[n]
<1> DEFINE S == {q[n] : n \in 1 .. k} \cup {s}
<1>1. q \in Seq(S)
  <2>1. q \in [1 .. k -> S] OBVIOUS
  <2> QED BY <2>1
<1>2. Len(q) = k
  BY <1>1
<1>3. r \in Seq(S) /\ Len(r) = k + 1
  BY <1>1, <1>2
<1>4. \A n \in 1 .. k + 1 : r[n] = IF n = k + 1 THEN s ELSE q[n]
  BY <1>1, <1>2
<1>5. r \in Seq({r[n] : n \in DOMAIN r})
  BY <1>3, SequenceOfItsElements
<1> QED BY <1>3, <1>4, <1>5

\* Only a cascade reports on the way.
QuietUntilLast(q, k) ==
  \A n \in 1 .. k : IsStep(q[n]) /\ ("cascade" \notin Operations => q[n].report = None)

LEMMA SeveralStepsPlan ==
  ASSUME NEW operation, NEW q, NEW k \in Nat, q = [n \in 1 .. k |-> q[n]],
         QuietUntilLast(q, k), NEW s, NEW report, IsStep(s), s.report = report,
         NEW rows, NEW locks, NEW onError,
         ServeOr(operation, Append(q, s), rows, locks, onError),
         Fits(report, locks), IsTable(locks), LB \in DOMAIN locks,
         DOMAIN locks \subseteq Resources,
         \A r \in DOMAIN locks : locks[r] \in Pending,
         \A r \in DOMAIN locks :
           \/ prov[r] = "ACTIVE" /\ locks[r] \in {"PENDING_UPDATE", "PENDING_DELETE"}
           \/ /\ prov[r] = "NONE" \/ (r = LB /\ prov[r] = "DELETED")
              /\ locks[r] = "PENDING_CREATE"
              /\ r \in Children => r \in DOMAIN rows,
         IsTable(rows), DOMAIN rows \subseteq Children,
         \A r \in DOMAIN rows : rows[r] \in Rows(r) /\ r \in DOMAIN locks,
         \A m \in DOMAIN locks \cap (Members \cup Monitors) :
           Written(rows)[m].pool_id \in DOMAIN locks,
         reports = {} \/ prov[LB] = "ACTIVE",
         onError # None => /\ onError = Only(LB, "ERROR") /\ prov[LB] \in {"NONE", "DELETED"}
                           /\ ~ OneReport,
         OneReport => DOMAIN locks = {LB}, DOMAIN report = {LB}
  PROVE  Planned
<1> DEFINE todo == Append(q, s)
           c == [todo |-> todo, rows |-> rows, locks |-> locks, onError |-> onError,
                 failed |-> FALSE]
<1>1. call = None /\ call' = c /\ UNCHANGED <<db, prov, rules, reports>>
  BY DEF ServeOr
<1>2. /\ todo \in Seq({todo[n] : n \in DOMAIN todo}) /\ Len(todo) = k + 1 /\ todo # <<>>
      /\ \A n \in 1 .. k + 1 : todo[n] = IF n = k + 1 THEN s ELSE q[n]
  <2>1. todo = Append(q, s) /\ q = [n \in 1 .. k |-> q[n]] /\ k \in Nat
    OBVIOUS
  <2> HIDE DEF todo
  <2> QED BY ONLY <2>1, AppendIsSequence
<1> HIDE DEF todo
<1>3. IsCall(c)
  BY <1>2 DEF IsCall
<1>4. \A n \in 1 .. Len(todo) : IsStep(todo[n])
  <2> SUFFICES ASSUME NEW n \in 1 .. k + 1 PROVE IsStep(todo[n])
    BY <1>2
  <2>1. CASE n = k + 1
    BY <2>1, <1>2
  <2>2. CASE n # k + 1
    <3>1. n \in 1 .. k
      BY <2>2
    <3>2. todo[n] = q[n]
      BY <2>2, <1>2
    <3> QED BY <3>1, <3>2 DEF QuietUntilLast
  <2> QED BY <2>1, <2>2
<1>5. LB \in Resources /\ (onError # None => IsReport(onError))
  BY OnlyIsReport DEF Resources
<1>6. WellTyped(c)
  BY <1>4, <1>5 DEF WellTyped
<1>7. WellLocked(c)
  BY DEF WellLocked, Lockable
<1>8. \A n \in 1 .. k : todo[n] = q[n]
  <2>1. \A n \in 1 .. k : n \in 1 .. k + 1 /\ n # k + 1
    OBVIOUS
  <2> QED BY ONLY <2>1, <1>2
<1>9. "cascade" \notin Operations =>
        \A n \in 1 .. Len(todo) :
          todo[n].report = None \/ (n = Len(todo) /\ Fits(todo[n].report, locks))
  <2> SUFFICES ASSUME "cascade" \notin Operations, NEW n \in 1 .. k + 1
               PROVE  todo[n].report = None \/ (n = k + 1 /\ Fits(todo[n].report, locks))
    BY <1>2
  <2>1. CASE n = k + 1
    BY <2>1, <1>2
  <2>2. CASE n # k + 1
    BY <2>2, <1>8 DEF QuietUntilLast
  <2> QED BY <2>1, <2>2
<1>10. LB \notin Members \cup Listeners
  BY ResourcesAssumption DEF Children
<1>11. todo[Len(todo)] = s /\ Fits(s.report, locks)
  <2>1. k + 1 \in 1 .. k + 1
    OBVIOUS
  <2>2. todo[k + 1] = s
    BY <2>1, <1>2
  <2> QED BY <2>2, <1>2
<1>12. WellReported(c)
  <2>1. OneReport => Members \cap DOMAIN locks = {}
    BY <1>10
  <2>2. s.report # None
    BY <1>11 DEF Fits
  <2>3. Thorough => DOMAIN s.report = DOMAIN locks
    BY DEF Thorough
  <2>4. "cascade" \notin Operations =>
          \A n \in 1 .. Len(todo) : todo[n].report # None =>
            Listeners \cap DOMAIN todo[n].report = {}
    BY <1>2, <1>9, <1>10, <1>11
  <2> QED BY <2>1, <2>2, <2>3, <2>4, <1>2, <1>9, <1>11 DEF WellReported
<1> QED BY <1>1, <1>3, <1>6, <1>7, <1>12 DEF Planned
\* An order lists the elements of its set, and is empty with it.
LEMMA OrderOfListeners ==
  ASSUME NEW S \in SUBSET Listeners, NEW order \in Orders(S)
  PROVE  /\ \E k \in Nat : DOMAIN order = 1 .. k
         /\ \A n \in DOMAIN order : order[n] \in S
         /\ S = {} => order = <<>>
<1>1. order \in [1 .. Cardinality(S) -> S]
  BY DEF Orders, SetToSeqs
<1>2. S = {} => Cardinality(S) = 0
  BY FS_EmptySet
<1> QED BY <1>1, <1>2, OrdersAreSequences

LEMMA ConfigureIsQuiet ==
  ASSUME NEW d, NEW k \in Nat, NEW order, DOMAIN order = 1 .. k,
         \A n \in 1 .. k : order[n] \in Listeners
  PROVE  LET q == configure_listeners(d, order)
         IN  q = [n \in 1 .. k |-> q[n]] /\ QuietUntilLast(q, k)
<1> DEFINE q == configure_listeners(d, order)
<1>1. q = [n \in 1 .. k |-> q[n]]
  BY DEF configure_listeners
<1>2. ASSUME NEW n \in 1 .. k PROVE IsStep(q[n]) /\ q[n].report = None
  <2> DEFINE l == order[n]
             s == reconcile_service(ProviderListener(d, l), None, None, None, None)
  <2>1. q[n] = s
    BY DEF configure_listeners
  <2>2. PoolOf(ProviderListener(d, l), None) = ProviderListener(d, l).default_pool
    BY DEF PoolOf
  <2>3. Carries(s, None)
    <3>1. l \in Listeners /\ MembersKnown(None)
      BY DEF MembersKnown
    <3> QED BY <3>1, <2>2, ListenerObject, ReconcileCarries
  <2> HIDE DEF s, q
  <2> QED BY <2>1, <2>3 DEF Carries
<1> QED BY <1>1, <1>2 DEF QuietUntilLast

\* Rows for resources of S.
NewRows(rows, S) == /\ IsTable(rows) /\ DOMAIN rows \subseteq S
                    /\ \A r \in DOMAIN rows : rows[r] \in Rows(r)

LEMMA SomeRowsAreRows ==
  /\ \A rows \in SomeRows(Listeners) : NewRows(rows, Listeners)
  /\ \A rows \in SomeRows(Pools) : NewRows(rows, Pools)
  /\ \A rows \in SomeRows(Members) : NewRows(rows, Members)
  /\ \A rows \in SomeRows(Monitors) : NewRows(rows, Monitors)
<1>1. ASSUME NEW S \in SUBSET Children, \A r, q \in S : Rows(r) = Rows(q),
             NEW rows \in SomeRows(S)
      PROVE  NewRows(rows, S)
  <2>1. PICK T \in SUBSET S : rows \in [T -> UNION {Rows(r) : r \in S}]
    BY <1>1 DEF SomeRows
  <2>2. \A r \in T : UNION {Rows(q) : q \in S} = Rows(r)
    BY <1>1
  <2>3. \A r \in T : rows[r] \in Rows(r)
    BY <2>1, <2>2
  <2>4. rows = [r \in T |-> rows[r]] /\ DOMAIN rows = T
    BY <2>1
  <2> QED BY <2>1, <2>3, <2>4 DEF NewRows, IsTable
<1>2. /\ \A r, q \in Listeners : Rows(r) = Rows(q)
      /\ \A r, q \in Pools : Rows(r) = Rows(q)
      /\ \A r, q \in Members : Rows(r) = Rows(q)
      /\ \A r, q \in Monitors : Rows(r) = Rows(q)
  BY RowsByKind
<1>3. /\ Listeners \in SUBSET Children /\ Pools \in SUBSET Children
      /\ Members \in SUBSET Children /\ Monitors \in SUBSET Children
  BY DEF Children
<1> QED BY <1>1, <1>2, <1>3

LEMMA RowsJoin ==
  ASSUME NEW f, NEW g, NewRows(f, Children), NewRows(g, Children)
  PROVE  NewRows(Joined(f, g), Children)
<1>1. Joined(f, g) = [r \in DOMAIN f \cup DOMAIN g |-> IF r \in DOMAIN f THEN f[r] ELSE g[r]]
  BY DEF Joined
<1>2. PICK h : h = Joined(f, g)
  OBVIOUS
<1>3. /\ DOMAIN h = DOMAIN f \cup DOMAIN g
      /\ \A r \in DOMAIN h : h[r] = IF r \in DOMAIN f THEN f[r] ELSE g[r]
      /\ h = [r \in DOMAIN h |-> h[r]]
  BY <1>1, <1>2
<1> QED BY <1>2, <1>3 DEF NewRows, IsTable

\* The children of a tree are new rows of their kind, its members are in its pools.
LEMMA TreeRows ==
  ASSUME NEW rows \in Trees
  PROVE  /\ IsTable(rows) /\ DOMAIN rows \subseteq Children
         /\ \A r \in DOMAIN rows : rows[r] \in Rows(r)
         /\ \A r \in DOMAIN rows \cap (Members \cup Monitors) : rows[r].pool_id \in DOMAIN rows
<1>1. PICK ls \in SomeRows(Listeners), ps \in SomeRows(Pools),
           ms \in SomeRows(Members), hs \in SomeRows(Monitors) :
        rows = Joined(Joined(ls, ps), Joined(ms, hs)) /\ Rooted(rows)
  BY DEF Trees
<1>2. /\ NewRows(ls, Listeners) /\ NewRows(ps, Pools)
      /\ NewRows(ms, Members) /\ NewRows(hs, Monitors)
  BY SomeRowsAreRows
<1>3. NewRows(Joined(ls, ps), Children) /\ NewRows(Joined(ms, hs), Children)
  BY <1>2, RowsJoin DEF NewRows, Children
<1>4. NewRows(rows, Children)
  BY <1>1, <1>3, RowsJoin
<1> QED BY <1>1, <1>4 DEF NewRows, Rooted

\* The report of the load balancer alone, at the end.
LEMMA LastReport ==
  ASSUME NEW status \in {"ACTIVE", "DELETED"}, NEW locks, LB \in DOMAIN locks,
         status = Answer(locks[LB])
  PROVE  LET report == Only(LB, status)
         IN  /\ IsStep(Report(report)) /\ Report(report).report = report
             /\ Fits(report, locks) /\ DOMAIN report = {LB}
<1> DEFINE report == Only(LB, status)
<1>1. IsReport(report) /\ report # None /\ DOMAIN report = {LB} /\ report[LB] = status
  BY OnlyIsReport DEF Resources
<1>2. Carries(Report(report), report) /\ Report(report).report = report
  <2> HIDE DEF report
  <2> QED BY <1>1, ReportCarries DEF Report
<1> DEFINE s == Report(report)
<1> HIDE DEF report, s
<1>3. IsStep(s) /\ s.report = report /\ Fits(report, locks) /\ DOMAIN report = {LB}
  <2>1. Carries(s, report) /\ s.report = report
    BY <1>2 DEF s
  <2> QED BY <2>1, <1>1 DEF Carries, Fits
<1> QED BY <1>3 DEF s, report

LEMMA LoadBalancerCreatePlan ==
  ASSUME TypeInv, loadbalancer_create
  PROVE  Planned
<1> DEFINE report == Only(LB, "ACTIVE")
           s == Report(report)
<1>1. PICK rows \in IF "tree" \in Operations THEN Trees ELSE {NoRows} :
        \E order \in Orders(Listeners \cap DOMAIN rows) :
          ServeOr("loadbalancer_create", Append(configure_listeners(Written(rows), order), s),
                  rows, [r \in {LB} \cup DOMAIN rows |-> "PENDING_CREATE"],
                  IF order = <<>> THEN None ELSE Only(LB, "ERROR"))
  BY DEF loadbalancer_create
<1>2. PICK order \in Orders(Listeners \cap DOMAIN rows) :
          ServeOr("loadbalancer_create", Append(configure_listeners(Written(rows), order), s),
                  rows, [r \in {LB} \cup DOMAIN rows |-> "PENDING_CREATE"],
                  IF order = <<>> THEN None ELSE Only(LB, "ERROR"))
  BY <1>1
<1> DEFINE q == configure_listeners(Written(rows), order)
           locks == [r \in {LB} \cup DOMAIN rows |-> "PENDING_CREATE"]
           onError == IF order = <<>> THEN None ELSE Only(LB, "ERROR")
<1>3. PICK k \in Nat : DOMAIN order = 1 .. k /\ \A n \in 1 .. k : order[n] \in Listeners
  BY OrderOfListeners
<1>4. q = [n \in 1 .. k |-> q[n]] /\ QuietUntilLast(q, k)
  BY <1>3, ConfigureIsQuiet
<1>5. /\ IsTable(rows)
      /\ DOMAIN rows \subseteq Children /\ \A r \in DOMAIN rows : rows[r] \in Rows(r)
      /\ \A m \in DOMAIN rows \cap (Members \cup Monitors) : rows[m].pool_id \in DOMAIN rows
      /\ "tree" \notin Operations => DOMAIN rows = {}
  <2>1. CASE "tree" \in Operations
    BY <2>1, <1>1, TreeRows
  <2>2. CASE "tree" \notin Operations
    <3>1. DOMAIN rows = {} /\ IsTable(rows)
      BY <2>2, <1>1, TablesMade DEF NoRows
    <3> QED BY <3>1, <2>2
  <2> QED BY <2>1, <2>2
<1>6. /\ prov[LB] \in {"NONE", "DELETED"} /\ reports = {}
      /\ \A c \in Children : prov[c] = "NONE"
  BY DEF loadbalancer_create
<1>7. LB \notin Children /\ LB \in Resources /\ Children \subseteq Resources
  BY ResourcesAssumption DEF Resources
<1>8. DOMAIN locks = {LB} \cup DOMAIN rows /\ \A r \in DOMAIN locks : locks[r] = "PENDING_CREATE"
  OBVIOUS
<1>9. "ACTIVE" = Answer(locks[LB])
  BY <1>8 DEF Answer
<1>10. /\ IsStep(s) /\ s.report = report /\ Fits(report, locks) /\ DOMAIN report = {LB}
  BY <1>8, <1>9, LastReport
<1>11. ServeOr("loadbalancer_create", Append(q, s), rows, locks, onError)
  BY <1>2
<1>12. \A m \in DOMAIN locks \cap (Members \cup Monitors) :
         Written(rows)[m].pool_id \in DOMAIN locks
  <2> SUFFICES ASSUME NEW m \in DOMAIN locks \cap (Members \cup Monitors)
               PROVE  Written(rows)[m].pool_id \in DOMAIN locks
    OBVIOUS
  <2>1. m \in Children /\ m \in DOMAIN rows
    BY <1>7, <1>8 DEF Children
  <2>2. Written(rows)[m] = rows[m]
    BY <2>1 DEF Written
  <2> QED BY <2>1, <2>2, <1>5, <1>8
<1>13. (OneReport => DOMAIN locks = {LB}) /\ DOMAIN report = {LB}
  BY <1>5, <1>8, <1>10 DEF OneReport
<1>14. \A r \in DOMAIN locks :
         /\ prov[r] = "NONE" \/ (r = LB /\ prov[r] = "DELETED")
         /\ locks[r] = "PENDING_CREATE" /\ locks[r] \in Pending
         /\ r \in Children => r \in DOMAIN rows
  BY <1>5, <1>6, <1>7, <1>8 DEF Pending
<1>15. onError # None => /\ onError = Only(LB, "ERROR") /\ prov[LB] \in {"NONE", "DELETED"}
                         /\ ~ OneReport
  <2>1. OneReport => Listeners \cap DOMAIN rows = {}
    BY <1>13, <1>8, <1>7, <1>5
  <2>2. OneReport => order = <<>>
    BY <2>1, OrderOfListeners
  <2> QED BY <2>2, <1>6
<1>16. LB \in DOMAIN locks /\ DOMAIN locks \subseteq Resources /\ IsTable(locks)
  BY <1>5, <1>7, <1>8 DEF IsTable
<1> HIDE DEF q, s, report, locks, onError
<1> QED BY <1>4, <1>5, <1>6, <1>8, <1>10, <1>11, <1>12, <1>13, <1>14, <1>15, <1>16,
           SeveralStepsPlan

\* An operation that locks the load balancer alone.
LEMMA LoadBalancerPlan ==
  ASSUME TypeInv, NEW operation, NEW q, NEW k \in Nat, q = [n \in 1 .. k |-> q[n]],
         QuietUntilLast(q, k), NEW s, NEW lock \in {"PENDING_UPDATE", "PENDING_DELETE"},
         IsStep(s), s.report = Only(LB, Answer(lock)), Mutable({LB}),
         Serve(operation, Append(q, s), NoRows, Only(LB, lock))
  PROVE  Planned
<1> DEFINE locks == Only(LB, lock)
           report == Only(LB, Answer(lock))
<1>1. LB \in Resources /\ LB \notin Children /\ prov[LB] = "ACTIVE"
  BY ResourcesAssumption DEF Resources, Mutable
<1>2. DOMAIN locks = {LB} /\ locks[LB] = lock /\ lock \in Pending /\ IsTable(locks)
  BY TablesMade DEF Only, Pending
<1>3. Answer(lock) \in {"ACTIVE", "DELETED"}
  BY DEF Answer
<1>4. Fits(report, locks) /\ DOMAIN report = {LB}
  BY <1>2, <1>3, LastReport
<1>5. ServeOr(operation, Append(q, s), NoRows, locks, None)
  BY DEF Serve
<1>6. DOMAIN NoRows = {} /\ IsTable(NoRows)
  BY TablesMade DEF NoRows
<1>7. DOMAIN locks \cap (Members \cup Monitors) = {}
  BY <1>1, <1>2 DEF Children
<1>8. s.report = report
  OBVIOUS
<1>9. \A r \in DOMAIN locks :
        prov[r] = "ACTIVE" /\ locks[r] \in {"PENDING_UPDATE", "PENDING_DELETE"}
  BY <1>1, <1>2
<1> HIDE DEF locks, report
<1> DEFINE rows == NoRows
           onError == None
<1>10. /\ IsTable(rows) /\ DOMAIN rows \subseteq Children
       /\ \A r \in DOMAIN rows : rows[r] \in Rows(r) /\ r \in DOMAIN locks
       /\ \A m \in DOMAIN locks \cap (Members \cup Monitors) :
            Written(rows)[m].pool_id \in DOMAIN locks
       /\ onError # None => /\ onError = Only(LB, "ERROR") /\ prov[LB] \in {"NONE", "DELETED"}
                           /\ ~ OneReport
  BY <1>6, <1>7
<1>11. ServeOr(operation, Append(q, s), rows, locks, onError)
  BY <1>5
<1>12. /\ LB \in DOMAIN locks /\ DOMAIN locks \subseteq Resources /\ IsTable(locks)
       /\ \A r \in DOMAIN locks : locks[r] \in Pending
       /\ DOMAIN locks = {LB} /\ DOMAIN report = {LB}
  BY <1>1, <1>2, <1>4
<1> HIDE DEF rows, onError
<1> QED BY <1>1, <1>4, <1>8, <1>9, <1>10, <1>11, <1>12, SeveralStepsPlan

LEMMA LoadBalancerUpdatePlan ==
  ASSUME TypeInv, loadbalancer_update
  PROVE  Planned
<1>1. PICK kind \in UpdateObjects :
        \E order \in Orders(IF kind = "full" THEN {l \in Listeners : db[l] # None} ELSE {}) :
          Serve("loadbalancer_update",
                Append(configure_listeners(db, order), Report(Only(LB, "ACTIVE"))),
                NoRows, Only(LB, "PENDING_UPDATE"))
  BY DEF loadbalancer_update
<1> DEFINE S == IF kind = "full" THEN {l \in Listeners : db[l] # None} ELSE {}
<1>2. PICK order \in Orders(S) :
          Serve("loadbalancer_update",
                Append(configure_listeners(db, order), Report(Only(LB, "ACTIVE"))),
                NoRows, Only(LB, "PENDING_UPDATE"))
  BY <1>1
<1>3. S \in SUBSET Listeners
  OBVIOUS
<1> HIDE DEF S
<1> DEFINE q == configure_listeners(db, order)
           s == Report(Only(LB, "ACTIVE"))
<1>4. PICK k \in Nat : DOMAIN order = 1 .. k /\ \A n \in 1 .. k : order[n] \in Listeners
  BY <1>3, OrderOfListeners
<1>5. q = [n \in 1 .. k |-> q[n]] /\ QuietUntilLast(q, k)
  BY <1>4, ConfigureIsQuiet
<1>6. IsStep(s) /\ s.report = Only(LB, "ACTIVE") /\ Answer("PENDING_UPDATE") = "ACTIVE"
  <2>1. IsReport(Only(LB, "ACTIVE"))
    BY OnlyIsReport DEF Resources
  <2>2. Carries(s, Only(LB, "ACTIVE"))
    BY <2>1, ReportCarries
  <2> QED BY <2>2 DEF Carries, Report, Answer
<1>7. Mutable({LB}) /\ Serve("loadbalancer_update", Append(q, s), NoRows,
                             Only(LB, "PENDING_UPDATE"))
  BY <1>2 DEF loadbalancer_update
<1> HIDE DEF q, s
<1> QED BY <1>5, <1>6, <1>7, LoadBalancerPlan

LEMMA LoadBalancerFailoverPlan ==
  ASSUME TypeInv, loadbalancer_failover
  PROVE  Planned
<1> DEFINE s == Report(Only(LB, "ACTIVE"))
<1>1. IsStep(s) /\ s.report = Only(LB, "ACTIVE") /\ Answer("PENDING_UPDATE") = "ACTIVE"
  <2>1. IsReport(Only(LB, "ACTIVE"))
    BY OnlyIsReport DEF Resources
  <2>2. Carries(s, Only(LB, "ACTIVE"))
    BY <2>1, ReportCarries
  <2> QED BY <2>2 DEF Carries, Report, Answer
<1>2. Append(<<>>, s) = <<s>>
  OBVIOUS
<1>3. Mutable({LB}) /\ Serve("loadbalancer_failover", Append(<<>>, s), NoRows,
                             Only(LB, "PENDING_UPDATE"))
  BY <1>2 DEF loadbalancer_failover
<1>4. <<>> = [n \in 1 .. 0 |-> <<>>[n]] /\ QuietUntilLast(<<>>, 0)
  BY DEF QuietUntilLast
<1> HIDE DEF s
<1> QED BY <1>1, <1>3, <1>4, LoadBalancerPlan

LEMMA LoadBalancerDeletePlan ==
  ASSUME TypeInv, NEW cascade \in BOOLEAN, loadbalancer_delete(cascade)
  PROVE  Planned
<1> DEFINE S == {l \in Listeners : db[l] # None}
           operation == IF cascade THEN "cascade" ELSE "loadbalancer_delete"
           by_name == DeleteByName(<<LB>>, Only(LB, "DELETED"))
           last == Report(Only(LB, "DELETED"))
<1>1. PICK gets \in [Listeners -> Gets], order \in Orders(S) :
        Serve(operation,
              IF order = <<>> THEN <<by_name>>
              ELSE Append([n \in DOMAIN order |-> deletion_of_listener(order[n], gets[order[n]])],
                          last),
              NoRows, Only(LB, "PENDING_DELETE"))
  BY DEF loadbalancer_delete
<1>2. PICK k \in Nat : DOMAIN order = 1 .. k
  BY OrderOfListeners
<1>3. \A n \in 1 .. k : order[n] \in Listeners
  BY <1>2, OrderOfListeners
<1>4. Mutable({LB}) /\ (cascade \/ \A c \in Children : prov[c] = "NONE")
  BY DEF loadbalancer_delete
<1>5. IsReport(Only(LB, "DELETED")) /\ Answer("PENDING_DELETE") = "DELETED"
  BY OnlyIsReport DEF Resources, Answer
<1>6. CASE order = <<>>
  <2>1. IsStep(by_name) /\ by_name.report = Only(LB, "DELETED")
    <3>1. Carries(by_name, Only(LB, "DELETED")) /\ by_name.report = Only(LB, "DELETED")
      BY <1>5, DeleteByNameCarries DEF DeleteByName, Names
    <3> HIDE DEF by_name
    <3> QED BY <3>1 DEF Carries
  <2>2. Append(<<>>, by_name) = <<by_name>>
    OBVIOUS
  <2>3. Serve(operation, Append(<<>>, by_name), NoRows, Only(LB, "PENDING_DELETE"))
    BY <1>1, <1>6, <2>2
  <2>4. <<>> = [n \in 1 .. 0 |-> <<>>[n]] /\ QuietUntilLast(<<>>, 0)
    BY DEF QuietUntilLast
  <2> HIDE DEF by_name, operation
  <2> QED BY <1>4, <1>5, <2>1, <2>3, <2>4, LoadBalancerPlan
<1>7. CASE order # <<>>
  <2> DEFINE q == [n \in DOMAIN order |-> deletion_of_listener(order[n], gets[order[n]])]
  <2>1. operation = "cascade"
    <3>1. PICK l \in Listeners : db[l] # None
      BY <1>7, OrderOfListeners
    <3>2. prov[l] # "NONE"
      BY <3>1 DEF TypeInv, Children
    <3> QED BY <3>2, <1>4 DEF Children
  <2>2. "cascade" \in Operations
    BY <1>1, <2>1 DEF Serve, ServeOr
  <2>3. q = [n \in 1 .. k |-> q[n]]
    BY <1>2
  <2>4. QuietUntilLast(q, k)
    <3> SUFFICES ASSUME NEW n \in 1 .. k PROVE IsStep(q[n])
      BY <2>2 DEF QuietUntilLast
    <3>1. order[n] \in Listeners /\ gets[order[n]] \in Gets
      BY <1>3
    <3>2. q[n] = deletion_of_listener(order[n], gets[order[n]])
      BY <1>2
    <3>3. Reporting(deletion_of_listener(order[n], gets[order[n]]), Only(order[n], "DELETED"), {LB})
      BY <3>1, DeletionReporting
    <3> QED BY <3>2, <3>3 DEF Reporting, Carries
  <2>5. IsStep(last) /\ last.report = Only(LB, "DELETED")
    <3>1. Carries(last, Only(LB, "DELETED")) /\ last.report = Only(LB, "DELETED")
      BY <1>5, ReportCarries DEF Report
    <3> HIDE DEF last
    <3> QED BY <3>1 DEF Carries
  <2>6. Serve(operation, Append(q, last), NoRows, Only(LB, "PENDING_DELETE"))
    BY <1>1, <1>7
  <2> HIDE DEF q, last, operation
  <2> QED BY <1>4, <1>5, <2>3, <2>4, <2>5, <2>6, LoadBalancerPlan
<1> QED BY <1>6, <1>7

\* Whatever the call, its handler plans no more than this.
LEMMA HandlerPlans ==
  ASSUME TypeInv, Handler
  PROVE  Planned
<1>1. TRUE \in BOOLEAN /\ FALSE \in BOOLEAN
  OBVIOUS
<1> QED BY <1>1, LoadBalancerCreatePlan, LoadBalancerUpdatePlan, LoadBalancerFailoverPlan,
           LoadBalancerDeletePlan, ListenerCreatePlan, ListenerUpdatePlan, ListenerDeletePlan,
           L7Plan, PoolCreatePlan, PoolUpdatePlan, PoolDeletePlan, MemberCreatePlan,
           MemberUpdatePlan, MemberDeletePlan, MemberBatchPlan, MonitorCreatePlan,
           MonitorUpdatePlan, MonitorDeletePlan DEF Handler
-----------------------------------------------------------------------------
(* Types *)

LEMMA RestOfSequence ==
  ASSUME NEW q, q \in Seq({q[n] : n \in DOMAIN q}), q # <<>>
  PROVE  /\ Len(q) \in Nat \ {0} /\ DOMAIN q = 1 .. Len(q)
         /\ Head(q) = q[1]
         /\ Len(Tail(q)) = Len(q) - 1
         /\ \A n \in 1 .. Len(q) - 1 : Tail(q)[n] = q[n + 1]
         /\ Tail(q) \in Seq({Tail(q)[n] : n \in DOMAIN Tail(q)})
<1> DEFINE S == {q[n] : n \in DOMAIN q}
           r == Tail(q)
<1>1. q \in Seq(S) /\ Len(q) \in Nat \ {0} /\ DOMAIN q = 1 .. Len(q)
  OBVIOUS
<1>2. Head(q) = q[1]
  BY <1>1
<1>3. r \in Seq(S) /\ Len(r) = Len(q) - 1 /\ \A n \in 1 .. Len(q) - 1 : r[n] = q[n + 1]
  BY <1>1
<1>4. r \in Seq({r[n] : n \in DOMAIN r})
  BY <1>3, SequenceOfItsElements
<1> QED BY <1>1, <1>2, <1>3, <1>4

\* A call with other steps, and one that has failed.
LEMMA CallGoesOn ==
  ASSUME NEW c, IsCall(c), NEW todo, todo \in Seq({todo[n] : n \in DOMAIN todo}),
         NEW d, d = [c EXCEPT !.todo = todo]
  PROVE  /\ IsCall(d) /\ d.todo = todo /\ d.rows = c.rows /\ d.locks = c.locks
         /\ d.onError = c.onError /\ d.failed = c.failed
<1>1. c = [todo |-> c.todo, rows |-> c.rows, locks |-> c.locks, onError |-> c.onError,
           failed |-> c.failed]
  BY DEF IsCall
<1>2. d = [todo |-> todo, rows |-> c.rows, locks |-> c.locks, onError |-> c.onError,
           failed |-> c.failed]
  BY <1>1
<1>3. /\ d.todo = todo /\ d.rows = c.rows /\ d.locks = c.locks
      /\ d.onError = c.onError /\ d.failed = c.failed
  BY <1>2
<1> QED BY <1>2, <1>3 DEF IsCall

LEMMA CallIsOver ==
  ASSUME NEW c, IsCall(c), NEW d, d = [c EXCEPT !.todo = <<>>, !.failed = TRUE]
  PROVE  /\ IsCall(d) /\ d.todo = <<>> /\ d.rows = c.rows /\ d.locks = c.locks
         /\ d.onError = c.onError /\ d.failed = TRUE
<1>1. c = [todo |-> c.todo, rows |-> c.rows, locks |-> c.locks, onError |-> c.onError,
           failed |-> c.failed]
  BY DEF IsCall
<1>2. d = [[c EXCEPT !.todo = <<>>] EXCEPT !.failed = TRUE]
  OBVIOUS
<1>3. [c EXCEPT !.todo = <<>>]
        = [todo |-> <<>>, rows |-> c.rows, locks |-> c.locks, onError |-> c.onError,
           failed |-> c.failed]
  BY <1>1
<1>4. d = [todo |-> <<>>, rows |-> c.rows, locks |-> c.locks, onError |-> c.onError,
           failed |-> TRUE]
  BY <1>2, <1>3
<1>5. /\ d.todo = <<>> /\ d.rows = c.rows /\ d.locks = c.locks
      /\ d.onError = c.onError /\ d.failed = TRUE
  BY <1>4
<1>6. <<>> \in Seq({<<>>[n] : n \in DOMAIN <<>>})
  OBVIOUS
<1>7. d.todo \in Seq({d.todo[n] : n \in DOMAIN d.todo})
  BY <1>5, <1>6
<1> QED BY <1>4, <1>5, <1>7 DEF IsCall

LEMMA ReportsAreReports ==
  ASSUME NEW p, IsReport(p)
  PROVE  p \in Reports
<1>1. DOMAIN p \in SUBSET Resources /\ p \in [DOMAIN p -> {"ACTIVE", "ERROR", "DELETED"}]
  BY DEF IsReport
<1> QED BY <1>1 DEF Reports

LEMMA NoCallIsNone ==
  ASSUME NEW c, IsCall(c), \A n \in 1 .. Len(c.todo) : IsStep(c.todo[n]),
         DOMAIN c.rows \subseteq Children, \A r \in DOMAIN c.rows : c.rows[r] \in Rows(r),
         DOMAIN c.locks \subseteq Resources, \A r \in DOMAIN c.locks : c.locks[r] \in Pending,
         c.onError # None => IsReport(c.onError), c.failed \in BOOLEAN
  PROVE  c # None
<1> DEFINE Steps == [verb : Verbs, arg : Rules \cup Listeners \cup Names \cup {None},
                     report : Reports \cup {None}]
           AnyRow == UNION {Rows(r) : r \in Children}
<1>1. ASSUME NEW s, IsStep(s) PROVE s \in Steps
  <2>1. s = [verb |-> s.verb, arg |-> s.arg, report |-> s.report]
    BY <1>1 DEF IsStep
  <2>2. s.verb \in Verbs /\ s.arg \in Rules \cup Listeners \cup Names \cup {None}
    BY <1>1 DEF IsStep, Verbs
  <2>3. s.report \in Reports \cup {None}
    BY <1>1, ReportsAreReports DEF IsStep
  <2> QED BY <2>1, <2>2, <2>3
<1>2. c.todo \in Seq(Steps)
  <2>1. c.todo \in Seq({c.todo[n] : n \in DOMAIN c.todo})
    BY DEF IsCall
  <2>2. /\ Len(c.todo) \in Nat /\ DOMAIN c.todo = 1 .. Len(c.todo)
        /\ c.todo \in [1 .. Len(c.todo) -> {c.todo[n] : n \in DOMAIN c.todo}]
    BY <2>1
  <2>3. \A n \in 1 .. Len(c.todo) : c.todo[n] \in Steps
    BY <1>1
  <2> HIDE DEF Steps
  <2>4. c.todo \in [1 .. Len(c.todo) -> Steps]
    BY <2>2, <2>3
  <2> QED BY <2>2, <2>4
<1>3. c.rows \in [DOMAIN c.rows -> AnyRow] /\ DOMAIN c.rows \in SUBSET Children
  <2>1. \A r \in DOMAIN c.rows : c.rows[r] \in AnyRow
    OBVIOUS
  <2>2. c.rows = [r \in DOMAIN c.rows |-> c.rows[r]]
    BY DEF IsCall, IsTable
  <2> HIDE DEF AnyRow
  <2> QED BY <2>1, <2>2
<1>4. c.locks \in [DOMAIN c.locks -> Pending] /\ DOMAIN c.locks \in SUBSET Resources
  <2>1. c.locks = [r \in DOMAIN c.locks |-> c.locks[r]]
    BY DEF IsCall, IsTable
  <2> QED BY <2>1
<1>5. c.onError \in Reports \cup {None}
  BY ReportsAreReports
<1>6. c = [todo |-> c.todo, rows |-> c.rows, locks |-> c.locks, onError |-> c.onError,
           failed |-> c.failed]
  BY DEF IsCall
<1> DEFINE S == DOMAIN c.rows
           R == DOMAIN c.locks
           AllRows == [S -> AnyRow]
           AllLocks == [R -> Pending]
<1>7. Calls(S, R) = [todo : Seq(Steps), rows : AllRows, locks : AllLocks,
                     onError : Reports \cup {None}, failed : BOOLEAN]
  BY DEF Calls
<1>8. c.rows \in AllRows /\ c.locks \in AllLocks /\ S \in SUBSET Children /\ R \in SUBSET Resources
  BY <1>3, <1>4
<1> HIDE DEF Steps, AllRows, AllLocks, S, R
<1>9. c \in Calls(S, R)
  BY <1>2, <1>5, <1>6, <1>7, <1>8
<1> QED BY <1>8, <1>9, NoneAssumption

\* What is known of a call under way.
LEMMA CallFacts ==
  ASSUME TypeInv, call # None
  PROVE  /\ IsCall(call) /\ call.failed \in BOOLEAN
         /\ \A n \in 1 .. Len(call.todo) : IsStep(call.todo[n])
         /\ DOMAIN call.rows \subseteq Children
         /\ \A r \in DOMAIN call.rows : call.rows[r] \in Rows(r)
         /\ LB \in DOMAIN call.locks /\ DOMAIN call.locks \subseteq Resources
         /\ \A r \in DOMAIN call.locks : call.locks[r] \in Pending
         /\ \A r \in DOMAIN call.rows : r \in DOMAIN call.locks \/ db[r] # None
         /\ \A r \in DOMAIN call.locks \cap Children : r \in DOMAIN call.rows \/ db[r] # None
         /\ call.onError # None => IsReport(call.onError)
BY DEF TypeInv, TypeOK

\* A step is done, or it fails: the call goes on with the rest, or with nothing.
LEMMA StepEffect ==
  ASSUME TypeInv, StepDone \/ StepFails
  PROVE  /\ call # None /\ call.todo # <<>> /\ call' # None /\ IsCall(call')
         /\ call'.rows = call.rows /\ call'.locks = call.locks /\ call'.onError = call.onError
         /\ call'.failed \in BOOLEAN
         /\ Head(call.todo) = call.todo[1] /\ 1 \in 1 .. Len(call.todo) /\ IsStep(call.todo[1])
         /\ \A n \in 1 .. Len(call'.todo) : /\ n + 1 \in 1 .. Len(call.todo)
                                            /\ call'.todo[n] = call.todo[n + 1]
         /\ \/ /\ StepDone /\ call'.failed = call.failed
               /\ Len(call'.todo) = Len(call.todo) - 1 /\ Len(call.todo) \in Nat \ {0}
            \/ StepFails /\ call'.todo = <<>> /\ call'.failed = TRUE
<1>1. call # None /\ call.todo # <<>> /\ IsCall(call)
  BY CallFacts DEF StepDone, StepFails
<1>2. call.todo \in Seq({call.todo[n] : n \in DOMAIN call.todo})
  BY <1>1 DEF IsCall
<1>3. /\ Len(call.todo) \in Nat \ {0} /\ Head(call.todo) = call.todo[1]
      /\ Len(Tail(call.todo)) = Len(call.todo) - 1
      /\ \A n \in 1 .. Len(call.todo) - 1 : Tail(call.todo)[n] = call.todo[n + 1]
      /\ Tail(call.todo) \in Seq({Tail(call.todo)[n] : n \in DOMAIN Tail(call.todo)})
  BY <1>1, <1>2, RestOfSequence
<1>4. 1 \in 1 .. Len(call.todo) /\ IsStep(call.todo[1])
  <2>1. 1 \in 1 .. Len(call.todo)
    BY <1>3
  <2> QED BY <2>1, <1>1, CallFacts
<1>5. /\ IsCall(call')
      /\ call'.rows = call.rows /\ call'.locks = call.locks /\ call'.onError = call.onError
      /\ \/ /\ StepDone /\ call'.failed = call.failed /\ call'.todo = Tail(call.todo)
         \/ StepFails /\ call'.todo = <<>> /\ call'.failed = TRUE
  <2>1. CASE StepDone
    <3> DEFINE todo == Tail(call.todo)
    <3>1. call' = [call EXCEPT !.todo = todo]
      BY <2>1 DEF StepDone
    <3>2. todo \in Seq({todo[n] : n \in DOMAIN todo})
      BY <1>3
    <3> HIDE DEF todo
    <3>3. /\ IsCall(call') /\ call'.rows = call.rows /\ call'.locks = call.locks
          /\ call'.onError = call.onError /\ call'.todo = todo /\ call'.failed = call.failed
      BY <3>1, <3>2, <1>1, CallGoesOn
    <3> QED BY <2>1, <3>3 DEF todo
  <2>2. CASE StepFails
    <3>1. call' = [call EXCEPT !.todo = <<>>, !.failed = TRUE]
      BY <2>2 DEF StepFails, Raised
    <3> QED BY <2>2, <3>1, <1>1, CallIsOver
  <2> QED BY <2>1, <2>2
<1>6. \A n \in 1 .. Len(call'.todo) : /\ n + 1 \in 1 .. Len(call.todo)
                                      /\ call'.todo[n] = call.todo[n + 1]
  <2>1. call'.todo = Tail(call.todo) \/ call'.todo = <<>>
    BY <1>5
  <2>2. PICK todo, rest, tail : todo = call.todo /\ rest = call'.todo /\ tail = Tail(call.todo)
    OBVIOUS
  <2>3. /\ Len(todo) \in Nat \ {0} /\ Len(tail) = Len(todo) - 1
        /\ \A n \in 1 .. Len(todo) - 1 : tail[n] = todo[n + 1]
    BY <2>2, <1>3
  <2>4. rest = tail \/ rest = <<>>
    BY <2>1, <2>2
  <2>5. \A n \in 1 .. Len(rest) : n + 1 \in 1 .. Len(todo) /\ rest[n] = todo[n + 1]
    BY ONLY <2>3, <2>4
  <2> QED BY <2>2, <2>5
<1>7. call'.failed \in BOOLEAN
  BY <1>1, <1>5, CallFacts
<1>8. call' # None
  <2>1. \A n \in 1 .. Len(call'.todo) : IsStep(call'.todo[n])
    BY <1>1, <1>6, CallFacts
  <2> QED BY <2>1, <1>1, <1>5, <1>7, CallFacts, NoCallIsNone
<1> QED BY <1>1, <1>3, <1>4, <1>5, <1>6, <1>7, <1>8
\* What a handler plans is a call like any other.
LEMMA PlannedIsTyped ==
  ASSUME TypeInv, Planned
  PROVE  TypeInv'
<1>1. /\ IsCall(call') /\ call'.failed \in BOOLEAN
      /\ \A n \in 1 .. Len(call'.todo) : IsStep(call'.todo[n])
      /\ DOMAIN call'.rows \subseteq Children
      /\ \A r \in DOMAIN call'.rows : call'.rows[r] \in Rows(r)
      /\ LB \in DOMAIN call'.locks /\ DOMAIN call'.locks \subseteq Resources
      /\ \A r \in DOMAIN call'.locks : call'.locks[r] \in Pending
      /\ \A r \in DOMAIN call'.rows : r \in DOMAIN call'.locks \/ db[r] # None
      /\ call'.onError # None => IsReport(call'.onError)
  BY DEF Planned, WellTyped, WellLocked
<1>2. \A r \in DOMAIN call'.locks \cap Children : r \in DOMAIN call'.rows \/ db[r] # None
  <2> SUFFICES ASSUME NEW r \in DOMAIN call'.locks \cap Children
               PROVE  r \in DOMAIN call'.rows \/ db[r] # None
    OBVIOUS
  <2>1. Lockable(r, call')
    BY DEF Planned, WellLocked
  <2>2. prov[r] = "ACTIVE" => db[r] # None
    BY RowsWhereActive
  <2> QED BY <2>1, <2>2 DEF Lockable
<1>3. UNCHANGED <<db, prov, rules, reports>>
  BY DEF Planned
<1> QED BY <1>1, <1>2, <1>3 DEF TypeInv, TypeOK

\* A request leaves rules where there were rules.
LEMMA PerformedIsTyped ==
  ASSUME NEW s, IsStep(s), rules \in [Listeners -> Rules \cup {None}]
  PROVE  Performed(s) \in [Listeners -> Rules \cup {None}]
<1>1. CASE s.verb = "POST"
  <2>1. s.arg \in Rules /\ s.arg.port \in Listeners
    BY <1>1 DEF IsStep, Rules
  <2>2. Performed(s) = [rules EXCEPT ![s.arg.port] = s.arg]
    BY <1>1 DEF Performed
  <2> QED BY <2>1, <2>2
<1>2. CASE s.verb = "DELETE"
  <2>1. Performed(s) = [rules EXCEPT ![s.arg] = None]
    BY <1>2 DEF Performed
  <2> QED BY <2>1
<1>3. CASE s.verb = "DELETE_BY_NAME"
  <2>1. Performed(s) = [l \in Listeners |-> IF rules[l] # None /\ rules[l].name = s.arg
                                           THEN None ELSE rules[l]]
    BY <1>3 DEF Performed
  <2> QED BY <2>1
<1>4. CASE s.verb \notin {"POST", "DELETE", "DELETE_BY_NAME"}
  BY <1>4 DEF Performed
<1> QED BY <1>1, <1>2, <1>3, <1>4

LEMMA StepIsTyped ==
  ASSUME TypeInv, StepDone \/ StepFails
  PROVE  TypeInv'
<1>1. /\ call # None /\ call' # None /\ IsCall(call')
      /\ call'.rows = call.rows /\ call'.locks = call.locks /\ call'.onError = call.onError
      /\ call'.failed \in BOOLEAN
      /\ Head(call.todo) = call.todo[1] /\ IsStep(call.todo[1])
      /\ \A n \in 1 .. Len(call'.todo) : /\ n + 1 \in 1 .. Len(call.todo)
                                         /\ call'.todo[n] = call.todo[n + 1]
  BY StepEffect
<1>2. \A n \in 1 .. Len(call'.todo) : IsStep(call'.todo[n])
  BY <1>1, CallFacts
<1>3. UNCHANGED <<db, prov>> /\ rules' \in {rules, Performed(call.todo[1])}
  BY <1>1 DEF StepDone, StepFails
<1>4. rules' \in [Listeners -> Rules \cup {None}]
  BY <1>1, <1>3, PerformedIsTyped DEF TypeInv, TypeOK
<1>5. \A p \in reports' : IsReport(p)
  <2>1. reports' \in {Sent(call.todo[1].report), Sent(call.onError)}
    BY <1>1 DEF StepDone, StepFails, ReportedOnError
  <2>2. call.todo[1].report # None => IsReport(call.todo[1].report)
    BY <1>1 DEF IsStep
  <2>3. call.onError # None => IsReport(call.onError)
    BY <1>1, CallFacts
  <2> QED BY <2>1, <2>2, <2>3 DEF Sent, TypeInv, TypeOK
<1> QED BY <1>1, <1>2, <1>3, <1>4, <1>5, CallFacts DEF TypeInv, TypeOK

LEMMA CommitIsTyped ==
  ASSUME TypeInv, Commit
  PROVE  TypeInv'
<1>1. call # None /\ call' = None /\ UNCHANGED <<rules, reports>>
  BY DEF Commit
<1>2. /\ db' = [r \in Children |-> IF r \in DOMAIN call.rows THEN call.rows[r] ELSE db[r]]
      /\ prov' = [r \in Resources |-> IF r \in DOMAIN call.locks THEN call.locks[r] ELSE prov[r]]
  BY DEF Commit, Written
<1>3. prov' \in [Resources -> Statuses]
  BY <1>1, <1>2, CallFacts DEF TypeInv, TypeOK, Statuses
<1>4. ASSUME NEW r \in Children
      PROVE  /\ db'[r] = None \/ db'[r] \in Rows(r)
             /\ db'[r] = None <=> prov'[r] = "NONE"
             /\ prov'[r] # "DELETED"
  <2>1. /\ r \in Resources
        /\ db'[r] = IF r \in DOMAIN call.rows THEN call.rows[r] ELSE db[r]
        /\ prov'[r] = IF r \in DOMAIN call.locks THEN call.locks[r] ELSE prov[r]
    BY <1>2 DEF Resources
  <2>2. r \in DOMAIN call.rows => call.rows[r] \in Rows(r) /\ call.rows[r] # None
    BY <1>1, CallFacts, NoneAssumption
  <2>3. r \in DOMAIN call.locks => call.locks[r] \notin {"NONE", "DELETED"}
    BY <1>1, CallFacts DEF Pending
  <2>4. /\ r \in DOMAIN call.rows => r \in DOMAIN call.locks \/ db[r] # None
        /\ r \in DOMAIN call.locks => r \in DOMAIN call.rows \/ db[r] # None
    BY <1>1, CallFacts
  <2>5. /\ db[r] = None \/ db[r] \in Rows(r)
        /\ db[r] = None <=> prov[r] = "NONE"
        /\ prov[r] # "DELETED"
    BY DEF TypeInv, TypeOK
  <2> QED BY <2>1, <2>2, <2>3, <2>4, <2>5
<1> QED BY <1>1, <1>3, <1>4 DEF TypeInv, TypeOK

\* A report is applied: rows go, statuses change.
LEMMA ApplyIsTyped ==
  ASSUME TypeInv, NEW p \in reports, Known(p), Apply(p), call = None, UNCHANGED <<rules, call>>,
         reports' = reports \ {p}
  PROVE  TypeInv'
<1>1. IsReport(p)
  BY DEF TypeInv, TypeOK
<1>2. /\ db' = [r \in Children |->
                  IF r \in Removed(p) THEN None
                  ELSE IF r \in Pools /\ db[r] # None /\ db[r].listener_id \in Removed(p)
                  THEN [db[r] EXCEPT !.listener_id = None]
                  ELSE db[r]]
      /\ prov' = [r \in Resources |-> IF r \in Removed(p) THEN "NONE"
                                      ELSE IF r \in DOMAIN p THEN p[r] ELSE prov[r]]
  BY DEF Apply
<1>3. \A r \in DOMAIN p : p[r] \in {"ACTIVE", "ERROR", "DELETED"} /\ prov[r] # "NONE"
  BY <1>1 DEF IsReport, Known
<1>4. prov' \in [Resources -> Statuses]
  BY <1>2, <1>3 DEF TypeInv, TypeOK, Statuses
<1>5. ASSUME NEW r \in Children
      PROVE  /\ db'[r] = None \/ db'[r] \in Rows(r)
             /\ db'[r] = None <=> prov'[r] = "NONE"
             /\ prov'[r] # "DELETED"
  <2>1. r \in Resources
    BY DEF Resources
  <2>2. /\ db[r] = None \/ db[r] \in Rows(r)
        /\ db[r] = None <=> prov[r] = "NONE"
        /\ prov[r] # "DELETED"
    BY DEF TypeInv, TypeOK
  <2>3. CASE r \in Removed(p)
    BY <1>2, <2>1, <2>3
  <2>4. CASE r \notin Removed(p)
    <3>1. prov'[r] = IF r \in DOMAIN p THEN p[r] ELSE prov[r]
      BY <1>2, <2>1, <2>4
    <3>2. r \in DOMAIN p => p[r] # "DELETED"
      BY <2>4 DEF Removed
    <3>3. CASE r \in Pools /\ db[r] # None /\ db[r].listener_id \in Removed(p)
      <4>1. db'[r] = [db[r] EXCEPT !.listener_id = None]
        BY <1>2, <2>4, <3>3
      <4>2. db[r] \in [listener_id : Listeners \cup {None}, lb_algorithm : Algorithms,
                       session_persistence : Persistences \cup {None}]
        BY <2>2, <3>3, RowsByKind
      <4>3. db'[r] \in Rows(r)
        BY <4>1, <4>2, <3>3, RowsByKind
      <4>4. db'[r] # None
        BY <4>3, NoneAssumption
      <4> QED BY <4>3, <4>4, <3>1, <3>2, <3>3, <2>2, <1>3
    <3>4. CASE ~ (r \in Pools /\ db[r] # None /\ db[r].listener_id \in Removed(p))
      <4>1. db'[r] = db[r]
        BY <1>2, <2>4, <3>4
      <4> QED BY <4>1, <3>1, <3>2, <2>2, <1>3
    <3> QED BY <3>3, <3>4
  <2> QED BY <2>3, <2>4
<1>6. /\ rules' = rules /\ call' = call /\ \A q \in reports' : q \in reports
  OBVIOUS
<1> QED BY <1>4, <1>5, <1>6 DEF TypeInv, TypeOK

LEMMA TypesInitially == Init => TypeInv
<1> SUFFICES ASSUME Init PROVE TypeInv
  OBVIOUS
<1>1. \A r \in Children : r \in Resources /\ db[r] = None /\ prov[r] = "NONE"
  BY DEF Init, Resources
<1>2. prov \in [Resources -> Statuses] /\ rules \in [Listeners -> Rules \cup {None}]
  BY DEF Init, Statuses
<1>3. call = None /\ reports = {}
  BY DEF Init
<1> QED BY <1>1, <1>2, <1>3 DEF TypeInv, TypeOK

LEMMA TypesPreserved == TypeInv /\ [Next]_vars => TypeInv'
<1> SUFFICES ASSUME TypeInv, [Next]_vars PROVE TypeInv'
  OBVIOUS
<1>1. CASE Handler
  BY <1>1, HandlerPlans, PlannedIsTyped
<1>2. CASE StepDone \/ StepFails
  BY <1>2, StepIsTyped
<1>3. CASE Commit
  BY <1>3, CommitIsTyped
<1>4. CASE Rollback
  BY <1>4 DEF Rollback, TypeInv, TypeOK
<1>5. CASE Deliver
  <2>1. PICK p \in reports : /\ reports' = reports \ {p}
                             /\ IF Known(p) THEN Apply(p) ELSE UNCHANGED <<db, prov>>
    BY <1>5 DEF Deliver
  <2>2. call = None /\ UNCHANGED <<rules, call>>
    BY <1>5 DEF Deliver
  <2>3. CASE Known(p)
    BY <2>1, <2>2, <2>3, ApplyIsTyped
  <2>4. CASE ~ Known(p)
    BY <2>1, <2>2, <2>4 DEF TypeInv, TypeOK
  <2> QED BY <2>3, <2>4
<1>6. CASE DeliverEarly
  <2>1. UNCHANGED <<db, prov, rules, call>> /\ \A q \in reports' : q \in reports
    BY <1>6 DEF DeliverEarly
  <2> QED BY <2>1 DEF TypeInv, TypeOK
<1>7. CASE UNCHANGED vars
  BY <1>7 DEF vars, TypeInv, TypeOK
<1> QED BY <1>1, <1>2, <1>3, <1>4, <1>5, <1>6, <1>7 DEF Next, Service

\* The driver's variables keep their types: a child has a row of its kind exactly while
\* it has a status, a lock is one of the pending statuses, and LoxiLB holds only rules
\* the translator makes.
THEOREM DriverTypesAreKept == Spec => []TypeOK
<1>1. TypeInv => TypeOK
  BY DEF TypeInv
<1> QED BY <1>1, TypesInitially, TypesPreserved, PTL DEF Spec
=============================================================================
