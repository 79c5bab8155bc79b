--------------------------- MODULE ProviderDriver ---------------------------
(***************************************************************************)
(* octavia_loxilb/driver.py with the status reports of                     *)
(* status/synchronizer.py: one load balancer, the API calls Octavia makes  *)
(* for it, the requests the driver sends to LoxiLB and the delayed status  *)
(* reports it sends back.                                                  *)
(*                                                                         *)
(* A handler of the driver is an action of this module.  Octavia calls it  *)
(* inside a transaction that is not committed yet: what the handler reads  *)
(* through driver_lib (get_loadbalancer, get_listener, get_pool) is the    *)
(* last committed state db, while the objects it is passed show the state  *)
(* after the call.  A handler computes the requests it will make from what *)
(* it reads at its start; the load balancer is locked, so reading later    *)
(* would give the same.  The requests and reports are then carried out one *)
(* after the other, and Octavia commits, or rolls back on an exception.    *)
(*                                                                         *)
(* External, modelled from how the driver uses it: Octavia's database and  *)
(* its PENDING lock, the status agent, and one LoxiLB node with one rule   *)
(* per listener.  How a request reaches a node is LoxiLBClient's subject.  *)
(***************************************************************************)
EXTENDS Translator, SequencesExt

CONSTANTS LB,             \* the load balancer
          Listeners, Pools, Members, Monitors,     \* identifiers of its children
          Protocols, Algorithms, Persistences, MonitorTypes, \* what users ask for
          Operations,     \* the API calls users make
          UpdateObjects,  \* how much of the resource new_... of an update holds
          GetsMayFail,    \* may driver_lib.get_... fail?
          RestMayFail,    \* may a request to LoxiLB fail?
          CommitFirst     \* does Octavia commit within the delay of a report?

Children == Listeners \cup Pools \cup Members \cup Monitors
Resources == {LB} \cup Children

ASSUME ResourcesAssumption ==
  /\ LB \notin Children
  /\ Listeners \cap (Pools \cup Members \cup Monitors) = {}
  /\ Pools \cap (Members \cup Monitors) = {}
  /\ Members \cap Monitors = {}
  /\ {None, Refused} \cap Resources = {}
  /\ IsFiniteSet(Listeners)

ASSUME OptionsAssumption ==
  /\ UpdateObjects \subseteq {"full", "changes"}
  /\ GetsMayFail \in BOOLEAN /\ RestMayFail \in BOOLEAN /\ CommitFirst \in BOOLEAN

Pending == {"PENDING_CREATE", "PENDING_UPDATE", "PENDING_DELETE"}
Statuses == Pending \cup {"NONE", "ACTIVE", "ERROR", "DELETED"}

VARIABLES
  db,       \* db[r]: the committed row of child r, None without one (external)
  prov,     \* prov[r]: its committed provisioning_status (external)
  rules,    \* rules[l]: the LoxiLB rule on the VIP and port of l (external)
  call,     \* the API call being served, None without one
  reports   \* status reports waiting in their threads

vars == <<db, prov, rules, call, reports>>

Rows(r) ==
  CASE r \in Listeners -> [protocol : Protocols]
    [] r \in Pools     -> [listener_id : Listeners \cup {None}, lb_algorithm : Algorithms,
                           session_persistence : Persistences \cup {None}]
    [] r \in Members   -> [pool_id : Pools, admin_state_up : BOOLEAN]
    [] r \in Monitors  -> [pool_id : Pools, type : MonitorTypes, admin_state_up : BOOLEAN]

Rules == [port : Listeners, name : {LB} \X Listeners,
          sel : {0, 3, 4}, probetype : {"tcp", "http", "https", "ping", "udp", None},
          endpoints : SUBSET Members]

\* The objects octavia-lib makes of the rows.
MemberObjects == [member_id : Members, pool_id : Pools, admin_state_up : BOOLEAN]
MonitorObjects == [healthmonitor_id : Monitors, pool_id : Pools, type : MonitorTypes,
                   admin_state_up : BOOLEAN]
PoolObjects == [pool_id : Pools, loadbalancer_id : {LB}, listener_id : Listeners \cup {None},
                lb_algorithm : Algorithms, session_persistence : Persistences \cup {None},
                members : SUBSET MemberObjects, healthmonitor : MonitorObjects \cup {None}]
ListenerObjects == [listener_id : Listeners, loadbalancer_id : {LB},
                    protocol_port : Listeners, protocol : Protocols,
                    default_pool : PoolObjects \cup {None}]

\* What the driver deletes by name.
Names == {<<LB>>} \cup ({"unknown_lb"} \X Listeners)

Verbs == {"POST", "DELETE", "DELETE_BY_NAME", "NONE", "RAISE"}
Reports == UNION {[S -> {"ACTIVE", "ERROR", "DELETED"}] : S \in SUBSET Resources}

\* The calls that write rows for S and lock R.
Calls(S, R) ==
  [todo : Seq([verb : Verbs, arg : Rules \cup Listeners \cup Names \cup {None},
               report : Reports \cup {None}]),
   rows : [S -> UNION {Rows(r) : r \in Children}], locks : [R -> Pending],
   onError : Reports \cup {None}, failed : BOOLEAN]

\* None, or Refused, is none of the things that may be there instead.
ASSUME NoneAssumption ==
  /\ \A r \in Children : None \notin Rows(r)
  /\ None \notin Rules \cup PoolObjects \cup ListenerObjects
  /\ None \notin Reports
  /\ \A S \in SUBSET Children, R \in SUBSET Resources : None \notin Calls(S, R)
  /\ \A S \in SUBSET MemberObjects : None # S
  /\ None \notin MonitorObjects
  /\ None \notin BOOLEAN /\ None \notin Algorithms /\ None \notin MonitorTypes
  /\ None \notin {"tcp", "http", "https", "ping", "udp", "HTTP_COOKIE", "APP_COOKIE"}
  /\ Refused \notin Rules

IsReport(p) == /\ p \in [DOMAIN p -> {"ACTIVE", "ERROR", "DELETED"}]
               /\ DOMAIN p \subseteq Resources

IsStep(s) == /\ s = [verb |-> s.verb, arg |-> s.arg, report |-> s.report]
             /\ s.verb \in Verbs
             /\ s.verb = "POST" => s.arg \in Rules
             /\ s.verb = "DELETE" => s.arg \in Listeners
             /\ s.verb = "DELETE_BY_NAME" => s.arg \in Names
             /\ s.verb \in {"NONE", "RAISE"} => s.arg = None
             /\ s.report # None => IsReport(s.report)

TypeOK ==
  /\ \A r \in Children : db[r] = None \/ db[r] \in Rows(r)
  /\ prov \in [Resources -> Statuses]
  /\ rules \in [Listeners -> Rules \cup {None}]
  /\ call # None => /\ \A n \in 1 .. Len(call.todo) : IsStep(call.todo[n])
                    /\ \A r \in DOMAIN call.rows : call.rows[r] \in Rows(r)
                    /\ \A r \in DOMAIN call.locks : call.locks[r] \in Pending
                    /\ call.onError # None => IsReport(call.onError)
                    /\ call.failed \in BOOLEAN
  /\ \A p \in reports : IsReport(p)

Init == /\ db = [r \in Children |-> None]
        /\ prov = [r \in Resources |-> "NONE"]
        /\ rules = [l \in Listeners |-> None]
        /\ call = None
        /\ reports = {}
-----------------------------------------------------------------------------
(* External: the objects octavia-lib shows for a database d. *)

ProviderMember(d, m) == [member_id |-> m, pool_id |-> d[m].pool_id,
                         admin_state_up |-> d[m].admin_state_up]

ProviderMonitor(d, h) == [healthmonitor_id |-> h, pool_id |-> d[h].pool_id,
                          type |-> d[h].type, admin_state_up |-> d[h].admin_state_up]

InPool(d, p, S) == {r \in S : d[r] # None /\ d[r].pool_id = p}

ProviderPool(d, p) ==
  [pool_id |-> p, loadbalancer_id |-> LB, listener_id |-> d[p].listener_id,
   lb_algorithm |-> d[p].lb_algorithm, session_persistence |-> d[p].session_persistence,
   members |-> {ProviderMember(d, m) : m \in InPool(d, p, Members)},
   healthmonitor |-> LET hs == InPool(d, p, Monitors) IN
                     IF hs = {} THEN None ELSE ProviderMonitor(d, CHOOSE h \in hs : TRUE)]

DefaultPools(d, l) == {p \in Pools : d[p] # None /\ d[p].listener_id = l}

ProviderListener(d, l) ==
  [listener_id |-> l, loadbalancer_id |-> LB, protocol_port |-> l,
   protocol |-> d[l].protocol,
   default_pool |-> LET ps == DefaultPools(d, l) IN
                    IF ps = {} THEN None ELSE ProviderPool(d, CHOOSE p \in ps : TRUE)]

\* The database after rows have been written.
Written(rows) == [r \in Children |-> IF r \in DOMAIN rows THEN rows[r] ELSE db[r]]

\* new_... of an update: everything, as the handlers read it, or only what changed;
\* "Fields not included in an update are represented using octavia-lib's Unset"
\* (docs/research/OCTAVIA_ARCHITECTURE.md).  No test calls an update handler.
Shown(kind, object, id, changed) ==
  [f \in DOMAIN object |->
     IF kind = "full" \/ f \in {id} \cup changed THEN object[f] ELSE None]

\* The driver_lib getters that answer during a call.
Gets == IF GetsMayFail THEN SUBSET {"loadbalancer", "listener", "pool"}
                       ELSE {{"loadbalancer", "listener", "pool"}}
-----------------------------------------------------------------------------
(* What a handler does: a sequence of steps, each a request to LoxiLB (or  *)
(* none) and the status report it sends once the request has succeeded.    *)

Post(entry, report) == [verb |-> "POST", arg |-> entry, report |-> report]
Delete(l, report) == [verb |-> "DELETE", arg |-> l, report |-> report]
DeleteByName(name, report) == [verb |-> "DELETE_BY_NAME", arg |-> name, report |-> report]
Report(report) == [verb |-> "NONE", arg |-> None, report |-> report]
Raise == [verb |-> "RAISE", arg |-> None, report |-> None]

\* Faulty variants: a parent nobody could find is reported all the same; the
\* parents are forgotten.
StatusOfUnknownParents(changed, parents) ==
  [r \in DOMAIN changed \cup parents |->
     IF r \in DOMAIN changed THEN changed[r] ELSE "ACTIVE"]

StatusWithoutParents(changed, parents) == changed

\* update_..._status: the resource itself, and its known parents as ACTIVE.
StatusOf(changed, parents) ==
  [r \in DOMAIN changed \cup (parents \ {None}) |->
     IF r \in DOMAIN changed THEN changed[r] ELSE "ACTIVE"]

Only(r, value) == [x \in {r} |-> value]

resolve_loadbalancer(loadbalancer_id, gets) ==
  IF loadbalancer_id # None /\ "loadbalancer" \in gets THEN LB ELSE None

resolve_listener(listener_id, gets) ==
  IF listener_id # None /\ "listener" \in gets /\ db[listener_id] # None
  THEN ProviderListener(db, listener_id) ELSE None

IdOf(listener) == IF listener = None THEN None ELSE listener.listener_id

\* A rule without endpoints is deleted rather than posted.
reconcile_service(listener, pool, members, healthmonitor, report) ==
  LET entry == to_loxilb_service(LB, listener, pool, members, healthmonitor)
  IN  IF entry = Refused THEN Raise
      ELSE IF entry.endpoints # {} THEN Post(entry, report)
      ELSE Delete(entry.port, report)

\* The handlers of members and health monitors find the rest of the tree from
\* the pool; without pool, load balancer and listener they only report.
below_pool(pool_id, changed, gets, members, healthmonitor) ==
  LET pool == IF pool_id # None /\ "pool" \in gets THEN ProviderPool(db, pool_id) ELSE None
      lb == IF pool = None THEN None ELSE resolve_loadbalancer(pool.loadbalancer_id, gets)
      listener == IF pool = None THEN None ELSE resolve_listener(pool.listener_id, gets)
      report == StatusOf(changed, {pool_id, IdOf(listener), lb})
  IN  IF lb # None /\ listener # None
      THEN reconcile_service(listener, pool, members, healthmonitor, report)
      ELSE Report(report)

\* Faulty variant: the deletion is reported and never asked for.
deletion_only_reported(l, gets) ==
  Report(StatusOf(Only(l, "DELETED"), {resolve_loadbalancer(LB, gets)}))

\* listener_delete, which loadbalancer_delete calls too.
deletion_of_listener(l, gets) ==
  LET lb == resolve_loadbalancer(LB, gets)
      report == StatusOf(Only(l, "DELETED"), {lb})
  IN  IF lb # None THEN Delete(l, report)
      ELSE DeleteByName(generate_service_name("unknown_lb", l), report)
-----------------------------------------------------------------------------
(* External: Octavia accepts an API call on resources that are not locked, *)
(* locks them, and calls the driver.                                       *)

Mutable(rs) == \A r \in rs : prov[r] = "ACTIVE"

AboveListener == {LB}
AbovePool(p) == {LB} \cup ({db[p].listener_id} \ {None})

Locks(locked, parents) ==
  [r \in DOMAIN locked \cup parents |->
     IF r \in DOMAIN locked THEN locked[r] ELSE "PENDING_UPDATE"]

ServeOr(operation, todo, rows, locks, onError) ==
  /\ operation \in Operations
  /\ call = None
  /\ call' = [todo |-> todo, rows |-> rows, locks |-> locks, onError |-> onError,
              failed |-> FALSE]
  /\ UNCHANGED <<db, prov, rules, reports>>

Serve(operation, todo, rows, locks) == ServeOr(operation, todo, rows, locks, None)

NoRows == [r \in {} |-> None]

Orders(S) == SetToSeqs(S)
-----------------------------------------------------------------------------
(* Load balancer operations *)

\* The rows of children that hang together: a listener has one default pool, a pool
\* one monitor.
Rooted(rows) ==
  /\ \A p \in Pools \cap DOMAIN rows : rows[p].listener_id \in {None} \cup DOMAIN rows
  /\ \A p, q \in Pools \cap DOMAIN rows :
       rows[p].listener_id # None /\ rows[p].listener_id = rows[q].listener_id => p = q
  /\ \A r \in (Members \cup Monitors) \cap DOMAIN rows : rows[r].pool_id \in DOMAIN rows
  /\ \A h, k \in Monitors \cap DOMAIN rows : rows[h].pool_id = rows[k].pool_id => h = k

\* Rows for some of the resources of one kind.
SomeRows(S) == UNION {[T -> UNION {Rows(r) : r \in S}] : T \in SUBSET S}

Joined(f, g) == [r \in DOMAIN f \cup DOMAIN g |-> IF r \in DOMAIN f THEN f[r] ELSE g[r]]

\* The children a load balancer can be created with.
Trees ==
  {rows \in {Joined(Joined(ls, ps), Joined(ms, hs)) :
               ls \in SomeRows(Listeners), ps \in SomeRows(Pools),
               ms \in SomeRows(Members), hs \in SomeRows(Monitors)} : Rooted(rows)}

\* Faulty variant: the listeners of the tree are left for later.
configure_no_listener(d, order) == <<>>

\* One request per listener, in the order of the list.
configure_listeners(d, order) ==
  [n \in DOMAIN order |->
     reconcile_service(ProviderListener(d, order[n]), None, None, None, None)]

loadbalancer_create ==
  /\ prov[LB] \in {"NONE", "DELETED"} /\ reports = {}
  /\ \A c \in Children : prov[c] = "NONE"
  /\ \E rows \in IF "tree" \in Operations THEN Trees ELSE {NoRows} :
     \E order \in Orders(Listeners \cap DOMAIN rows) :
       ServeOr("loadbalancer_create",
               Append(configure_listeners(Written(rows), order), Report(Only(LB, "ACTIVE"))),
               rows, [r \in {LB} \cup DOMAIN rows |-> "PENDING_CREATE"],
               IF order = <<>> THEN None ELSE Only(LB, "ERROR"))

\* new_loadbalancer has its listeners only when the whole object is passed.
loadbalancer_update ==
  /\ Mutable({LB})
  /\ \E kind \in UpdateObjects :
     \E order \in Orders(IF kind = "full" THEN {l \in Listeners : db[l] # None} ELSE {}) :
       Serve("loadbalancer_update",
             Append(configure_listeners(db, order), Report(Only(LB, "ACTIVE"))),
             NoRows, Only(LB, "PENDING_UPDATE"))

\* Octavia refuses to delete a load balancer with children unless cascade.  Each
\* listener_delete reads the load balancer for itself.
loadbalancer_delete(cascade) ==
  /\ Mutable({LB})
  /\ cascade \/ \A c \in Children : prov[c] = "NONE"
  /\ \E gets \in [Listeners -> Gets], order \in Orders({l \in Listeners : db[l] # None}) :
       Serve(IF cascade THEN "cascade" ELSE "loadbalancer_delete",
             IF order = <<>>
             THEN <<DeleteByName(<<LB>>, Only(LB, "DELETED"))>>
             ELSE Append([n \in DOMAIN order |-> deletion_of_listener(order[n], gets[order[n]])],
                         Report(Only(LB, "DELETED"))),
             NoRows, Only(LB, "PENDING_DELETE"))

loadbalancer_failover ==
  /\ Mutable({LB})
  /\ Serve("loadbalancer_failover", <<Report(Only(LB, "ACTIVE"))>>,
           NoRows, Only(LB, "PENDING_UPDATE"))
-----------------------------------------------------------------------------
(* Listener operations *)

\* One pool that no listener has.
FreePools == {{p} : p \in {q \in Pools : prov[q] = "ACTIVE" /\ db[q].listener_id = None}}

\* A listener is created with a default pool that has no listener, or without.
listener_create(l) ==
  /\ prov[l] = "NONE" /\ Mutable({LB})
  /\ \E protocol \in Protocols, gets \in Gets,
        ps \in {{}} \cup FreePools :
       LET rows == [r \in {l} \cup ps |-> IF r = l THEN [protocol |-> protocol]
                                          ELSE [db[r] EXCEPT !.listener_id = l]]
           lb == resolve_loadbalancer(LB, gets)
           report == StatusOf(Only(l, "ACTIVE"), {lb})
       IN  Serve("listener_create",
                 <<IF lb = None THEN Report(report)
                   ELSE reconcile_service(ProviderListener(Written(rows), l),
                                          None, None, None, report)>>,
                 rows, Locks(Only(l, "PENDING_CREATE"), AboveListener))

\* The update gives the listener another default pool, takes it away or changes
\* something the rule does not show.
listener_update(l) ==
  /\ Mutable({LB, l})
  /\ \E kind \in UpdateObjects, gets \in Gets,
        ps \in {{}, DefaultPools(db, l)} \cup FreePools :
       LET rows == [r \in ps \cup DefaultPools(db, l) |->
                      [db[r] EXCEPT !.listener_id = IF r \in ps THEN l ELSE None]]
           new == Shown(kind, ProviderListener(Written(rows), l), "listener_id",
                        IF ps = DefaultPools(db, l) THEN {} ELSE {"default_pool"})
           lb == resolve_loadbalancer(new.loadbalancer_id, gets)
           report == StatusOf(Only(l, "ACTIVE"), {lb})
       IN  Serve("listener_update",
                 <<IF lb = None THEN Report(report)
                   ELSE reconcile_service(new, None, None, None, report)>>,
                 rows, Locks(Only(l, "PENDING_UPDATE"), AboveListener))

\* Faulty variant: the load balancer gets a report of its own.
listener_delete_reports_twice(l) ==
  /\ Mutable({LB, l})
  /\ \E gets \in Gets :
       Serve("listener_delete", <<deletion_of_listener(l, gets), Report(Only(LB, "ACTIVE"))>>,
             NoRows, Locks(Only(l, "PENDING_DELETE"), AboveListener))

listener_delete(l) ==
  /\ Mutable({LB, l})
  /\ \E gets \in Gets :
       Serve("listener_delete", <<deletion_of_listener(l, gets)>>,
             NoRows, Locks(Only(l, "PENDING_DELETE"), AboveListener))
-----------------------------------------------------------------------------
(* Pool operations *)

PoolStep(pool, changed, gets, members) ==
  LET lb == resolve_loadbalancer(pool.loadbalancer_id, gets)
      listener == resolve_listener(pool.listener_id, gets)
      report == StatusOf(changed, {IdOf(listener), lb})
  IN  IF lb # None /\ listener # None
      THEN reconcile_service(listener, IF members = None THEN pool ELSE None, members,
                             None, report)
      ELSE Report(report)

\* A pool is created for a listener that has none, or without a listener.
pool_create(p) ==
  /\ prov[p] = "NONE"
  /\ \E l \in {None} \cup {k \in Listeners : prov[k] = "ACTIVE" /\ DefaultPools(db, k) = {}},
        algorithm \in Algorithms, persistence \in Persistences \cup {None}, gets \in Gets :
       LET row == [listener_id |-> l, lb_algorithm |-> algorithm,
                   session_persistence |-> persistence]
           above == {LB, l} \ {None}
       IN  /\ Mutable(above)
           /\ Serve("pool_create",
                    <<PoolStep(ProviderPool(Written(Only(p, row)), p), Only(p, "ACTIVE"),
                               gets, None)>>,
                    Only(p, row), Locks(Only(p, "PENDING_CREATE"), above))

pool_update(p) ==
  /\ prov[p] = "ACTIVE" /\ Mutable(AbovePool(p))
  /\ \E kind \in UpdateObjects, algorithm \in Algorithms,
        persistence \in Persistences \cup {None}, gets \in Gets :
       LET row == [db[p] EXCEPT !.lb_algorithm = algorithm,
                                !.session_persistence = persistence]
           new == Shown(kind, ProviderPool(Written(Only(p, row)), p), "pool_id",
                        {"lb_algorithm", "session_persistence"})
       IN  Serve("pool_update", <<PoolStep(new, Only(p, "ACTIVE"), gets, None)>>,
                 Only(p, row), Locks(Only(p, "PENDING_UPDATE"), AbovePool(p)))

\* The listener is reconciled with pool None and members [].
pool_delete(p) ==
  /\ prov[p] = "ACTIVE" /\ Mutable(AbovePool(p))
  /\ \E gets \in Gets :
       Serve("pool_delete",
             <<PoolStep(ProviderPool(db, p), Only(p, "DELETED"), gets, {})>>,
             NoRows, Locks(Only(p, "PENDING_DELETE"), AbovePool(p)))
-----------------------------------------------------------------------------
(* Member operations *)

PoolIsMutable(p) == prov[p] = "ACTIVE" /\ Mutable(AbovePool(p))

LocksBelow(p, locked) == Locks(locked, {p} \cup AbovePool(p))

\* members = list(members) + [member]; before it a faulty variant that forgets
\* the list.
only_the_member(members, member) == {member}
with_member(members, member) == members \cup {member}

without_member(members, m) == {n \in members : n.member_id # m}

member_create(m) ==
  /\ prov[m] = "NONE"
  /\ \E p \in Pools, up \in BOOLEAN, gets \in Gets :
       LET row == [pool_id |-> p, admin_state_up |-> up]
           new == ProviderMember(Written(Only(m, row)), m)
       IN  /\ PoolIsMutable(p)
           /\ Serve("member_create",
                    <<below_pool(p, Only(m, "ACTIVE"), gets,
                                 with_member(ProviderPool(db, p).members, new), None)>>,
                    Only(m, row), LocksBelow(p, Only(m, "PENDING_CREATE")))

\* The handler passes the pool it reads, and never new_member itself.
member_update(m) ==
  /\ prov[m] = "ACTIVE" /\ PoolIsMutable(db[m].pool_id)
  /\ \E kind \in UpdateObjects, gets \in Gets :
       LET row == [db[m] EXCEPT !.admin_state_up = ~ @]
           new == Shown(kind, ProviderMember(Written(Only(m, row)), m), "member_id",
                        {"admin_state_up"})
       IN  Serve("member_update",
                 <<below_pool(new.pool_id, Only(m, "ACTIVE"), gets, None, None)>>,
                 Only(m, row), LocksBelow(db[m].pool_id, Only(m, "PENDING_UPDATE")))

member_delete(m) ==
  /\ prov[m] = "ACTIVE" /\ PoolIsMutable(db[m].pool_id)
  /\ \E gets \in Gets :
       LET members == without_member(ProviderPool(db, db[m].pool_id).members, m)
       IN  Serve("member_delete",
                 <<below_pool(db[m].pool_id, Only(m, "DELETED"), gets, members, None)>>,
                 NoRows, LocksBelow(db[m].pool_id, Only(m, "PENDING_DELETE")))

\* The call lists the members the pool is to have; the others are removed, and
\* nothing is reported of them.
member_batch_update(p) ==
  /\ PoolIsMutable(p)
  /\ \E ms \in SUBSET Members, up \in SUBSET Members, gets \in Gets :
       LET old == InPool(db, p, Members)
           removed == old \ ms
           rows == [m \in ms |-> [pool_id |-> p, admin_state_up |-> m \in up]]
           listed == {ProviderMember(Written(rows), m) : m \in ms}
       IN  /\ \A m \in ms \ old : prov[m] = "NONE"
           /\ up \subseteq ms
           /\ removed # {} => "member_batch_removal" \in Operations
           /\ Serve("member_batch_update",
                    <<below_pool(p, [m \in ms |-> "ACTIVE"], gets, listed, None)>>,
                    rows,
                    LocksBelow(p, [m \in ms \cup removed |->
                                     IF m \in removed THEN "PENDING_DELETE"
                                     ELSE IF m \in old THEN "PENDING_UPDATE"
                                     ELSE "PENDING_CREATE"]))
-----------------------------------------------------------------------------
(* Health monitor operations *)

\* A pool has at most one health monitor.
health_monitor_create(h) ==
  /\ prov[h] = "NONE"
  /\ \E p \in Pools, type \in MonitorTypes, up \in BOOLEAN, gets \in Gets :
       LET row == [pool_id |-> p, type |-> type, admin_state_up |-> up]
       IN  /\ PoolIsMutable(p) /\ InPool(db, p, Monitors) = {}
           /\ Serve("health_monitor_create",
                    <<below_pool(p, Only(h, "ACTIVE"), gets, None,
                                 ProviderMonitor(Written(Only(h, row)), h))>>,
                    Only(h, row), LocksBelow(p, Only(h, "PENDING_CREATE")))

health_monitor_update(h) ==
  /\ prov[h] = "ACTIVE" /\ PoolIsMutable(db[h].pool_id)
  /\ \E kind \in UpdateObjects, gets \in Gets :
       LET row == [db[h] EXCEPT !.admin_state_up = ~ @]
           new == Shown(kind, ProviderMonitor(Written(Only(h, row)), h), "healthmonitor_id",
                        {"admin_state_up"})
       IN  Serve("health_monitor_update",
                 <<below_pool(new.pool_id, Only(h, "ACTIVE"), gets, None, new)>>,
                 Only(h, row), LocksBelow(db[h].pool_id, Only(h, "PENDING_UPDATE")))

\* healthmonitor=None: to_loxilb_service then takes the one the pool still has.
health_monitor_delete(h) ==
  /\ prov[h] = "ACTIVE" /\ PoolIsMutable(db[h].pool_id)
  /\ \E gets \in Gets :
       Serve("health_monitor_delete",
             <<below_pool(db[h].pool_id, Only(h, "DELETED"), gets, None, None)>>,
             NoRows, LocksBelow(db[h].pool_id, Only(h, "PENDING_DELETE")))
-----------------------------------------------------------------------------
(* L7 policies and rules of a listener: all six handlers refuse the call. *)

l7policy_or_l7rule(l) ==
  /\ Mutable({LB, l})
  /\ Serve("l7", <<Raise>>, NoRows, Locks(Only(l, "PENDING_UPDATE"), AboveListener))
-----------------------------------------------------------------------------
(* Carrying a call out *)

\* What LoxiLB holds after a step's request.
Performed(s) ==
  CASE s.verb = "POST"           -> [rules EXCEPT ![s.arg.port] = s.arg]
    [] s.verb = "DELETE"         -> [rules EXCEPT ![s.arg] = None]
    [] s.verb = "DELETE_BY_NAME" -> [l \in Listeners |->
                                       IF rules[l] # None /\ rules[l].name = s.arg
                                       THEN None ELSE rules[l]]
    [] OTHER                     -> rules

\* Two threads with the same report are one here: it sets the same rows either way, and
\* ReportsDoNotRace forbids them.
Sent(report) == IF report = None THEN reports ELSE reports \cup {report}

\* The request succeeds; update_status starts the thread of the report.
StepDone ==
  /\ call # None /\ call.todo # <<>>
  /\ Head(call.todo).verb # "RAISE"
  /\ rules' = Performed(Head(call.todo))
  /\ reports' = Sent(Head(call.todo).report)
  /\ call' = [call EXCEPT !.todo = Tail(@)]
  /\ UNCHANGED <<db, prov>>

\* An exception leaves the handler; before it a faulty variant that swallows it.
Swallowed == [call EXCEPT !.todo = <<>>]
Raised == [call EXCEPT !.todo = <<>>, !.failed = TRUE]

\* Only loadbalancer_create reports a failure; before it a faulty variant that
\* reports success in a finally clause.
ReportedFinally == Sent(Head(call.todo).report)
ReportedOnError == Sent(call.onError)

\* The translator refuses, or the client raises: LoxiLB may or may not have
\* carried the request out.  The rest of the handler is skipped.
StepFails ==
  /\ call # None /\ call.todo # <<>>
  /\ LET s == Head(call.todo) IN
       \/ s.verb = "RAISE" /\ rules' = rules
       \/ /\ RestMayFail /\ s.verb \in {"POST", "DELETE", "DELETE_BY_NAME"}
          /\ rules' \in {rules, Performed(s)}
  /\ reports' = ReportedOnError
  /\ call' = Raised
  /\ UNCHANGED <<db, prov>>

\* External: the handler has returned, Octavia commits.
Commit ==
  /\ call # None /\ call.todo = <<>> /\ ~ call.failed
  /\ db' = Written(call.rows)
  /\ prov' = [r \in Resources |-> IF r \in DOMAIN call.locks THEN call.locks[r] ELSE prov[r]]
  /\ call' = None
  /\ UNCHANGED <<rules, reports>>

\* External: the handler has raised, Octavia rolls back, the locks included.
Rollback ==
  /\ call # None /\ call.failed
  /\ call' = None
  /\ UNCHANGED <<db, prov, rules, reports>>

\* External: the status agent refuses a report about a resource it has no row of.
Known(p) == \A r \in DOMAIN p : prov[r] # "NONE"

\* External: DELETED removes the row of a child, and what hangs below a pool.
Removed(p) ==
  LET gone == {r \in Children \cap DOMAIN p : p[r] = "DELETED"}
  IN  gone \cup UNION {InPool(db, q, Members \cup Monitors) : q \in gone \cap Pools}

Apply(p) ==
  /\ db' = [r \in Children |->
              IF r \in Removed(p) THEN None
              ELSE IF r \in Pools /\ db[r] # None /\ db[r].listener_id \in Removed(p)
              THEN [db[r] EXCEPT !.listener_id = None]
              ELSE db[r]]
  /\ prov' = [r \in Resources |-> IF r \in Removed(p) THEN "NONE"
                                  ELSE IF r \in DOMAIN p THEN p[r] ELSE prov[r]]

\* The thread of a report has slept its 0.15 s; the rows a call has locked are
\* only reached after the call.
Deliver ==
  /\ call = None
  /\ \E p \in reports : /\ reports' = reports \ {p}
                        /\ IF Known(p) THEN Apply(p) ELSE UNCHANGED <<db, prov>>
  /\ UNCHANGED <<rules, call>>

\* The report comes before the commit it was to wait for.
DeliverEarly ==
  /\ ~ CommitFirst /\ call # None
  /\ \E p \in reports : ~ Known(p) /\ reports' = reports \ {p}
  /\ UNCHANGED <<db, prov, rules, call>>

Handler ==
  \/ loadbalancer_create \/ loadbalancer_update \/ loadbalancer_failover
  \/ loadbalancer_delete(TRUE) \/ loadbalancer_delete(FALSE)
  \/ \E l \in Listeners : listener_create(l) \/ listener_update(l) \/ listener_delete(l)
  \/ \E p \in Pools : pool_create(p) \/ pool_update(p) \/ pool_delete(p)
  \/ \E m \in Members : member_create(m) \/ member_update(m) \/ member_delete(m)
  \/ \E p \in Pools : member_batch_update(p)
  \/ \E h \in Monitors : \/ health_monitor_create(h) \/ health_monitor_update(h)
                         \/ health_monitor_delete(h)
  \/ \E l \in Listeners : l7policy_or_l7rule(l)

Service == StepDone \/ StepFails \/ Commit \/ Rollback

Next == Handler \/ Service \/ Deliver \/ DeliverEarly

\* A handler runs to its end and a status thread wakes up; users need not call.
Fairness == WF_vars(Service) /\ WF_vars(Deliver)

Spec == Init /\ [][Next]_vars
FairSpec == Spec /\ Fairness
-----------------------------------------------------------------------------
(* Properties *)

\* Nothing is under way: no call, no report.
Settled == call = None /\ reports = {}

\* The configuration Octavia has committed to, deletions included.
Wanted(r) == db[r] # None /\ prov[r] # "PENDING_DELETE"

Exists(l) == Wanted(l) /\ prov[LB] \notin {"PENDING_DELETE", "DELETED"}

WantedPool(l) == {p \in Pools : Wanted(p) /\ db[p].listener_id = l}

WantedEndpoints(l) ==
  {m \in Members : Wanted(m) /\ db[m].pool_id \in WantedPool(l) /\ db[m].admin_state_up}

WantedProbe(l) ==
  {HEALTH_MONITOR_PROBE_MAP[db[h].type] :
     h \in {k \in Monitors : Wanted(k) /\ db[k].pool_id \in WantedPool(l)
                                       /\ db[k].admin_state_up}}

WantedSelection(l) ==
  {IF db[p].session_persistence = "SOURCE_IP" THEN LOXILB_SEL_PERSIST
   ELSE LB_ALGORITHM_MAP[db[p].lb_algorithm] : p \in WantedPool(l)}

\* LoxiLB holds the rule of each listener that has enabled members, with these
\* members as endpoints, the pool's algorithm and its enabled monitor's probe,
\* and no other rule: the code rebuilds each rule from three separate reads of a
\* state that is about to change.
Realised(l) ==
  IF Exists(l) /\ WantedEndpoints(l) # {}
  THEN /\ rules[l] # None
       /\ rules[l].endpoints = WantedEndpoints(l)
       /\ {rules[l].sel} = WantedSelection(l)
       /\ {rules[l].probetype} \ {None} = WantedProbe(l)
  ELSE rules[l] = None

RulesMatchOctavia == call = None => \A l \in Listeners : Realised(l)

\* The same when no report is waiting either.
SettledRulesMatch == Settled => \A l \in Listeners : Realised(l)

\* After call c member m belongs to the pool of listener l, and c deletes none of them.
Deletes(c, r) == r \in DOMAIN c.locks /\ c.locks[r] = "PENDING_DELETE"

Serves(c, m, l) ==
  LET after == Written(c.rows)
  IN  /\ after[m] # None /\ ~ Deletes(c, m) /\ ~ Deletes(c, l)
      /\ \E p \in Pools : /\ after[p] # None /\ ~ Deletes(c, p)
                          /\ after[m].pool_id = p /\ after[p].listener_id = l

\* No request ever directs traffic to a stranger: each endpoint of a rule that is
\* posted is a member the listener has when the call is through, although handlers
\* look the pool up in the objects they are passed, in the listener and in what was
\* committed before, any of which may be missing, partial or about to be deleted.
NoStrangerServes ==
  [][\A l \in Listeners : rules'[l] \notin {None, rules[l]} =>
       \A m \in rules'[l].endpoints : Serves(call, m, l)]_vars

\* A call that succeeds leaves the rule of the listener it locked as Octavia wants
\* it, whatever an earlier call, failed and rolled back, left on the node.
SuccessRealises ==
  [][call # None /\ ~ call.failed /\ call' = None =>
       \A l \in Listeners \cap DOMAIN call.locks : Realised(l)']_vars

\* Reports have a thread each and nothing orders them: two that wait at the same
\* time, and one that is sent while others wait, must not be about the same resource.
ReportsDoNotRace ==
  /\ \A p, q \in reports : p # q => DOMAIN p \cap DOMAIN q = {}
  /\ call # None /\ call.todo # <<>> /\ Head(call.todo).report # None =>
       \A p \in reports : DOMAIN p \cap DOMAIN Head(call.todo).report = {}

\* No resource stays locked once the handlers and the reports are through.
Unlocked == Settled => \A r \in Resources : prov[r] \notin Pending

\* A listener is reported DELETED only when its rule is gone.
DeletedReportIsTrue ==
  \A p \in reports : \A l \in Listeners \cap DOMAIN p : p[l] = "DELETED" => rules[l] = None

\* A load balancer reported DELETED leaves no rule behind.
DeletedLeavesNoRule ==
  prov[LB] = "DELETED" /\ call = None => \A l \in Listeners : rules[l] = None

\* A status Octavia holds as a lock changes only by the report that answers the call
\* that took it, and no report changes a resource that is not locked: each handler
\* puts the right resources in the right report, once, though reports may overtake
\* one another and the next call.  Some report releases every lock.
Contract == INSTANCE ProvisioningContract
              WITH Containers <- Pools, Parts <- Members \cup Monitors
ImplementsContract == Contract!Spec
ReportsOnlyRelease == Contract!SafeSpec
=============================================================================
