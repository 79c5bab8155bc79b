-------------------- MODULE ProviderDriverEndpoints_proofs --------------------
(***************************************************************************)
(* No rule ever directs traffic to a stranger: whatever is called, cannot  *)
(* be read, is partial, fails, is refused or comes too early.              *)
(***************************************************************************)
EXTENDS ProviderDriverTypes_proofs

\* A step of call c directs traffic to members of the listener only.
PostsOwn(s, c) == s.verb = "POST" => \A m \in s.arg.endpoints : Serves(c, m, s.arg.port)

AllPostOwn(c) == \A n \in 1 .. Len(c.todo) : PostsOwn(c.todo[n], c)

EndpointInv == TypeInv /\ (call # None => AllPostOwn(call))

DeletesNothing(c) == \A r : ~ Deletes(c, r)
-----------------------------------------------------------------------------
(* Steps *)

LEMMA ReconcilePostsOwn ==
  ASSUME NEW c, NEW listener, NEW pool, NEW members, NEW healthmonitor, NEW report,
         \A x \in MembersOf(PoolOf(listener, pool), members) :
           Serves(c, x.member_id, listener.protocol_port)
  PROVE  PostsOwn(reconcile_service(listener, pool, members, healthmonitor, report), c)
<1> DEFINE entry == to_loxilb_service(LB, listener, pool, members, healthmonitor)
           ms == MembersOf(PoolOf(listener, pool), members)
<1>1. CASE entry = Refused
  BY <1>1 DEF reconcile_service, PostsOwn, Raise
<1>2. CASE entry # Refused /\ entry.endpoints = {}
  BY <1>2 DEF reconcile_service, PostsOwn, Delete
<1>3. CASE entry # Refused /\ entry.endpoints # {}
  <2>1. entry.port = listener.protocol_port /\ entry.endpoints = to_loxilb_endpoints(ms)
    BY <1>3 DEF to_loxilb_service
  <2>2. \A m \in to_loxilb_endpoints(ms) : \E x \in ms : m = x.member_id
    BY DEF to_loxilb_endpoints
  <2>3. reconcile_service(listener, pool, members, healthmonitor, report) = Post(entry, report)
    BY <1>3 DEF reconcile_service
  <2> HIDE DEF entry, ms
  <2>4. \A m \in entry.endpoints : Serves(c, m, entry.port)
    BY <2>1, <2>2 DEF ms
  <2> QED BY <2>3, <2>4 DEF Post, PostsOwn
<1> QED BY <1>1, <1>2, <1>3

LEMMA OthersPostNothing ==
  /\ \A report, c : PostsOwn(Report(report), c)
  /\ \A c : PostsOwn(Raise, c)
  /\ \A name, report, c : PostsOwn(DeleteByName(name, report), c)
  /\ \A l, gets, c : PostsOwn(deletion_of_listener(l, gets), c)
BY DEF PostsOwn, Report, Raise, Delete, DeleteByName, deletion_of_listener

LEMMA MembersOfPool ==
  ASSUME NEW d, NEW p, NEW x \in ProviderPool(d, p).members
  PROVE  /\ x.member_id \in Members /\ d[x.member_id] # None
         /\ d[x.member_id].pool_id = p
BY DEF ProviderPool, ProviderMember, InPool

\* What a listener shows of its default pool.
LEMMA ListenerPostsOwn ==
  ASSUME NEW c, DeletesNothing(c), NEW d, \A r \in Children : d[r] = Written(c.rows)[r],
         NEW l, NEW new, new.protocol_port = l,
         new.default_pool = ProviderListener(d, l).default_pool, NEW report
  PROVE  PostsOwn(reconcile_service(new, None, None, None, report), c)
<1> DEFINE pool == ProviderListener(d, l).default_pool
           p == CHOOSE q \in DefaultPools(d, l) : TRUE
<1>1. SUFFICES ASSUME NEW x \in MembersOf(pool, None)
               PROVE  Serves(c, x.member_id, l)
  <2>1. PoolOf(new, None) = pool
    BY DEF PoolOf
  <2> QED BY <2>1, ReconcilePostsOwn
<1>2. DefaultPools(d, l) # {} /\ x \in ProviderPool(d, p).members
  BY <1>1 DEF MembersOf, get_field, ProviderListener
<1>3. p \in Pools /\ d[p] # None /\ d[p].listener_id = l
  BY <1>2 DEF DefaultPools
<1> HIDE DEF p
<1>4. x.member_id \in Members /\ d[x.member_id] # None /\ d[x.member_id].pool_id = p
  BY <1>2, MembersOfPool
<1>5. p \in Children /\ x.member_id \in Children
  BY <1>3, <1>4 DEF Children
<1>6. Written(c.rows)[p] = d[p] /\ Written(c.rows)[x.member_id] = d[x.member_id]
  BY <1>5
<1> QED BY <1>3, <1>4, <1>6 DEF Serves, DeletesNothing

\* The pool a pool handler is passed.
LEMMA PoolPostsOwn ==
  ASSUME NEW c, DeletesNothing(c), RowsTyped(db), NEW p \in Pools, Written(c.rows)[p] # None,
         NEW pool \in PoolObjects, pool = ProviderPool(Written(c.rows), p),
         NEW changed, NEW gets \in Gets
  PROVE  PostsOwn(PoolStep(pool, changed, gets, None), c)
<1> DEFINE l == pool.listener_id
           lb == resolve_loadbalancer(pool.loadbalancer_id, gets)
           listener == resolve_listener(l, gets)
           report == StatusOf(changed, {IdOf(listener), lb})
<1>1. l \in Listeners \cup {None} /\ l = Written(c.rows)[p].listener_id
  BY PoolObject DEF PoolObjects
<1>2. PoolStep(pool, changed, gets, None) =
        IF lb # None /\ listener # None
        THEN reconcile_service(listener, pool, None, None, report) ELSE Report(report)
  BY DEF PoolStep
<1>3. CASE lb # None /\ listener # None
  <2>1. listener.protocol_port = l
    BY <1>1, <1>3, ResolvedListener, ListenerObject
  <2>2. PoolOf(listener, pool) = pool
    BY NoneAssumption DEF PoolOf
  <2>3. ASSUME NEW x \in MembersOf(pool, None) PROVE Serves(c, x.member_id, l)
    <3>1. x \in pool.members
      BY <2>3 DEF MembersOf, get_field
    <3>2. /\ Written(c.rows)[x.member_id] # None
          /\ Written(c.rows)[x.member_id].pool_id = p
      BY <3>1, MembersOfPool
    <3> QED BY <3>2, <1>1 DEF Serves, DeletesNothing
  <2> HIDE DEF l, lb, listener, report
  <2> QED BY <1>2, <1>3, <2>1, <2>2, <2>3, ReconcilePostsOwn
<1>4. CASE ~ (lb # None /\ listener # None)
  BY <1>2, <1>4, OthersPostNothing
<1> QED BY <1>3, <1>4

\* The committed pool a member's or monitor's handler looks up, with the members it is to have.
LEMMA BelowPoolPostsOwn ==
  ASSUME NEW c, RowsTyped(db), NEW p \in Pools, db[p] # None, Written(c.rows)[p] = db[p],
         ~ Deletes(c, p), \A l \in Listeners : ~ Deletes(c, l),
         NEW members, NEW changed, NEW gets \in Gets, NEW healthmonitor,
         \A x \in IF members # None THEN members ELSE ProviderPool(db, p).members :
           /\ Written(c.rows)[x.member_id] # None /\ Written(c.rows)[x.member_id].pool_id = p
           /\ ~ Deletes(c, x.member_id)
  PROVE  PostsOwn(below_pool(p, changed, gets, members, healthmonitor), c)
<1> DEFINE pool == IF p # None /\ "pool" \in gets THEN ProviderPool(db, p) ELSE None
           lb == IF pool = None THEN None ELSE resolve_loadbalancer(pool.loadbalancer_id, gets)
           listener == IF pool = None THEN None ELSE resolve_listener(pool.listener_id, gets)
           report == StatusOf(changed, {p, IdOf(listener), lb})
           l == db[p].listener_id
<1>1. below_pool(p, changed, gets, members, healthmonitor) =
        IF lb # None /\ listener # None
        THEN reconcile_service(listener, pool, members, healthmonitor, report)
        ELSE Report(report)
  BY DEF below_pool
<1>2. CASE lb # None /\ listener # None
  <2>1. pool = ProviderPool(db, p) /\ pool # None /\ pool.listener_id = l
    BY <1>2, PoolObject
  <2>2. l \in Listeners \cup {None}
    BY <2>1, PoolTyped DEF PoolObjects
  <2>3. l \in Listeners /\ listener.protocol_port = l
    BY <1>2, <2>1, <2>2, ResolvedListener, ListenerObject
  <2>4. PoolOf(listener, pool) = pool
    BY <2>1 DEF PoolOf
  <2>5. ASSUME NEW x \in MembersOf(pool, members) PROVE Serves(c, x.member_id, l)
    <3>1. x \in IF members # None THEN members ELSE ProviderPool(db, p).members
      BY <2>1, <2>5 DEF MembersOf, get_field
    <3> QED BY <3>1, <2>3 DEF Serves
  <2> HIDE DEF pool, l, lb, listener, report
  <2> QED BY <1>1, <1>2, <2>3, <2>4, <2>5, ReconcilePostsOwn
<1>3. CASE ~ (lb # None /\ listener # None)
  BY <1>1, <1>3, OthersPostNothing
<1> QED BY <1>2, <1>3
-----------------------------------------------------------------------------
(* Handlers *)

LEMMA SingleStepOwn ==
  ASSUME NEW operation, NEW s, NEW rows, NEW locks, Serve(operation, <<s>>, rows, locks),
         \A c : c.rows = rows /\ c.locks = locks => PostsOwn(s, c)
  PROVE  AllPostOwn(call')
<1>1. call' = [todo |-> <<s>>, rows |-> rows, locks |-> locks, onError |-> None,
               failed |-> FALSE]
  BY DEF Serve, ServeOr
<1>2. call'.todo = <<s>> /\ call'.rows = rows /\ call'.locks = locks
  BY <1>1
<1>3. PostsOwn(s, call')
  BY <1>2
<1>4. PICK todo : todo = call'.todo
  OBVIOUS
<1>5. \A n \in 1 .. Len(todo) : todo[n] = s
  BY ONLY <1>2, <1>4
<1> QED BY <1>3, <1>4, <1>5 DEF AllPostOwn

LEMMA DeletedByCall ==
  ASSUME NEW r, NEW lock, NEW above, NEW c, c.locks = Locks(Only(r, lock), above)
  PROVE  /\ lock # "PENDING_DELETE" => DeletesNothing(c)
         /\ \A x : Deletes(c, x) => x = r
BY DEF Locks, Only, Deletes, DeletesNothing

LEMMA ListenerCreateOwn ==
  ASSUME TypeInv, NEW l \in Listeners, listener_create(l)
  PROVE  AllPostOwn(call')
<1>1. PICK protocol \in Protocols, gets \in Gets, ps \in {{}} \cup FreePools :
        LET rows == [r \in {l} \cup ps |-> IF r = l THEN [protocol |-> protocol]
                                           ELSE [db[r] EXCEPT !.listener_id = l]]
            lb == resolve_loadbalancer(LB, gets)
            report == StatusOf(Only(l, "ACTIVE"), {lb})
        IN  Serve("listener_create",
                  <<IF lb = None THEN Report(report)
                    ELSE reconcile_service(ProviderListener(Written(rows), l),
                                           None, None, None, report)>>,
                  rows, Locks(Only(l, "PENDING_CREATE"), {LB}))
  BY DEF listener_create, AboveListener
<1> DEFINE rows == [r \in {l} \cup ps |-> IF r = l THEN [protocol |-> protocol]
                                          ELSE [db[r] EXCEPT !.listener_id = l]]
           lb == resolve_loadbalancer(LB, gets)
           report == StatusOf(Only(l, "ACTIVE"), {lb})
           new == ProviderListener(Written(rows), l)
           s == IF lb = None THEN Report(report)
                ELSE reconcile_service(new, None, None, None, report)
           locks == Locks(Only(l, "PENDING_CREATE"), {LB})
<1>2. Serve("listener_create", <<s>>, rows, locks)
  BY <1>1
<1> HIDE DEF rows, report
<1>3. ASSUME NEW c, c.rows = rows, c.locks = locks PROVE PostsOwn(s, c)
  <2>1. DeletesNothing(c)
    BY <1>3, DeletedByCall
  <2>2. new.protocol_port = l
    BY ListenerObject
  <2>3. PostsOwn(reconcile_service(new, None, None, None, report), c)
    BY <1>3, <2>1, <2>2, ListenerPostsOwn
  <2> HIDE DEF new, lb
  <2> QED BY <2>3, OthersPostNothing
<1> HIDE DEF s, locks
<1> QED BY <1>2, <1>3, SingleStepOwn

LEMMA ListenerUpdateOwn ==
  ASSUME TypeInv, NEW l \in Listeners, listener_update(l)
  PROVE  AllPostOwn(call')
<1>1. PICK kind \in UpdateObjects, gets \in Gets, ps \in {{}, DefaultPools(db, l)} \cup FreePools :
        LET rows == [r \in ps \cup DefaultPools(db, l) |->
                       [db[r] EXCEPT !.listener_id = IF r \in ps THEN l ELSE None]]
            new == Shown(kind, ProviderListener(Written(rows), l), "listener_id",
                         IF ps = DefaultPools(db, l) THEN {} ELSE {"default_pool"})
            lb == resolve_loadbalancer(new.loadbalancer_id, gets)
            report == StatusOf(Only(l, "ACTIVE"), {lb})
        IN  Serve("listener_update",
                  <<IF lb = None THEN Report(report)
                    ELSE reconcile_service(new, None, None, None, report)>>,
                  rows, Locks(Only(l, "PENDING_UPDATE"), {LB}))
  BY DEF listener_update, AboveListener
<1> DEFINE rows == [r \in ps \cup DefaultPools(db, l) |->
                      [db[r] EXCEPT !.listener_id = IF r \in ps THEN l ELSE None]]
           object == ProviderListener(Written(rows), l)
           changed == IF ps = DefaultPools(db, l) THEN {} ELSE {"default_pool"}
           new == Shown(kind, object, "listener_id", changed)
           lb == resolve_loadbalancer(new.loadbalancer_id, gets)
           report == StatusOf(Only(l, "ACTIVE"), {lb})
           s == IF lb = None THEN Report(report)
                ELSE reconcile_service(new, None, None, None, report)
           locks == Locks(Only(l, "PENDING_UPDATE"), {LB})
<1>2. Serve("listener_update", <<s>>, rows, locks)
  BY <1>1
<1>3. "loadbalancer_id" \notin {"listener_id"} \cup changed
  OBVIOUS
<1>4. {"protocol_port", "loadbalancer_id", "default_pool"} \subseteq DOMAIN object
  BY DEF ProviderListener
<1>5. object.protocol_port = l
  BY ListenerObject
<1> HIDE DEF rows, changed
<1>6. kind # "full" => lb = None
  <2> HIDE DEF object
  <2>1. kind # "full" => new.loadbalancer_id = None
    BY <1>3, <1>4, ShownField
  <2> HIDE DEF new
  <2> QED BY <2>1 DEF resolve_loadbalancer
<1>7. kind = "full" => new.protocol_port = l /\ new.default_pool = object.default_pool
  <2> HIDE DEF object
  <2> QED BY <1>4, <1>5, ShownField
<1> HIDE DEF report, lb
<1>8. ASSUME NEW c, c.rows = rows, c.locks = locks PROVE PostsOwn(s, c)
  <2>1. CASE lb = None
    <3> HIDE DEF new
    <3> QED BY <2>1, OthersPostNothing
  <2>2. CASE lb # None
    <3>1. DeletesNothing(c)
      BY <1>8, DeletedByCall
    <3>2. new.protocol_port = l /\ new.default_pool = ProviderListener(Written(c.rows), l).default_pool
      BY <2>2, <1>6, <1>7, <1>8
    <3> HIDE DEF new
    <3>3. PostsOwn(reconcile_service(new, None, None, None, report), c)
      BY <3>1, <3>2, ListenerPostsOwn
    <3> QED BY <2>2, <3>3
  <2> QED BY <2>1, <2>2
<1> HIDE DEF s, locks
<1> QED BY <1>2, <1>8, SingleStepOwn

LEMMA ListenerDeleteOwn ==
  ASSUME NEW l \in Listeners, listener_delete(l) \/ l7policy_or_l7rule(l)
  PROVE  AllPostOwn(call')
<1>1. CASE listener_delete(l)
  <2>1. PICK gets \in Gets :
          Serve("listener_delete", <<deletion_of_listener(l, gets)>>, NoRows,
                Locks(Only(l, "PENDING_DELETE"), AboveListener))
    BY <1>1 DEF listener_delete
  <2> QED BY <2>1, OthersPostNothing, SingleStepOwn
<1>2. CASE l7policy_or_l7rule(l)
  <2>1. Serve("l7", <<Raise>>, NoRows, Locks(Only(l, "PENDING_UPDATE"), AboveListener))
    BY <1>2 DEF l7policy_or_l7rule
  <2> QED BY <2>1, OthersPostNothing, SingleStepOwn
<1> QED BY <1>1, <1>2

LEMMA PoolCreateOwn ==
  ASSUME TypeInv, NEW p \in Pools, pool_create(p)
  PROVE  AllPostOwn(call')
<1>1. PICK l \in {None} \cup {k \in Listeners : prov[k] = "ACTIVE" /\ DefaultPools(db, k) = {}},
           algorithm \in Algorithms, persistence \in Persistences \cup {None}, gets \in Gets :
        LET row == [listener_id |-> l, lb_algorithm |-> algorithm,
                    session_persistence |-> persistence]
            above == {LB, l} \ {None}
        IN  Serve("pool_create",
                  <<PoolStep(ProviderPool(Written(Only(p, row)), p), Only(p, "ACTIVE"),
                             gets, None)>>,
                  Only(p, row), Locks(Only(p, "PENDING_CREATE"), above))
  BY DEF pool_create
<1> DEFINE row == [listener_id |-> l, lb_algorithm |-> algorithm,
                   session_persistence |-> persistence]
           rows == Only(p, row)
           pool == ProviderPool(Written(rows), p)
           s == PoolStep(pool, Only(p, "ACTIVE"), gets, None)
           locks == Locks(Only(p, "PENDING_CREATE"), {LB, l} \ {None})
<1>2. row \in Rows(p) /\ row # None
  <2>1. row \in Rows(p) /\ p \in Children
    BY RowsByKind DEF Children
  <2> QED BY <2>1, NoneAssumption
<1>3. RowsTyped(db) /\ p \in Children
  BY RowsWhereActive DEF Children
<1>4. RowsTyped(Written(rows)) /\ Written(rows)[p] = row
  BY <1>2, <1>3 DEF RowsTyped, Written, Only
<1> HIDE DEF row
<1>5. pool \in PoolObjects
  BY <1>2, <1>4, PoolTyped
<1>6. ASSUME NEW c, c.rows = rows, c.locks = locks PROVE PostsOwn(s, c)
  <2>1. DeletesNothing(c)
    BY <1>6, DeletedByCall
  <2>2. Written(c.rows) = Written(rows)
    BY <1>6
  <2> HIDE DEF rows, locks
  <2> QED BY <1>2, <1>3, <1>4, <1>5, <2>1, <2>2, PoolPostsOwn
<1>7. Serve("pool_create", <<s>>, rows, locks)
  BY <1>1 DEF row
<1> HIDE DEF s, rows, locks
<1> QED BY <1>6, <1>7, SingleStepOwn

LEMMA PoolUpdateOwn ==
  ASSUME TypeInv, NEW p \in Pools, pool_update(p)
  PROVE  AllPostOwn(call')
<1>1. PICK kind \in UpdateObjects, algorithm \in Algorithms,
           persistence \in Persistences \cup {None}, gets \in Gets :
        LET row == [db[p] EXCEPT !.lb_algorithm = algorithm,
                                 !.session_persistence = persistence]
            new == Shown(kind, ProviderPool(Written(Only(p, row)), p), "pool_id",
                         {"lb_algorithm", "session_persistence"})
        IN  Serve("pool_update", <<PoolStep(new, Only(p, "ACTIVE"), gets, None)>>,
                  Only(p, row), Locks(Only(p, "PENDING_UPDATE"), AbovePool(p)))
  BY DEF pool_update
<1> DEFINE row == [db[p] EXCEPT !.lb_algorithm = algorithm,
                                !.session_persistence = persistence]
           rows == Only(p, row)
           object == ProviderPool(Written(rows), p)
           new == Shown(kind, object, "pool_id", {"lb_algorithm", "session_persistence"})
           s == PoolStep(new, Only(p, "ACTIVE"), gets, None)
           locks == Locks(Only(p, "PENDING_UPDATE"), AbovePool(p))
<1>2. db[p] # None /\ db[p] \in [listener_id : Listeners \cup {None}, lb_algorithm : Algorithms,
                                 session_persistence : Persistences \cup {None}]
  BY AbovePoolFacts DEF pool_update
<1>3. RowsTyped(db) /\ p \in Children
  BY RowsWhereActive DEF Children
<1>4. row \in Rows(p) /\ row # None
  <2>1. row \in Rows(p)
    BY <1>2, RowsByKind
  <2> QED BY <2>1, <1>3, NoneAssumption
<1>5. RowsTyped(Written(rows)) /\ Written(rows)[p] = row
  BY <1>3, <1>4 DEF RowsTyped, Written, Only
<1> HIDE DEF row
<1>6. object \in PoolObjects
  BY <1>4, <1>5, PoolTyped
<1>7. kind = "full" => new = object
  BY DEF Shown, ProviderPool
<1>8. kind # "full" => new.loadbalancer_id = None
  <2>1. "loadbalancer_id" \in DOMAIN object
    BY DEF ProviderPool
  <2> HIDE DEF object
  <2> QED BY <2>1, ShownField
<1>9. ASSUME NEW c, c.rows = rows, c.locks = locks PROVE PostsOwn(s, c)
  <2>1. CASE kind = "full"
    <3>1. DeletesNothing(c)
      BY <1>9, DeletedByCall
    <3>2. Written(c.rows) = Written(rows) /\ s = PoolStep(object, Only(p, "ACTIVE"), gets, None)
      BY <2>1, <1>7, <1>9
    <3>3. object = ProviderPool(Written(rows), p)
      OBVIOUS
    <3> HIDE DEF object, s, rows, locks
    <3> QED BY <1>3, <1>4, <1>5, <1>6, <3>1, <3>2, <3>3, PoolPostsOwn
  <2>2. CASE kind # "full"
    <3> HIDE DEF new
    <3>1. resolve_loadbalancer(new.loadbalancer_id, gets) = None
      BY <1>8, <2>2 DEF resolve_loadbalancer
    <3>2. \E report : s = Report(report)
      BY <3>1 DEF PoolStep
    <3> HIDE DEF s
    <3> QED BY <3>2, OthersPostNothing
  <2> QED BY <2>1, <2>2
<1>10. Serve("pool_update", <<s>>, rows, locks)
  BY <1>1 DEF row
<1> HIDE DEF s, rows, locks
<1> QED BY <1>9, <1>10, SingleStepOwn

\* The listener is left without endpoints, so nothing is posted.
LEMMA PoolDeleteOwn ==
  ASSUME TypeInv, NEW p \in Pools, pool_delete(p)
  PROVE  AllPostOwn(call')
<1> DEFINE pool == ProviderPool(db, p)
           locks == Locks(Only(p, "PENDING_DELETE"), AbovePool(p))
<1>1. PICK gets \in Gets :
        Serve("pool_delete", <<PoolStep(pool, Only(p, "DELETED"), gets, {})>>, NoRows, locks)
  BY DEF pool_delete
<1> DEFINE s == PoolStep(pool, Only(p, "DELETED"), gets, {})
<1>2. ASSUME NEW c PROVE PostsOwn(s, c)
  <2>1. None # {} /\ \A listener : MembersOf(PoolOf(listener, None), {}) = {}
    BY NoneAssumption DEF MembersOf
  <2>2. \A listener, report : PostsOwn(reconcile_service(listener, None, {}, None, report), c)
    BY <2>1, ReconcilePostsOwn
  <2>3. \/ \E listener, report : s = reconcile_service(listener, None, {}, None, report)
        \/ \E report : s = Report(report)
    <3> HIDE DEF pool
    <3> QED BY <2>1 DEF PoolStep
  <2> HIDE DEF s
  <2> QED BY <2>2, <2>3, OthersPostNothing
<1> HIDE DEF s, locks
<1> QED BY <1>1, <1>2, SingleStepOwn DEF s

\* The handlers of members and monitors: the members are those the pool had, or the one
\* the call writes, and not the one it deletes.
LEMMA BelowOwn ==
  ASSUME TypeInv, NEW p \in Pools, PoolIsMutable(p), NEW r \in Members \cup Monitors, NEW lock,
         NEW rows, DOMAIN rows \subseteq {r},
         r \in DOMAIN rows => rows[r] # None /\ rows[r].pool_id = p,
         NEW changed, NEW gets \in Gets, NEW members, NEW healthmonitor,
         \A x \in IF members # None THEN members ELSE ProviderPool(db, p).members :
           /\ x \in ProviderPool(db, p).members \/ (r \in DOMAIN rows /\ x.member_id = r)
           /\ lock = "PENDING_DELETE" => x.member_id # r,
         NEW c, c.rows = rows, c.locks = LocksBelow(p, Only(r, lock))
  PROVE  PostsOwn(below_pool(p, changed, gets, members, healthmonitor), c)
<1>1. RowsTyped(db) /\ db[p] # None
  BY RowsWhereActive DEF PoolIsMutable, Children
<1>2. p \in Children /\ p # r /\ \A l \in Listeners : l # r
  BY ResourcesAssumption DEF Children
<1>3. r \in Children /\ r \notin Pools
  BY ResourcesAssumption DEF Children
<1>4. /\ \A x \in Children : Written(rows)[x] = IF x \in DOMAIN rows THEN rows[x] ELSE db[x]
      /\ Written(c.rows) = Written(rows)
  BY DEF Written
<1>5. Written(c.rows)[p] = db[p]
  BY <1>2, <1>4
<1>6. /\ lock # "PENDING_DELETE" => DeletesNothing(c)
      /\ \A x : Deletes(c, x) => x = r
  BY DeletedByCall DEF LocksBelow
<1>7. ~ Deletes(c, p) /\ \A l \in Listeners : ~ Deletes(c, l)
  BY <1>2, <1>6
<1>8. ASSUME NEW x \in IF members # None THEN members ELSE ProviderPool(db, p).members
      PROVE  /\ Written(c.rows)[x.member_id] # None /\ Written(c.rows)[x.member_id].pool_id = p
             /\ ~ Deletes(c, x.member_id)
  <2>1. ~ Deletes(c, x.member_id)
    BY <1>6, <1>8 DEF DeletesNothing
  <2>2. CASE x.member_id \in DOMAIN rows
    <3>1. x.member_id = r
      BY <2>2
    <3> QED BY <3>1, <2>1, <2>2, <1>3, <1>4
  <2>3. CASE x.member_id \notin DOMAIN rows
    <3>1. x \in ProviderPool(db, p).members
      BY <1>8, <2>3
    <3>2. x.member_id \in Children /\ db[x.member_id] # None /\ db[x.member_id].pool_id = p
      BY <3>1, MembersOfPool DEF Children
    <3> QED BY <3>2, <2>1, <2>3, <1>4
  <2> QED BY <2>2, <2>3
<1> QED BY <1>1, <1>5, <1>7, <1>8, BelowPoolPostsOwn

LEMMA MemberCreateOwn ==
  ASSUME TypeInv, NEW m \in Members, member_create(m)
  PROVE  AllPostOwn(call')
<1>1. PICK p \in Pools, up \in BOOLEAN, gets \in Gets :
        LET row == [pool_id |-> p, admin_state_up |-> up]
            new == ProviderMember(Written(Only(m, row)), m)
        IN  /\ PoolIsMutable(p)
            /\ Serve("member_create",
                     <<below_pool(p, Only(m, "ACTIVE"), gets,
                                  with_member(ProviderPool(db, p).members, new), None)>>,
                     Only(m, row), LocksBelow(p, Only(m, "PENDING_CREATE")))
  BY DEF member_create
<1> DEFINE row == [pool_id |-> p, admin_state_up |-> up]
           rows == Only(m, row)
           members == with_member(ProviderPool(db, p).members, ProviderMember(Written(rows), m))
           s == below_pool(p, Only(m, "ACTIVE"), gets, members, None)
           locks == LocksBelow(p, Only(m, "PENDING_CREATE"))
<1>2. PoolIsMutable(p)
  BY <1>1
<1>3. DOMAIN rows = {m} /\ rows[m] = row
  BY DEF Only
<1>4. row # None /\ row.pool_id = p
  <2>1. row \in Rows(m) /\ m \in Children
    BY RowsByKind DEF Children
  <2> QED BY <2>1, NoneAssumption
<1>5. \A x \in members : x \in ProviderPool(db, p).members \/ x.member_id = m
  BY DEF with_member, ProviderMember
<1>6. \A x \in ProviderPool(db, p).members : x \in members
  BY DEF with_member
<1>7. Serve("member_create", <<s>>, rows, locks)
  BY <1>1
<1> HIDE DEF rows, row, members
<1>8. ASSUME NEW c, c.rows = rows, c.locks = locks PROVE PostsOwn(s, c)
  <2>1. m \in Members \cup Monitors /\ m \in DOMAIN rows /\ "PENDING_CREATE" # "PENDING_DELETE"
    BY <1>3
  <2>2. \A x \in IF members # None THEN members ELSE ProviderPool(db, p).members :
          x \in ProviderPool(db, p).members \/ (m \in DOMAIN rows /\ x.member_id = m)
    BY <1>5, <2>1
  <2> QED BY <1>2, <1>3, <1>4, <1>8, <2>1, <2>2, BelowOwn
<1> HIDE DEF s, locks
<1> QED BY <1>7, <1>8, SingleStepOwn

LEMMA MemberUpdateOwn ==
  ASSUME TypeInv, NEW m \in Members, member_update(m)
  PROVE  AllPostOwn(call')
<1> DEFINE p == db[m].pool_id
           row == [db[m] EXCEPT !.admin_state_up = ~ @]
           rows == Only(m, row)
           object == ProviderMember(Written(rows), m)
           locks == LocksBelow(p, Only(m, "PENDING_UPDATE"))
<1>1. PICK kind \in UpdateObjects, gets \in Gets :
        Serve("member_update",
              <<below_pool(Shown(kind, object, "member_id", {"admin_state_up"}).pool_id,
                           Only(m, "ACTIVE"), gets, None, None)>>,
              rows, locks)
  BY DEF member_update
<1> DEFINE new == Shown(kind, object, "member_id", {"admin_state_up"})
           s == below_pool(new.pool_id, Only(m, "ACTIVE"), gets, None, None)
<1>2. PoolIsMutable(p) /\ prov[m] = "ACTIVE"
  BY DEF member_update
<1>3. m \in Children /\ db[m] \in [pool_id : Pools, admin_state_up : BOOLEAN]
  BY <1>2, RowsWhereActive, RowsByKind DEF Children
<1>4. row \in Rows(m) /\ row.pool_id = p /\ p \in Pools
  BY <1>3, RowsByKind
<1>5. DOMAIN rows = {m} /\ rows[m] = row /\ Written(rows)[m] = row /\ row # None
  BY <1>3, <1>4, NoneAssumption DEF Only, Written
<1> HIDE DEF rows, row, p
<1>6. new.pool_id = IF kind = "full" THEN p ELSE None
  <2>1. object.pool_id = p /\ "pool_id" \in DOMAIN object
    BY <1>4, <1>5 DEF ProviderMember
  <2> HIDE DEF object
  <2> QED BY <2>1, ShownField
<1> HIDE DEF new
<1>7. ASSUME NEW c, c.rows = rows, c.locks = locks PROVE PostsOwn(s, c)
  <2>1. CASE kind = "full"
    <3>1. s = below_pool(p, Only(m, "ACTIVE"), gets, None, None)
      BY <2>1, <1>6
    <3>2. m \in Members \cup Monitors
      OBVIOUS
    <3> HIDE DEF s
    <3> QED BY <1>2, <1>4, <1>5, <1>7, <3>1, <3>2, BelowOwn
  <2>2. CASE kind # "full"
    <3>1. \E report : s = Report(report)
      BY <2>2, <1>6 DEF below_pool
    <3> HIDE DEF s
    <3> QED BY <3>1, OthersPostNothing
  <2> QED BY <2>1, <2>2
<1> HIDE DEF s
<1>8. Serve("member_update", <<s>>, rows, locks)
  BY <1>1 DEF s, new
<1> HIDE DEF locks
<1> QED BY <1>7, <1>8, SingleStepOwn

LEMMA MemberDeleteOwn ==
  ASSUME TypeInv, NEW m \in Members, member_delete(m)
  PROVE  AllPostOwn(call')
<1> DEFINE p == db[m].pool_id
           members == without_member(ProviderPool(db, p).members, m)
           locks == LocksBelow(p, Only(m, "PENDING_DELETE"))
<1>1. PICK gets \in Gets :
        Serve("member_delete", <<below_pool(p, Only(m, "DELETED"), gets, members, None)>>,
              NoRows, locks)
  BY DEF member_delete
<1> DEFINE s == below_pool(p, Only(m, "DELETED"), gets, members, None)
<1>2. PoolIsMutable(p) /\ prov[m] = "ACTIVE"
  BY DEF member_delete
<1>3. m \in Children /\ db[m] \in [pool_id : Pools, admin_state_up : BOOLEAN]
  BY <1>2, RowsWhereActive, RowsByKind DEF Children
<1>4. p \in Pools /\ RowsTyped(db)
  BY <1>3, RowsWhereActive
<1>5. members # None /\ \A x \in members : x \in ProviderPool(db, p).members /\ x.member_id # m
  <2>1. db[p] # None
    BY <1>2, <1>4, RowsWhereActive DEF PoolIsMutable, Children
  <2>2. ProviderPool(db, p) \in PoolObjects
    BY <1>4, <2>1, PoolTyped
  <2>3. members \in SUBSET MemberObjects
    BY <2>2 DEF PoolObjects, without_member
  <2> QED BY <2>3, NoneAssumption DEF without_member
<1> HIDE DEF p, members
<1>6. ASSUME NEW c, c.rows = NoRows, c.locks = locks PROVE PostsOwn(s, c)
  <2>1. DOMAIN NoRows = {} /\ m \in Members \cup Monitors
    BY DEF NoRows
  <2> QED BY <1>2, <1>4, <1>5, <1>6, <2>1, BelowOwn
<1> HIDE DEF s, locks
<1> QED BY <1>1, <1>6, SingleStepOwn DEF s

LEMMA MemberBatchOwn ==
  ASSUME TypeInv, NEW p \in Pools, member_batch_update(p)
  PROVE  AllPostOwn(call')
<1> DEFINE old == InPool(db, p, Members)
<1>1. PICK ms \in SUBSET Members, up \in SUBSET Members, gets \in Gets :
        LET removed == old \ ms
            rows == [m \in ms |-> [pool_id |-> p, admin_state_up |-> m \in up]]
            listed == {ProviderMember(Written(rows), m) : m \in ms}
        IN  Serve("member_batch_update",
                  <<below_pool(p, [m \in ms |-> "ACTIVE"], gets, listed, None)>>,
                  rows,
                  Locks([m \in ms \cup removed |->
                           IF m \in removed THEN "PENDING_DELETE"
                           ELSE IF m \in old THEN "PENDING_UPDATE" ELSE "PENDING_CREATE"],
                        {p} \cup AbovePool(p)))
  BY DEF member_batch_update, LocksBelow
<1> DEFINE removed == old \ ms
           rows == [m \in ms |-> [pool_id |-> p, admin_state_up |-> m \in up]]
           listed == {ProviderMember(Written(rows), m) : m \in ms}
           changed == [m \in ms |-> "ACTIVE"]
           locked == [m \in ms \cup removed |->
                        IF m \in removed THEN "PENDING_DELETE"
                        ELSE IF m \in old THEN "PENDING_UPDATE" ELSE "PENDING_CREATE"]
           locks == Locks(locked, {p} \cup AbovePool(p))
           s == below_pool(p, changed, gets, listed, None)
<1>2. RowsTyped(db) /\ db[p] # None /\ p \in Children
  BY RowsWhereActive DEF member_batch_update, PoolIsMutable, Children
<1>3. Members \subseteq Children /\ p \notin Members /\ old \subseteq Members
      /\ \A l \in Listeners : l \notin Members
  BY ResourcesAssumption DEF Children, InPool
<1>4. \A m \in ms : rows[m] \in Rows(m) /\ rows[m] # None /\ rows[m].pool_id = p
  <2>1. \A m \in ms : rows[m] = [pool_id |-> p, admin_state_up |-> m \in up]
    OBVIOUS
  <2>2. \A m \in ms : /\ (m \in up) \in BOOLEAN
                      /\ Rows(m) = [pool_id : Pools, admin_state_up : BOOLEAN]
    BY RowsByKind
  <2>3. \A m \in ms : rows[m] \in Rows(m) /\ rows[m].pool_id = p
    BY <2>1, <2>2
  <2> HIDE DEF rows
  <2> QED BY <2>3, <1>3, NoneAssumption
<1>5. DOMAIN rows = ms
  OBVIOUS
<1>6. Serve("member_batch_update", <<s>>, rows, locks)
  BY <1>1
<1> HIDE DEF rows
<1>7. listed # None
  <2>1. \A m \in ms : Written(rows)[m] = rows[m]
    BY <1>3, <1>5 DEF Written
  <2>2. \A m \in ms : ProviderMember(Written(rows), m) \in MemberObjects
    <3> SUFFICES ASSUME NEW m \in ms PROVE ProviderMember(Written(rows), m) \in MemberObjects
      OBVIOUS
    <3>1. Written(rows)[m] \in [pool_id : Pools, admin_state_up : BOOLEAN]
      BY <2>1, <1>4, RowsByKind
    <3> QED BY <3>1 DEF ProviderMember, MemberObjects
  <2>3. listed \in SUBSET MemberObjects
    BY <2>2
  <2> QED BY <2>3, NoneAssumption
<1>8. ASSUME NEW c, c.rows = rows, c.locks = locks PROVE PostsOwn(s, c)
  <2>1. \A x : Deletes(c, x) => x \in removed
    BY <1>8 DEF Deletes, Locks
  <2>2. Written(c.rows)[p] = db[p] /\ ~ Deletes(c, p) /\ \A l \in Listeners : ~ Deletes(c, l)
    BY <2>1, <1>2, <1>3, <1>5, <1>8 DEF Written
  <2>3. \A x \in listed : x.member_id \in ms
    BY DEF ProviderMember
  <2>4. \A x \in listed : /\ Written(c.rows)[x.member_id] # None
                          /\ Written(c.rows)[x.member_id].pool_id = p
                          /\ ~ Deletes(c, x.member_id)
    BY <2>1, <2>3, <1>3, <1>4, <1>5, <1>8 DEF Written
  <2> HIDE DEF listed, locks
  <2> QED BY <2>2, <2>4, <1>2, <1>7, BelowPoolPostsOwn
<1> HIDE DEF s, locks
<1> QED BY <1>6, <1>8, SingleStepOwn

\* No member is written by the call of a health monitor.
LEMMA MonitorOwn ==
  ASSUME TypeInv, NEW h \in Monitors, NEW p \in Pools, PoolIsMutable(p), NEW lock,
         NEW rows, DOMAIN rows \subseteq {h},
         h \in DOMAIN rows => rows[h] \in Rows(h) /\ rows[h].pool_id = p,
         NEW changed, NEW gets \in Gets, NEW healthmonitor, NEW id \in {p, None},
         NEW operation,
         Serve(operation, <<below_pool(id, changed, gets, None, healthmonitor)>>, rows,
               LocksBelow(p, Only(h, lock)))
  PROVE  AllPostOwn(call')
<1> DEFINE s == below_pool(id, changed, gets, None, healthmonitor)
           locks == LocksBelow(p, Only(h, lock))
<1>1. h \in DOMAIN rows => rows[h] # None /\ rows[h].pool_id = p
  BY NoneAssumption DEF Children
<1>2. \A x \in ProviderPool(db, p).members : x.member_id # h
  BY MembersOfPool, ResourcesAssumption
<1>3. ASSUME NEW c, c.rows = rows, c.locks = locks PROVE PostsOwn(s, c)
  <2>1. CASE id = p
    <3>1. h \in Members \cup Monitors
      OBVIOUS
    <3>2. PostsOwn(below_pool(p, changed, gets, None, healthmonitor), c)
      BY <1>1, <1>2, <1>3, <3>1, BelowOwn
    <3> QED BY <2>1, <3>2
  <2>2. CASE id = None
    <3>1. \E report : s = Report(report)
      BY <2>2 DEF below_pool
    <3> HIDE DEF s
    <3> QED BY <3>1, OthersPostNothing
  <2> QED BY <2>1, <2>2
<1> HIDE DEF s, locks
<1> QED BY <1>3, SingleStepOwn DEF s, locks

LEMMA MonitorCreateOwn ==
  ASSUME TypeInv, NEW h \in Monitors, health_monitor_create(h)
  PROVE  AllPostOwn(call')
<1>1. PICK p \in Pools, type \in MonitorTypes, up \in BOOLEAN, gets \in Gets :
        LET row == [pool_id |-> p, type |-> type, admin_state_up |-> up]
        IN  /\ PoolIsMutable(p)
            /\ Serve("health_monitor_create",
                     <<below_pool(p, Only(h, "ACTIVE"), gets, None,
                                  ProviderMonitor(Written(Only(h, row)), h))>>,
                     Only(h, row), LocksBelow(p, Only(h, "PENDING_CREATE")))
  BY DEF health_monitor_create
<1> DEFINE row == [pool_id |-> p, type |-> type, admin_state_up |-> up]
           rows == Only(h, row)
<1>2. DOMAIN rows = {h} /\ rows[h] \in Rows(h) /\ rows[h].pool_id = p
  BY RowsByKind DEF Only
<1>3. PoolIsMutable(p)
      /\ Serve("health_monitor_create",
               <<below_pool(p, Only(h, "ACTIVE"), gets, None, ProviderMonitor(Written(rows), h))>>,
               rows, LocksBelow(p, Only(h, "PENDING_CREATE")))
  BY <1>1
<1> HIDE DEF rows
<1> QED BY <1>2, <1>3, MonitorOwn

LEMMA MonitorUpdateOwn ==
  ASSUME TypeInv, NEW h \in Monitors, health_monitor_update(h)
  PROVE  AllPostOwn(call')
<1> DEFINE p == db[h].pool_id
           row == [db[h] EXCEPT !.admin_state_up = ~ @]
           rows == Only(h, row)
           object == ProviderMonitor(Written(rows), h)
<1>1. PICK kind \in UpdateObjects, gets \in Gets :
        LET new == Shown(kind, object, "healthmonitor_id", {"admin_state_up"})
        IN  Serve("health_monitor_update",
                  <<below_pool(new.pool_id, Only(h, "ACTIVE"), gets, None, new)>>,
                  rows, LocksBelow(p, Only(h, "PENDING_UPDATE")))
  BY DEF health_monitor_update
<1> DEFINE new == Shown(kind, object, "healthmonitor_id", {"admin_state_up"})
<1>2. PoolIsMutable(p) /\ prov[h] = "ACTIVE"
  BY DEF health_monitor_update
<1>3. h \in Children /\ db[h] \in [pool_id : Pools, type : MonitorTypes, admin_state_up : BOOLEAN]
  BY <1>2, RowsWhereActive, RowsByKind DEF Children
<1>4. row \in Rows(h) /\ row.pool_id = p /\ p \in Pools
  BY <1>3, RowsByKind
<1>5. DOMAIN rows = {h} /\ rows[h] = row /\ Written(rows)[h] = row
  BY <1>3 DEF Only, Written
<1> HIDE DEF rows, row, p
<1>6. new.pool_id \in {p, None}
  <2>1. object.pool_id = p /\ "pool_id" \in DOMAIN object
    BY <1>4, <1>5 DEF ProviderMonitor
  <2> HIDE DEF object
  <2> QED BY <2>1, ShownField
<1>7. Serve("health_monitor_update",
            <<below_pool(new.pool_id, Only(h, "ACTIVE"), gets, None, new)>>,
            rows, LocksBelow(p, Only(h, "PENDING_UPDATE")))
  BY <1>1
<1> HIDE DEF new
<1> QED BY <1>2, <1>4, <1>5, <1>6, <1>7, MonitorOwn

LEMMA MonitorDeleteOwn ==
  ASSUME TypeInv, NEW h \in Monitors, health_monitor_delete(h)
  PROVE  AllPostOwn(call')
<1> DEFINE p == db[h].pool_id
<1>1. PICK gets \in Gets :
        Serve("health_monitor_delete", <<below_pool(p, Only(h, "DELETED"), gets, None, None)>>,
              NoRows, LocksBelow(p, Only(h, "PENDING_DELETE")))
  BY DEF health_monitor_delete
<1>2. PoolIsMutable(p) /\ prov[h] = "ACTIVE"
  BY DEF health_monitor_delete
<1>3. h \in Children /\ db[h] \in [pool_id : Pools, type : MonitorTypes, admin_state_up : BOOLEAN]
  BY <1>2, RowsWhereActive, RowsByKind DEF Children
<1>4. p \in Pools /\ DOMAIN NoRows = {}
  BY <1>3 DEF NoRows
<1> HIDE DEF p
<1> QED BY <1>1, <1>2, <1>4, MonitorOwn

\* A request for each listener of an order, and a report.
LEMMA ListenersOwn ==
  ASSUME NEW operation, NEW d, NEW S \in SUBSET Listeners, NEW order \in Orders(S), NEW report,
         NEW rows, NEW locks, NEW onError,
         ServeOr(operation, Append(configure_listeners(d, order), Report(report)), rows, locks,
                 onError),
         \A r \in Children : d[r] = Written(rows)[r],
         \A r \in DOMAIN locks : locks[r] # "PENDING_DELETE"
  PROVE  AllPostOwn(call')
<1> DEFINE q == configure_listeners(d, order)
           todo == Append(q, Report(report))
<1>1. call' = [todo |-> todo, rows |-> rows, locks |-> locks, onError |-> onError,
               failed |-> FALSE]
  BY DEF ServeOr
<1>2. PICK k \in Nat : DOMAIN order = 1 .. k
  BY OrderOfListeners
<1>3. q = [n \in 1 .. k |-> q[n]]
  BY <1>2 DEF configure_listeners
<1>4. \A n \in 1 .. k : q[n] = reconcile_service(ProviderListener(d, order[n]), None, None, None,
                                                 None)
  BY <1>2 DEF configure_listeners
<1> HIDE DEF q
<1>5. Len(todo) = k + 1 /\ \A n \in 1 .. k + 1 : todo[n] = IF n = k + 1 THEN Report(report)
                                                          ELSE q[n]
  BY <1>3, AppendIsSequence
<1> HIDE DEF todo
<1>6. call'.todo = todo /\ call'.rows = rows /\ call'.locks = locks
  BY <1>1
<1>7. DeletesNothing(call') /\ \A r \in Children : d[r] = Written(call'.rows)[r]
  BY <1>6 DEF DeletesNothing, Deletes
<1>8. ASSUME NEW n \in 1 .. k PROVE PostsOwn(q[n], call')
  <2>1. ProviderListener(d, order[n]).protocol_port = order[n]
    BY ListenerObject
  <2>2. PostsOwn(reconcile_service(ProviderListener(d, order[n]), None, None, None, None), call')
    BY <2>1, <1>7, ListenerPostsOwn
  <2> QED BY <2>2, <1>4
<1>9. ASSUME NEW n \in 1 .. k + 1 PROVE PostsOwn(todo[n], call')
  <2>1. CASE n = k + 1
    BY <2>1, <1>5, OthersPostNothing
  <2>2. CASE n # k + 1
    <3>1. n \in 1 .. k
      BY <2>2
    <3> QED BY <3>1, <2>2, <1>5, <1>8
  <2> QED BY <2>1, <2>2
<1> QED BY <1>5, <1>6, <1>9 DEF AllPostOwn

LEMMA LoadBalancerCreateOwn ==
  ASSUME loadbalancer_create
  PROVE  AllPostOwn(call')
<1>1. PICK rows \in IF "tree" \in Operations THEN Trees ELSE {NoRows} :
        \E order \in Orders(Listeners \cap DOMAIN rows) :
          ServeOr("loadbalancer_create",
                  Append(configure_listeners(Written(rows), order), Report(Only(LB, "ACTIVE"))),
                  rows, [r \in {LB} \cup DOMAIN rows |-> "PENDING_CREATE"],
                  IF order = <<>> THEN None ELSE Only(LB, "ERROR"))
  BY DEF loadbalancer_create
<1>2. PICK order \in Orders(Listeners \cap DOMAIN rows) :
          ServeOr("loadbalancer_create",
                  Append(configure_listeners(Written(rows), order), Report(Only(LB, "ACTIVE"))),
                  rows, [r \in {LB} \cup DOMAIN rows |-> "PENDING_CREATE"],
                  IF order = <<>> THEN None ELSE Only(LB, "ERROR"))
  BY <1>1
<1> DEFINE locks == [r \in {LB} \cup DOMAIN rows |-> "PENDING_CREATE"]
<1>3. \A r \in DOMAIN locks : locks[r] # "PENDING_DELETE"
  OBVIOUS
<1>4. Listeners \cap DOMAIN rows \in SUBSET Listeners
  OBVIOUS
<1> HIDE DEF locks
<1> QED BY <1>2, <1>3, <1>4, ListenersOwn DEF locks

LEMMA LoadBalancerUpdateOwn ==
  ASSUME loadbalancer_update
  PROVE  AllPostOwn(call')
<1>1. PICK kind \in UpdateObjects :
        \E order \in Orders(IF kind = "full" THEN {l \in Listeners : db[l] # None} ELSE {}) :
          Serve("loadbalancer_update",
                Append(configure_listeners(db, order), Report(Only(LB, "ACTIVE"))),
                NoRows, Only(LB, "PENDING_UPDATE"))
  BY DEF loadbalancer_update
<1> DEFINE S == IF kind = "full" THEN {l \in Listeners : db[l] # None} ELSE {}
           locks == Only(LB, "PENDING_UPDATE")
<1>2. PICK order \in Orders(S) :
        ServeOr("loadbalancer_update",
                Append(configure_listeners(db, order), Report(Only(LB, "ACTIVE"))),
                NoRows, locks, None)
  BY <1>1 DEF Serve
<1>3. S \in SUBSET Listeners /\ \A r \in DOMAIN locks : locks[r] # "PENDING_DELETE"
  BY DEF Only
<1>4. \A r \in Children : db[r] = Written(NoRows)[r]
  BY DEF Written, NoRows
<1> HIDE DEF S, locks
<1> QED BY <1>2, <1>3, <1>4, ListenersOwn

LEMMA LoadBalancerDeleteOwn ==
  ASSUME NEW cascade \in BOOLEAN, loadbalancer_delete(cascade)
  PROVE  AllPostOwn(call')
<1> DEFINE S == {l \in Listeners : db[l] # None}
           operation == IF cascade THEN "cascade" ELSE "loadbalancer_delete"
           by_name == DeleteByName(<<LB>>, Only(LB, "DELETED"))
           last == Report(Only(LB, "DELETED"))
           locks == Only(LB, "PENDING_DELETE")
<1>1. PICK gets \in [Listeners -> Gets], order \in Orders(S) :
        Serve(operation,
              IF order = <<>> THEN <<by_name>>
              ELSE Append([n \in DOMAIN order |-> deletion_of_listener(order[n], gets[order[n]])],
                          last),
              NoRows, locks)
  BY DEF loadbalancer_delete
<1>2. CASE order = <<>>
  <2>1. Serve(operation, <<by_name>>, NoRows, locks)
    BY <1>1, <1>2
  <2> HIDE DEF operation, locks
  <2> QED BY <2>1, OthersPostNothing, SingleStepOwn
<1>3. CASE order # <<>>
  <2> DEFINE q == [n \in DOMAIN order |-> deletion_of_listener(order[n], gets[order[n]])]
             todo == Append(q, last)
  <2>1. PICK k \in Nat : DOMAIN order = 1 .. k
    BY OrderOfListeners
  <2>2. q = [n \in 1 .. k |-> q[n]]
        /\ \A n \in 1 .. k : q[n] = deletion_of_listener(order[n], gets[order[n]])
    BY <2>1
  <2>3. call'.todo = todo
    BY <1>1, <1>3 DEF Serve, ServeOr
  <2> HIDE DEF q
  <2>4. Len(todo) = k + 1 /\ \A n \in 1 .. k + 1 : todo[n] = IF n = k + 1 THEN last ELSE q[n]
    BY <2>2, AppendIsSequence
  <2> HIDE DEF todo
  <2>5. ASSUME NEW n \in 1 .. k + 1 PROVE PostsOwn(todo[n], call')
    <3>1. CASE n = k + 1
      BY <3>1, <2>4, OthersPostNothing
    <3>2. CASE n # k + 1
      <4>1. n \in 1 .. k
        BY <3>2
      <4> QED BY <4>1, <3>2, <2>2, <2>4, OthersPostNothing
    <3> QED BY <3>1, <3>2
  <2> QED BY <2>3, <2>4, <2>5 DEF AllPostOwn
<1> QED BY <1>2, <1>3

LEMMA LoadBalancerFailoverOwn ==
  ASSUME loadbalancer_failover
  PROVE  AllPostOwn(call')
<1>1. Serve("loadbalancer_failover", <<Report(Only(LB, "ACTIVE"))>>,
            NoRows, Only(LB, "PENDING_UPDATE"))
  BY DEF loadbalancer_failover
<1> QED BY <1>1, OthersPostNothing, SingleStepOwn

LEMMA HandlersOwn ==
  ASSUME TypeInv, Handler
  PROVE  AllPostOwn(call')
<1>1. TRUE \in BOOLEAN /\ FALSE \in BOOLEAN
  OBVIOUS
<1> QED BY <1>1, LoadBalancerCreateOwn, LoadBalancerUpdateOwn, LoadBalancerFailoverOwn,
           LoadBalancerDeleteOwn, ListenerCreateOwn, ListenerUpdateOwn, ListenerDeleteOwn,
           PoolCreateOwn, PoolUpdateOwn, PoolDeleteOwn, MemberCreateOwn, MemberUpdateOwn,
           MemberDeleteOwn, MemberBatchOwn, MonitorCreateOwn, MonitorUpdateOwn,
           MonitorDeleteOwn DEF Handler
-----------------------------------------------------------------------------
(* The rest of a call *)

\* What a call may post rests on the committed rows.
LEMMA SameRowsSameCall ==
  ASSUME db' = db, AllPostOwn(call')
  PROVE  AllPostOwn(call)'
<1>1. Written(call.rows)' = Written(call'.rows)
  BY DEF Written
<1>2. \A m, l : Serves(call', m, l) => Serves(call, m, l)'
  BY <1>1 DEF Serves, Deletes
<1> QED BY <1>2 DEF AllPostOwn, PostsOwn

\* Only the handlers plan requests; the others make them or leave them alone.
LEMMA EndpointsPreserved == EndpointInv /\ [Next]_vars => EndpointInv'
<1> SUFFICES ASSUME EndpointInv, [Next]_vars PROVE EndpointInv'
  OBVIOUS
<1>1. TypeInv /\ TypeInv' /\ (call # None => AllPostOwn(call))
  BY TypesPreserved DEF EndpointInv
<1>2. CASE Handler
  <2>1. db' = db /\ AllPostOwn(call')
    BY <1>1, <1>2, HandlerPlans, HandlersOwn DEF Planned
  <2> QED BY <1>1, <2>1, SameRowsSameCall DEF EndpointInv
<1>3. CASE StepDone \/ StepFails
  <2>1. /\ db' = db /\ call # None
        /\ call'.rows = call.rows /\ call'.locks = call.locks
        /\ \A n \in 1 .. Len(call'.todo) : /\ n + 1 \in 1 .. Len(call.todo)
                                           /\ call'.todo[n] = call.todo[n + 1]
    BY <1>1, <1>3, StepEffect DEF StepDone, StepFails
  <2>2. \A s : PostsOwn(s, call) => PostsOwn(s, call')
    BY <2>1 DEF PostsOwn, Serves, Deletes
  <2>3. AllPostOwn(call')
    BY <1>1, <2>1, <2>2 DEF AllPostOwn
  <2> QED BY <1>1, <2>1, <2>3, SameRowsSameCall DEF EndpointInv
<1>4. CASE Commit \/ Rollback
  <2>1. call' = None
    BY <1>4 DEF Commit, Rollback
  <2> QED BY <1>1, <2>1 DEF EndpointInv
<1>5. CASE Deliver
  <2>1. call' = None
    BY <1>5 DEF Deliver
  <2> QED BY <1>1, <2>1 DEF EndpointInv
<1>6. CASE DeliverEarly \/ UNCHANGED vars
  <2>1. db' = db /\ call' = call
    BY <1>6 DEF DeliverEarly, vars
  <2>2. call' # None => AllPostOwn(call')
    BY <1>1, <2>1
  <2> QED BY <1>1, <2>1, <2>2, SameRowsSameCall DEF EndpointInv
<1> QED BY <1>2, <1>3, <1>4, <1>5, <1>6 DEF Next, Service

\* What a step does to the rules.
LEMMA StepServesOwn ==
  ASSUME EndpointInv, StepDone \/ StepFails, NEW l \in Listeners,
         rules'[l] \notin {None, rules[l]}, NEW m \in rules'[l].endpoints
  PROVE  Serves(call, m, l)
<1> DEFINE s == call.todo[1]
<1>1. /\ call # None /\ Head(call.todo) = s /\ 1 \in 1 .. Len(call.todo) /\ IsStep(s)
      /\ rules \in [Listeners -> Rules \cup {None}]
  BY StepEffect DEF EndpointInv, TypeInv, TypeOK
<1>2. rules' \in {rules, Performed(s)}
  BY <1>1 DEF StepDone, StepFails
<1>3. PostsOwn(s, call)
  BY <1>1 DEF EndpointInv, AllPostOwn
<1> HIDE DEF s
<1>4. rules' = Performed(s)
  BY <1>2
<1>5. CASE s.verb = "POST"
  <2>1. rules' = [rules EXCEPT ![s.arg.port] = s.arg] /\ s.arg.port \in Listeners
    BY <1>1, <1>4, <1>5 DEF Performed, IsStep, Rules
  <2>2. l = s.arg.port /\ rules'[l] = s.arg
    BY <1>1, <2>1
  <2> QED BY <1>3, <1>5, <2>2 DEF PostsOwn
<1>6. CASE s.verb # "POST"
  <2>1. rules'[l] \in {None, rules[l]}
    <3>1. CASE s.verb = "DELETE"
      BY <1>1, <1>4, <3>1 DEF Performed
    <3>2. CASE s.verb = "DELETE_BY_NAME"
      BY <1>4, <3>2 DEF Performed
    <3>3. CASE s.verb \notin {"POST", "DELETE", "DELETE_BY_NAME"}
      BY <1>4, <3>3 DEF Performed
    <3> QED BY <1>6, <3>1, <3>2, <3>3
  <2> QED BY <2>1
<1> QED BY <1>5, <1>6

\* Each endpoint of a rule that is posted is a member that the listener has when the
\* call is through and that the call does not delete: for every configuration, every
\* sequence of calls, whatever cannot be read, is partial, fails or comes too early.
THEOREM StrangersNeverServe == Spec => NoStrangerServes
<1>1. Init => EndpointInv
  BY TypesInitially DEF EndpointInv, Init
<1>2. EndpointInv /\ [Next]_vars =>
        [\A l \in Listeners : rules'[l] \notin {None, rules[l]} =>
           \A m \in rules'[l].endpoints : Serves(call, m, l)]_vars
  <2> SUFFICES ASSUME EndpointInv, [Next]_vars, NEW l \in Listeners,
                      rules'[l] \notin {None, rules[l]}, NEW m \in rules'[l].endpoints
               PROVE  Serves(call, m, l)
    OBVIOUS
  <2>1. rules' # rules
    OBVIOUS
  <2>2. CASE Handler
    <3>1. UNCHANGED rules
      BY <2>2, HandlerPlans DEF EndpointInv, Planned
    <3> QED BY <2>1, <3>1
  <2>3. CASE StepDone \/ StepFails
    BY <2>3, StepServesOwn
  <2>4. CASE Commit \/ Rollback \/ Deliver \/ DeliverEarly \/ UNCHANGED vars
    BY <2>1, <2>4 DEF Commit, Rollback, Deliver, DeliverEarly, vars
  <2> QED BY <2>2, <2>3, <2>4 DEF Next, Service
<1> QED BY <1>1, <1>2, EndpointsPreserved, PTL DEF Spec, NoStrangerServes
=============================================================================
