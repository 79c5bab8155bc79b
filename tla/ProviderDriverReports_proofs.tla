--------------------- MODULE ProviderDriverReports_proofs ---------------------
(***************************************************************************)
(* The reports of the driver: the locks they answer, that no two are about *)
(* the same resource, and that each lock is released.                      *)
(*                                                                         *)
(* The invariants speak of the state Octavia will have once the call under *)
(* way has been committed (StatusThen, RowThen) and of the reports that    *)
(* wait or that the call has still to send (Due): sending a report and     *)
(* committing a call change nothing of either.                             *)
(***************************************************************************)
EXTENDS ProviderDriverTypes_proofs

Underway == call # None /\ ~ call.failed

StatusThen(r) == IF Underway /\ r \in DOMAIN call.locks THEN call.locks[r] ELSE prov[r]
RowThen(r) == IF Underway /\ r \in DOMAIN call.rows THEN call.rows[r] ELSE db[r]

Planning == IF call = None THEN {}
            ELSE {call.todo[n].report : n \in 1 .. Len(call.todo)} \ {None}
Due == reports \cup Planning

Leaves == Members \cup Monitors

\* A report answers locks; but the failure of a load balancer that was being
\* created is reported when its lock is gone.
AnswersLocks(p) ==
  \A r \in DOMAIN p :
    \/ StatusThen(r) \in Pending /\ p[r] = Answer(StatusThen(r))
    \/ r = LB /\ StatusThen(r) \in {"NONE", "DELETED"} /\ p[r] = "ERROR"

IsBelow(m, pool) == RowThen(m) # None /\ RowThen(m).pool_id = pool

\* A report about a member or a health monitor is waited for by its pool too, and no
\* other report takes the pool, and the member with it, away before.
HoldsPools(p) ==
  \A m \in DOMAIN p \cap Leaves : \E pool \in Pools :
    /\ IsBelow(m, pool) /\ StatusThen(pool) \in Pending
    /\ \A q \in Due : q # p => pool \notin DOMAIN q

ReportInv ==
  \A p \in Due : /\ AnswersLocks(p) /\ HoldsPools(p)
                 /\ \A q \in Due : p # q => DOMAIN p \cap DOMAIN q = {}

\* A call reports at its end, and until then no waiting report touches what it has
\* locked.
CallInv ==
  call # None =>
    /\ call.failed => call.todo = <<>>
    /\ \A r \in DOMAIN call.rows : r \in DOMAIN call.locks \/ r \in Pools
    /\ call.onError # None => /\ call.onError = Only(LB, "ERROR")
                              /\ prov[LB] \in {"NONE", "DELETED"}
    /\ \A n \in 1 .. Len(call.todo) :
         \/ call.todo[n].report = None
         \/ n = Len(call.todo) /\ DOMAIN call.todo[n].report \subseteq DOMAIN call.locks
    /\ call.todo # <<>> =>
         \A p \in reports : /\ DOMAIN p \cap DOMAIN call.locks = {}
                            /\ \A m \in DOMAIN p \cap Leaves : db[m].pool_id \notin DOMAIN call.locks

DriverInv == TypeInv /\ ReportInv /\ CallInv
-----------------------------------------------------------------------------
(* The state to come *)

LEMMA KindsDiffer ==
  /\ Leaves \subseteq Children /\ Pools \subseteq Children /\ Listeners \subseteq Children
  /\ Leaves \cap Pools = {} /\ Leaves \cap Listeners = {} /\ Pools \cap Listeners = {}
  /\ LB \notin Children /\ LB \in Resources /\ Children \subseteq Resources
BY ResourcesAssumption DEF Leaves, Children, Resources

LEMMA NoCallAhead ==
  ASSUME call = None
  PROVE  Due = reports /\ \A r : StatusThen(r) = prov[r] /\ RowThen(r) = db[r]
BY DEF Due, Planning, StatusThen, RowThen, Underway

LEMMA LeafRow ==
  ASSUME NEW m \in Leaves, NEW row \in Rows(m)
  PROVE  row.pool_id \in Pools
<1>1. CASE m \in Members
  <2>1. Rows(m) = [pool_id : Pools, admin_state_up : BOOLEAN]
    BY <1>1, RowsByKind
  <2> QED BY <2>1
<1>2. CASE m \in Monitors
  <2>1. Rows(m) = [pool_id : Pools, type : MonitorTypes, admin_state_up : BOOLEAN]
    BY <1>2, RowsByKind
  <2> QED BY <2>1
<1> QED BY <1>1, <1>2 DEF Leaves

LEMMA LeafRows ==
  ASSUME TypeInv, NEW m \in Leaves
  PROVE  /\ db[m] # None => db[m].pool_id \in Pools
         /\ RowThen(m) # None => RowThen(m).pool_id \in Pools
<1>1. m \in Children
  BY KindsDiffer
<1>2. \A row \in Rows(m) : row.pool_id \in Pools
  BY LeafRow
<1>3. db[m] # None => db[m] \in Rows(m)
  BY <1>1 DEF TypeInv, TypeOK
<1>4. Underway /\ m \in DOMAIN call.rows => call.rows[m] \in Rows(m)
  BY CallFacts DEF Underway
<1> QED BY <1>2, <1>3, <1>4 DEF RowThen

LEMMA DueReports ==
  ASSUME TypeInv, NEW p \in Due
  PROVE  IsReport(p) /\ DOMAIN p \subseteq Resources
<1>1. CASE p \in reports
  BY <1>1 DEF TypeInv, TypeOK, IsReport
<1>2. CASE p \notin reports
  <2>1. call # None /\ p # None
    BY <1>2 DEF Due, Planning
  <2>2. PICK n \in 1 .. Len(call.todo) : p = call.todo[n].report
    BY <1>2 DEF Due, Planning
  <2>3. IsStep(call.todo[n])
    BY <2>1, CallFacts
  <2> QED BY <2>1, <2>2, <2>3 DEF IsStep, IsReport
<1> QED BY <1>1, <1>2

\* The state to come stays as it is, and nothing is added to the reports.
KeepsToCome ==
  /\ Due' \subseteq Due
  /\ \A r \in Resources : StatusThen(r)' = StatusThen(r)
  /\ \A m \in Leaves, pool \in Pools : IsBelow(m, pool)' <=> IsBelow(m, pool)

LEMMA SamePicture ==
  ASSUME TypeInv, ReportInv, KeepsToCome
  PROVE  ReportInv'
<1> USE DEF KeepsToCome
<1> SUFFICES ASSUME NEW p \in Due'
             PROVE  /\ AnswersLocks(p)' /\ HoldsPools(p)'
                    /\ \A q \in Due' : p # q => DOMAIN p \cap DOMAIN q = {}
  BY DEF ReportInv
<1>1. p \in Due /\ AnswersLocks(p) /\ HoldsPools(p)
  BY DEF ReportInv
<1>2. AnswersLocks(p)'
  BY <1>1, DueReports DEF AnswersLocks
<1>3. HoldsPools(p)'
  BY <1>1, KindsDiffer DEF HoldsPools
<1> QED BY <1>1, <1>2, <1>3 DEF ReportInv

LEMMA FewerReports ==
  ASSUME UNCHANGED <<db, prov, call>>, reports' \subseteq reports
  PROVE  KeepsToCome
<1>1. Due' \subseteq Due
  BY DEF Due, Planning
<1>2. \A r \in Resources : StatusThen(r)' = StatusThen(r)
  BY DEF StatusThen, Underway
<1>3. \A m \in Leaves, pool \in Pools : IsBelow(m, pool)' <=> IsBelow(m, pool)
  BY DEF IsBelow, RowThen, Underway
<1> QED BY <1>1, <1>2, <1>3 DEF KeepsToCome
-----------------------------------------------------------------------------
(* A call begins *)

\* What waits is not about what a new call locks, nor about members of pools it locks.
LEMMA NewCallKeepsApart ==
  ASSUME TypeInv, ReportInv, Planned, NEW p \in reports
  PROVE  /\ DOMAIN p \cap DOMAIN call'.locks = {}
         /\ \A m \in DOMAIN p \cap Leaves : \E pool \in Pools :
              IsBelow(m, pool) /\ db[m].pool_id = pool /\ pool \notin DOMAIN call'.locks
<1> DEFINE locks == call'.locks
<1>1. call = None /\ p \in Due /\ \A r : StatusThen(r) = prov[r] /\ RowThen(r) = db[r]
  BY NoCallAhead DEF Planned, Due
<1>2. prov[LB] = "ACTIVE" /\ \A r \in DOMAIN locks : Lockable(r, call')
  BY DEF Planned, WellLocked
<1>3. \A r \in DOMAIN p : prov[r] \in Pending
  BY <1>1, <1>2 DEF ReportInv, AnswersLocks
<1>4. \A m \in DOMAIN p \cap Leaves : \E pool \in Pools :
        /\ IsBelow(m, pool) /\ db[m].pool_id = pool /\ prov[pool] \in Pending
  BY <1>1 DEF ReportInv, HoldsPools, IsBelow
<1>5. ASSUME NEW r \in DOMAIN locks, prov[r] \in Pending
      PROVE  r \in Members /\ prov[db[r].pool_id] = "ACTIVE"
  BY <1>2, <1>5 DEF Lockable, Pending
<1>6. DOMAIN p \cap DOMAIN locks = {}
  <2> SUFFICES ASSUME NEW r \in DOMAIN p, r \in DOMAIN locks PROVE FALSE
    OBVIOUS
  <2>1. r \in DOMAIN p \cap Leaves /\ prov[db[r].pool_id] = "ACTIVE"
    BY <1>3, <1>5 DEF Leaves
  <2> QED BY <2>1, <1>4 DEF Pending
<1>7. \A pool \in Pools : prov[pool] \in Pending => pool \notin DOMAIN locks
  BY <1>5, KindsDiffer DEF Leaves
<1> QED BY <1>4, <1>6, <1>7

LEMMA PlannedReports ==
  ASSUME TypeInv, ReportInv, Planned, "cascade" \notin Operations
  PROVE  ReportInv' /\ CallInv'
<1> DEFINE locks == call'.locks
           rows == call'.rows
           todo == call'.todo
<1>1. call = None /\ call' # None /\ UNCHANGED <<db, prov, rules, reports>>
  BY PlannedIsTyped, NoCallIsNone DEF Planned, WellTyped, WellLocked
<1>2. call'.failed = FALSE /\ Underway'
  BY <1>1 DEF Planned, WellTyped, Underway
<1>3. /\ \A r : StatusThen(r)' = IF r \in DOMAIN locks THEN locks[r] ELSE prov[r]
      /\ \A r : RowThen(r)' = IF r \in DOMAIN rows THEN rows[r] ELSE db[r]
      /\ \A r : StatusThen(r) = prov[r] /\ RowThen(r) = db[r]
  BY <1>1, <1>2, NoCallAhead DEF StatusThen, RowThen
<1>4. \A n \in 1 .. Len(todo) :
        \/ todo[n].report = None
        \/ n = Len(todo) /\ Fits(todo[n].report, locks)
  BY DEF Planned, WellReported
<1>5. \A r \in DOMAIN locks : locks[r] \in Pending
  BY DEF Planned, WellTyped
<1>6. \A m \in Leaves : m \in DOMAIN rows => m \in DOMAIN locks
  BY KindsDiffer DEF Planned, WellLocked
<1>7. ASSUME NEW p \in Due'
      PROVE  \/ p \in reports /\ p \in Due
             \/ Fits(p, locks) /\ p = todo[Len(todo)].report
  BY <1>1, <1>4 DEF Due, Planning
<1>8. ASSUME NEW p \in Due', p \in reports, p \in Due
      PROVE  AnswersLocks(p)' /\ HoldsPools(p)' /\ DOMAIN p \cap DOMAIN locks = {}
  <2>1. DOMAIN p \cap DOMAIN locks = {} /\ IsReport(p)
    BY <1>8, NewCallKeepsApart, DueReports
  <2>2. AnswersLocks(p)'
    BY <2>1, <1>3, <1>8 DEF AnswersLocks, ReportInv
  <2>3. ASSUME NEW m \in DOMAIN p \cap Leaves
        PROVE  \E pool \in Pools : /\ IsBelow(m, pool)' /\ StatusThen(pool)' \in Pending
                                    /\ \A q \in Due' : q # p => pool \notin DOMAIN q
    <3>1. PICK pool \in Pools : /\ IsBelow(m, pool) /\ StatusThen(pool) \in Pending
                                /\ \A q \in Due : q # p => pool \notin DOMAIN q
      BY <1>8 DEF ReportInv, HoldsPools
    <3>2. pool \notin DOMAIN locks
      BY <3>1, <1>8, NewCallKeepsApart DEF IsBelow
    <3>3. m \notin DOMAIN rows
      BY <2>1, <1>6
    <3>4. IsBelow(m, pool)' /\ StatusThen(pool)' \in Pending
      BY <3>1, <3>2, <3>3, <1>3 DEF IsBelow
    <3>5. \A q \in Due' : q # p => pool \notin DOMAIN q
      BY <3>1, <3>2, <1>7 DEF Fits
    <3> QED BY <3>4, <3>5
  <2> QED BY <2>1, <2>2, <2>3 DEF HoldsPools
<1>9. ASSUME NEW p \in Due', Fits(p, locks), p = todo[Len(todo)].report
      PROVE  AnswersLocks(p)' /\ HoldsPools(p)'
  <2>1. DOMAIN p \subseteq DOMAIN locks /\ \A r \in DOMAIN p : p[r] = Answer(locks[r])
    BY <1>9 DEF Fits
  <2>2. AnswersLocks(p)'
    BY <2>1, <1>3, <1>5 DEF AnswersLocks
  <2>3. ASSUME NEW m \in DOMAIN p \cap Leaves
        PROVE  \E pool \in Pools : /\ IsBelow(m, pool)' /\ StatusThen(pool)' \in Pending
                                    /\ \A q \in Due' : q # p => pool \notin DOMAIN q
    <3> DEFINE row == IF m \in DOMAIN rows THEN rows[m] ELSE db[m]
    <3>1. m \in Children /\ m \in DOMAIN locks /\ Lockable(m, call')
      BY <2>1, KindsDiffer DEF Planned, WellLocked
    <3>2. row \in Rows(m) /\ row # None
      <4>1. m \in DOMAIN rows => rows[m] \in Rows(m)
        BY DEF Planned, WellTyped
      <4>2. m \notin DOMAIN rows => db[m] # None
        BY <3>1, RowsWhereActive DEF Lockable
      <4>3. db[m] # None => db[m] \in Rows(m)
        BY <3>1 DEF TypeInv, TypeOK
      <4> QED BY <4>1, <4>2, <4>3, <3>1, NoneAssumption
    <3>3. PICK pool \in Pools : pool = row.pool_id
      BY <3>2, LeafRow
    <3>4. pool \in DOMAIN locks
      <4>1. Written(rows)[m] = row
        BY <3>1 DEF Written
      <4> QED BY <3>3, <4>1, <3>1 DEF Planned, WellLocked, Leaves
    <3>5. IsBelow(m, pool)' /\ StatusThen(pool)' \in Pending
      BY <3>2, <3>3, <3>4, <1>3, <1>5 DEF IsBelow
    <3>6. \A q \in Due' : q # p => pool \notin DOMAIN q
      BY <3>4, <1>7, <1>8, <1>9
    <3> QED BY <3>5, <3>6
  <2> QED BY <2>2, <2>3 DEF HoldsPools
<1>10. ReportInv'
  BY <1>7, <1>8, <1>9 DEF ReportInv, Fits
<1>11. CallInv'
  <2>1. \A n \in 1 .. Len(todo) :
          \/ todo[n].report = None
          \/ n = Len(todo) /\ DOMAIN todo[n].report \subseteq DOMAIN locks
    BY <1>4 DEF Fits
  <2>2. \A p \in reports : /\ DOMAIN p \cap DOMAIN locks = {}
                            /\ \A m \in DOMAIN p \cap Leaves : db[m].pool_id \notin DOMAIN locks
    BY NewCallKeepsApart
  <2>3. \A r \in DOMAIN rows : r \in DOMAIN locks \/ r \in Pools
    BY DEF Planned, WellLocked
  <2>4. call'.onError # None => call'.onError = Only(LB, "ERROR") /\ prov[LB] \in {"NONE", "DELETED"}
    BY DEF Planned, WellReported
  <2> QED BY <1>1, <1>2, <2>1, <2>2, <2>3, <2>4 DEF CallInv
<1> QED BY <1>10, <1>11
-----------------------------------------------------------------------------
(* A call is carried out *)

LEMMA DoneFacts ==
  ASSUME TypeInv, CallInv, StepDone
  PROVE  /\ call # None /\ call.todo # <<>> /\ call' # None /\ UNCHANGED <<db, prov>>
         /\ call'.rows = call.rows /\ call'.locks = call.locks /\ call'.onError = call.onError
         /\ 1 \in 1 .. Len(call.todo) /\ Head(call.todo) = call.todo[1]
         /\ \A n \in 1 .. Len(call'.todo) : /\ n + 1 \in 1 .. Len(call.todo)
                                            /\ call'.todo[n] = call.todo[n + 1]
         /\ ~ call.failed /\ call'.failed = call.failed
         /\ Len(call'.todo) = Len(call.todo) - 1 /\ Len(call.todo) \in Nat \ {0}
         /\ reports' = Sent(call.todo[1].report)
<1> DEFINE todo == call.todo
           rest == call'.todo
<1>1. /\ call # None /\ todo # <<>> /\ call' # None /\ UNCHANGED <<db, prov>>
      /\ call'.rows = call.rows /\ call'.locks = call.locks /\ call'.onError = call.onError
      /\ 1 \in 1 .. Len(todo) /\ Head(todo) = todo[1]
      /\ \A n \in 1 .. Len(rest) : n + 1 \in 1 .. Len(todo) /\ rest[n] = todo[n + 1]
  BY StepEffect DEF StepDone
<1>2. ~ call.failed /\ call'.failed = call.failed /\ Len(rest) = Len(todo) - 1 /\ Len(todo) \in Nat \ {0}
  <2>1. ~ call.failed
    BY <1>1, CallFacts DEF CallInv
  <2>2. call'.failed = call.failed
    BY <1>1, CallFacts DEF StepDone, IsCall
  <2> QED BY <2>1, <2>2, StepEffect
<1>3. reports' = Sent(todo[1].report)
  BY <1>1 DEF StepDone
<1> QED BY <1>1, <1>2, <1>3

LEMMA DoneKeeps ==
  ASSUME TypeInv, CallInv, StepDone
  PROVE  KeepsToCome
<1>1. Due' \subseteq Due
  BY DoneFacts DEF Due, Planning, Sent
<1>2. \A r \in Resources : StatusThen(r)' = StatusThen(r)
  BY DoneFacts DEF StatusThen, Underway
<1>3. \A m \in Leaves, pool \in Pools : IsBelow(m, pool)' <=> IsBelow(m, pool)
  BY DoneFacts DEF IsBelow, RowThen, Underway
<1> QED BY <1>1, <1>2, <1>3 DEF KeepsToCome

\* A call reports at its end.
LEMMA DoneAtTheEnd ==
  ASSUME TypeInv, CallInv, StepDone, call'.todo # <<>>
  PROVE  reports' = reports
<1> DEFINE rest == call'.todo
<1>1. Len(rest) # 0
  <2>1. rest \in Seq({rest[n] : n \in DOMAIN rest})
    BY StepEffect DEF IsCall, StepDone
  <2> QED BY <2>1
<1>2. call.todo[1].report = None
  BY <1>1, DoneFacts DEF CallInv
<1> QED BY <1>2, DoneFacts DEF Sent

LEMMA DoneReports ==
  ASSUME TypeInv, ReportInv, CallInv, StepDone
  PROVE  ReportInv' /\ CallInv'
<1> DEFINE todo == call.todo
           rest == call'.todo
<1>1. ReportInv'
  BY DoneKeeps, SamePicture
<1>2. ASSUME NEW n \in 1 .. Len(rest)
      PROVE  \/ rest[n].report = None
             \/ n = Len(rest) /\ DOMAIN rest[n].report \subseteq DOMAIN call'.locks
  <2>1. n + 1 \in 1 .. Len(todo) /\ rest[n] = todo[n + 1]
    BY DoneFacts
  <2>2. \/ todo[n + 1].report = None
        \/ n + 1 = Len(todo) /\ DOMAIN todo[n + 1].report \subseteq DOMAIN call.locks
    BY <2>1, DoneFacts DEF CallInv
  <2> QED BY <2>1, <2>2, DoneFacts
<1>3. CallInv'
  BY <1>2, DoneFacts, DoneAtTheEnd DEF CallInv
<1> QED BY <1>1, <1>3

\* A call fails: its locks and rows will not be; nothing that waits rests on them.
LEMMA FailedReports ==
  ASSUME TypeInv, ReportInv, CallInv, StepFails
  PROVE  ReportInv' /\ CallInv'
<1>1. /\ call # None /\ call.todo # <<>> /\ call' # None /\ UNCHANGED <<db, prov>>
      /\ call'.rows = call.rows /\ call'.locks = call.locks /\ call'.onError = call.onError
      /\ call'.todo = <<>> /\ call'.failed = TRUE
  <2>1. call'.todo = <<>> /\ call'.failed = TRUE
    BY CallFacts DEF StepFails, Raised, IsCall
  <2> QED BY <2>1, StepEffect DEF StepFails
<1>2. Due' = Sent(call.onError) /\ \A r : StatusThen(r)' = prov[r] /\ RowThen(r)' = db[r]
  BY <1>1 DEF StepFails, ReportedOnError, Due, Planning, StatusThen, RowThen, Underway
<1>3. ASSUME NEW p \in reports
      PROVE  /\ p \in Due /\ IsReport(p)
             /\ \A r \in DOMAIN p : r \notin DOMAIN call.locks /\ StatusThen(r) = prov[r]
             /\ \A m \in DOMAIN p \cap Leaves : db[m].pool_id \notin DOMAIN call.locks /\ RowThen(m) = db[m]
  <2>1. /\ DOMAIN p \cap DOMAIN call.locks = {}
        /\ \A m \in DOMAIN p \cap Leaves : db[m].pool_id \notin DOMAIN call.locks
    BY <1>1 DEF CallInv
  <2>2. \A m \in Leaves : m \in DOMAIN call.rows => m \in DOMAIN call.locks
    BY <1>1, KindsDiffer DEF CallInv
  <2>3. p \in Due
    BY DEF Due
  <2> QED BY <2>1, <2>2, <2>3, DueReports DEF StatusThen, RowThen
<1>4. ASSUME call.onError # None
      PROVE  /\ DOMAIN call.onError = {LB} /\ call.onError[LB] = "ERROR"
             /\ prov[LB] \in {"NONE", "DELETED"} /\ LB \in DOMAIN call.locks
  BY <1>1, <1>4, CallFacts DEF CallInv, Only
<1>5. ASSUME NEW p \in reports
      PROVE  /\ AnswersLocks(p)' /\ HoldsPools(p)'
             /\ \A q \in Due' : p # q => DOMAIN p \cap DOMAIN q = {}
  <2>1. AnswersLocks(p)'
    BY <1>2, <1>3 DEF ReportInv, AnswersLocks
  <2>2. HoldsPools(p)'
    <3> SUFFICES ASSUME NEW m \in DOMAIN p \cap Leaves
                 PROVE  \E pool \in Pools : /\ IsBelow(m, pool)' /\ StatusThen(pool)' \in Pending
                                            /\ \A q \in Due' : q # p => pool \notin DOMAIN q
      BY DEF HoldsPools
    <3>1. PICK pool \in Pools : /\ IsBelow(m, pool) /\ StatusThen(pool) \in Pending
                                /\ \A q \in Due : q # p => pool \notin DOMAIN q
      BY <1>3 DEF ReportInv, HoldsPools
    <3>2. db[m] # None /\ db[m].pool_id = pool /\ pool \notin DOMAIN call.locks
      BY <1>3, <3>1 DEF IsBelow
    <3>3. IsBelow(m, pool)' /\ StatusThen(pool)' \in Pending
      BY <1>2, <3>1, <3>2 DEF IsBelow, StatusThen
    <3>4. \A q \in Due' : q # p => pool \notin DOMAIN q
      BY <1>2, <1>3, <1>4, <3>1, <3>2 DEF Sent
    <3> QED BY <3>3, <3>4
  <2>3. \A q \in Due' : p # q => DOMAIN p \cap DOMAIN q = {}
    BY <1>2, <1>3, <1>4 DEF Sent, ReportInv
  <2> QED BY <2>1, <2>2, <2>3
<1>6. ASSUME call.onError # None, NEW p, p = call.onError
      PROVE  AnswersLocks(p)' /\ HoldsPools(p)'
  BY <1>2, <1>4, <1>6, KindsDiffer DEF AnswersLocks, HoldsPools
<1>7. ReportInv'
  BY <1>2, <1>5, <1>6 DEF Sent, ReportInv
<1>8. CallInv'
  BY <1>1 DEF CallInv
<1> QED BY <1>7, <1>8

\* Octavia commits, or rolls back what has failed already.
LEMMA EndKeeps ==
  ASSUME TypeInv, Commit \/ Rollback
  PROVE  KeepsToCome
<1>1. call # None /\ call' = None /\ call.failed \in BOOLEAN /\ UNCHANGED reports
  BY CallFacts DEF Commit, Rollback
<1>2. Due' \subseteq Due
  BY <1>1 DEF Due, Planning
<1>3. \A r \in Resources : StatusThen(r)' = StatusThen(r)
  BY <1>1, CallFacts DEF Commit, Rollback, StatusThen, Underway, TypeInv, TypeOK
<1>4. \A m \in Leaves, pool \in Pools : IsBelow(m, pool)' <=> IsBelow(m, pool)
  BY <1>1, KindsDiffer DEF Commit, Rollback, Written, IsBelow, RowThen, Underway
<1> QED BY <1>2, <1>3, <1>4 DEF KeepsToCome

LEMMA EndReports ==
  ASSUME TypeInv, ReportInv, Commit \/ Rollback
  PROVE  ReportInv' /\ CallInv'
<1>1. call' = None
  BY DEF Commit, Rollback
<1> QED BY <1>1, EndKeeps, SamePicture DEF CallInv
-----------------------------------------------------------------------------
(* A report is delivered *)

\* What a report takes away besides what it is about hangs below a pool it is about.
LEMMA RemovedBelow ==
  ASSUME NEW p \in reports, NEW r \in Removed(p), r \notin DOMAIN p \/ p[r] # "DELETED"
  PROVE  /\ r \in Leaves /\ db[r] # None
         /\ \E pool \in Pools \cap DOMAIN p : db[r].pool_id = pool /\ p[pool] = "DELETED"
BY DEF Removed, InPool, Leaves

LEMMA DeliveredReports ==
  ASSUME TypeInv, ReportInv, call = None, NEW p \in reports, Apply(p),
         reports' = reports \ {p}, call' = call
  PROVE  ReportInv'
<1>1. /\ Due = reports /\ Due' = reports'
      /\ \A r : StatusThen(r) = prov[r] /\ RowThen(r) = db[r]
      /\ \A r : StatusThen(r)' = prov'[r] /\ RowThen(r)' = db'[r]
  <2>1. call' = None
    OBVIOUS
  <2> QED BY <2>1, NoCallAhead DEF Due, Planning, StatusThen, RowThen, Underway
<1>2. ASSUME NEW q \in reports'
      PROVE  /\ AnswersLocks(q)' /\ HoldsPools(q)'
             /\ \A s \in reports' : s # q => DOMAIN q \cap DOMAIN s = {}
  <2>1. /\ AnswersLocks(q) /\ HoldsPools(q) /\ IsReport(q) /\ DOMAIN q \subseteq Resources
        /\ DOMAIN p \cap DOMAIN q = {}
    BY <1>1, DueReports DEF ReportInv
  <2>2. \A m \in DOMAIN q \cap Leaves : \E pool \in Pools :
          /\ db[m] # None /\ db[m].pool_id = pool /\ prov[pool] \in Pending
          /\ \A s \in reports : s # q => pool \notin DOMAIN s
    BY <1>1, <2>1 DEF HoldsPools, IsBelow
  <2>3. ASSUME NEW r \in Resources, r \notin DOMAIN p, r \in DOMAIN q \/ r \notin Leaves
        PROVE  r \notin Removed(p) /\ prov'[r] = prov[r]
    <3>1. r \notin Removed(p)
      <4> SUFFICES ASSUME r \in Removed(p) PROVE FALSE
        OBVIOUS
      <4>1. /\ r \in Leaves /\ r \in DOMAIN q
            /\ \E pool \in Pools \cap DOMAIN p : db[r].pool_id = pool
        BY <2>3, RemovedBelow
      <4> QED BY <4>1, <2>2
    <3> QED BY <3>1, <2>3 DEF Apply
  <2>4. AnswersLocks(q)'
    <3> SUFFICES ASSUME NEW r \in DOMAIN q
                 PROVE  \/ prov'[r] \in Pending /\ q[r] = Answer(prov'[r])
                        \/ r = LB /\ prov'[r] \in {"NONE", "DELETED"} /\ q[r] = "ERROR"
      BY <1>1 DEF AnswersLocks
    <3>1. prov'[r] = prov[r]
      BY <2>1, <2>3
    <3> QED BY <1>1, <2>1, <3>1 DEF AnswersLocks
  <2>5. ASSUME NEW m \in DOMAIN q \cap Leaves
        PROVE  \E pool \in Pools : /\ IsBelow(m, pool)' /\ StatusThen(pool)' \in Pending
                                    /\ \A s \in Due' : s # q => pool \notin DOMAIN s
    <3>1. PICK pool \in Pools : /\ db[m] # None /\ db[m].pool_id = pool /\ prov[pool] \in Pending
                                /\ \A s \in reports : s # q => pool \notin DOMAIN s
      BY <2>2
    <3>2. m \notin Removed(p) /\ prov'[pool] = prov[pool]
      BY <2>1, <2>3, <3>1, KindsDiffer
    <3>3. db'[m] = db[m]
      BY <3>2, KindsDiffer DEF Apply
    <3> QED BY <1>1, <3>1, <3>2, <3>3 DEF IsBelow
  <2>6. HoldsPools(q)'
    BY <2>5 DEF HoldsPools
  <2>7. \A s \in reports' : s # q => DOMAIN q \cap DOMAIN s = {}
    BY <1>1 DEF ReportInv
  <2> QED BY <2>4, <2>6, <2>7
<1> QED BY <1>1, <1>2 DEF ReportInv

LEMMA DeliverReports ==
  ASSUME TypeInv, ReportInv, CallInv, Deliver \/ DeliverEarly
  PROVE  ReportInv' /\ CallInv'
<1>1. CASE Deliver
  <2>1. call = None /\ call' = call
    BY <1>1 DEF Deliver
  <2>2. PICK p \in reports : /\ reports' = reports \ {p}
                             /\ IF Known(p) THEN Apply(p) ELSE UNCHANGED <<db, prov>>
    BY <1>1 DEF Deliver
  <2>3. ReportInv'
    BY <2>1, <2>2, DeliveredReports, FewerReports, SamePicture
  <2> QED BY <2>1, <2>3 DEF CallInv
<1>2. CASE DeliverEarly
  <2>1. UNCHANGED <<db, prov, call>> /\ reports' \subseteq reports
    BY <1>2 DEF DeliverEarly
  <2> QED BY <2>1, FewerReports, SamePicture DEF CallInv
<1> QED BY <1>1, <1>2

LEMMA ReportsInitially == Init => DriverInv
<1> SUFFICES ASSUME Init PROVE DriverInv
  OBVIOUS
<1>1. TypeInv
  BY TypesInitially
<1>2. call = None /\ Due = {}
  BY DEF Init, Due, Planning
<1> QED BY <1>1, <1>2 DEF DriverInv, ReportInv, CallInv

LEMMA ReportsPreserved ==
  ASSUME "cascade" \notin Operations
  PROVE  DriverInv /\ [Next]_vars => DriverInv'
<1> SUFFICES ASSUME DriverInv, [Next]_vars PROVE DriverInv'
  OBVIOUS
<1> USE DEF DriverInv
<1>1. TypeInv'
  BY TypesPreserved
<1>2. CASE Handler
  BY <1>1, <1>2, HandlerPlans, PlannedReports
<1>3. CASE Service
  BY <1>1, <1>3, DoneReports, FailedReports, EndReports DEF Service
<1>4. CASE Deliver \/ DeliverEarly
  BY <1>1, <1>4, DeliverReports
<1>5. CASE UNCHANGED vars
  <2>1. UNCHANGED <<db, prov, rules, call, reports>>
    BY <1>5 DEF vars
  <2>2. ReportInv'
    BY <2>1, FewerReports, SamePicture
  <2>3. CallInv'
    BY <2>1 DEF CallInv
  <2> QED BY <1>1, <2>2, <2>3
<1> QED BY <1>2, <1>3, <1>4, <1>5 DEF Next

\* Whatever fails, whatever the handlers cannot read and however early or late the
\* threads of update_status wake up, no two of them are about the same resource, and
\* none is started beside one that is.
\* A cascading deletion reports the load balancer once per listener and is left out:
\* its reports do race.
THEOREM ReportsKeepApart == "cascade" \notin Operations => (Spec => []ReportsDoNotRace)
<1> SUFFICES ASSUME "cascade" \notin Operations PROVE Spec => []ReportsDoNotRace
  OBVIOUS
<1>1. DriverInv => ReportsDoNotRace
  <2> SUFFICES ASSUME DriverInv PROVE ReportsDoNotRace
    OBVIOUS
  <2>1. \A p, q \in reports : p # q => DOMAIN p \cap DOMAIN q = {}
    BY DEF DriverInv, ReportInv, Due
  <2>2. ASSUME call # None, call.todo # <<>>, Head(call.todo).report # None, NEW p \in reports
        PROVE  DOMAIN p \cap DOMAIN Head(call.todo).report = {}
    <3>1. IsCall(call)
      BY <2>2, CallFacts DEF DriverInv
    <3>2. Len(call.todo) \in Nat \ {0} /\ Head(call.todo) = call.todo[1]
      BY <3>1, <2>2, RestOfSequence DEF IsCall
    <3>3. 1 \in 1 .. Len(call.todo)
      BY <3>2
    <3>4. DOMAIN call.todo[1].report \subseteq DOMAIN call.locks
      BY <2>2, <3>2, <3>3 DEF DriverInv, CallInv
    <3> QED BY <2>2, <3>2, <3>4 DEF DriverInv, CallInv
  <2> QED BY <2>1, <2>2 DEF ReportsDoNotRace
<1>2. Init => DriverInv
  BY ReportsInitially
<1>3. DriverInv /\ [Next]_vars => DriverInv'
  BY ReportsPreserved
<1> QED BY <1>1, <1>2, <1>3, PTL DEF Spec
-----------------------------------------------------------------------------
(* Calls with one report: a report releases locks, and nothing else *)

\* A locked member waits together with its pool, for the same report; and so it did
\* before the call that is still at work, which may fail.
MembersWait ==
  \A m \in Members, pool \in Pools :
    IsBelow(m, pool) /\ StatusThen(m) \in Pending =>
      StatusThen(pool) \in Pending /\ \A p \in Due : pool \in DOMAIN p => m \in DOMAIN p

MembersWaited ==
  \A m \in Members, pool \in Pools :
    db[m] # None /\ db[m].pool_id = pool /\ prov[m] \in Pending =>
      prov[pool] \in Pending /\ \A p \in reports : pool \in DOMAIN p => m \in DOMAIN p

\* The locks of the call under way are on resources that are free.
FreeLocks ==
  \A r \in DOMAIN call.locks : prov[r] \notin Pending /\ call.locks[r] \in Contract!LocksOn(prov[r])

LockInv ==
  /\ DriverInv
  /\ \A p \in Due : \A r \in DOMAIN p : p[r] # "ERROR"
  /\ MembersWait
  /\ call # None => /\ call.onError = None
                    /\ FreeLocks
                    /\ call.todo # <<>> => MembersWaited

\* With one report a call has nothing to say of a failure.
LEMMA NoErrorReported ==
  ASSUME LockInv
  PROVE  \A p \in Due : \A r \in DOMAIN p :
           StatusThen(r) \in Pending /\ p[r] = Answer(StatusThen(r))
BY DEF LockInv, DriverInv, ReportInv, AnswersLocks

LEMMA PlannedLocks ==
  ASSUME LockInv, Planned, DriverInv', OneReport
  PROVE  LockInv'
<1> DEFINE locks == call'.locks
           rows == call'.rows
           todo == call'.todo
<1>0. TypeInv /\ ReportInv /\ CallInv /\ "cascade" \notin Operations
  BY DEF LockInv, DriverInv, OneReport
<1>1. call = None /\ call' # None /\ UNCHANGED <<db, prov, rules, reports>>
  BY <1>0, PlannedIsTyped, NoCallIsNone DEF Planned, WellTyped, WellLocked
<1>2. call'.failed = FALSE /\ Underway'
  BY <1>1 DEF Planned, WellTyped, Underway
<1>3. /\ \A r : StatusThen(r)' = IF r \in DOMAIN locks THEN locks[r] ELSE prov[r]
      /\ \A r : RowThen(r)' = IF r \in DOMAIN rows THEN rows[r] ELSE db[r]
      /\ \A r : StatusThen(r) = prov[r] /\ RowThen(r) = db[r]
      /\ Due = reports
  BY <1>1, <1>2, NoCallAhead DEF StatusThen, RowThen
<1>4. ASSUME NEW p \in Due', p \notin reports
      PROVE  Fits(p, locks) /\ Members \cap DOMAIN locks \subseteq DOMAIN p
  BY <1>0, <1>1, <1>4 DEF Due, Planning, Planned, WellReported
<1>5. \A p \in reports : p \in Due /\ p \in Due' /\ DOMAIN p \cap DOMAIN locks = {}
  BY <1>0, <1>1, NewCallKeepsApart DEF Due
<1>6. \A r \in DOMAIN locks : locks[r] \in Pending /\ Lockable(r, call')
  BY DEF Planned, WellTyped, WellLocked
<1>7. MembersWaited
  BY <1>3 DEF LockInv, MembersWait, MembersWaited, IsBelow
<1>8. \A p \in Due' : \A r \in DOMAIN p : p[r] # "ERROR"
  BY <1>4, <1>5 DEF LockInv, Fits, Answer
<1>9. MembersWait'
  <2> SUFFICES ASSUME NEW m \in Members, NEW pool \in Pools, IsBelow(m, pool)',
                      StatusThen(m)' \in Pending
               PROVE  /\ StatusThen(pool)' \in Pending
                      /\ \A p \in Due' : pool \in DOMAIN p => m \in DOMAIN p
    BY DEF MembersWait
  <2>1. CASE m \in DOMAIN locks
    <3>1. pool \in DOMAIN locks
      <4>1. RowThen(m)' = Written(rows)[m]
        BY <1>3, KindsDiffer DEF Written, Leaves
      <4> QED BY <2>1, <4>1 DEF Planned, WellLocked, IsBelow
    <3> QED BY <2>1, <3>1, <1>3, <1>4, <1>5, <1>6
  <2>2. CASE m \notin DOMAIN locks
    <3>1. m \notin DOMAIN rows
      BY <2>2, KindsDiffer DEF Planned, WellLocked, Leaves
    <3>2. /\ prov[m] \in Pending /\ db[m] # None /\ db[m].pool_id = pool
      BY <1>3, <2>2, <3>1 DEF IsBelow
    <3>3. /\ prov[pool] \in Pending
          /\ \A p \in reports : pool \in DOMAIN p => m \in DOMAIN p
      BY <3>2, <1>7 DEF MembersWaited
    <3>4. pool \notin DOMAIN locks
      BY <1>6, <3>3, KindsDiffer DEF Lockable, Pending, Leaves
    <3> QED BY <1>3, <1>4, <3>3, <3>4 DEF Fits
  <2> QED BY <2>1, <2>2
<1>10. ASSUME NEW r \in DOMAIN locks
       PROVE  prov[r] \notin Pending /\ locks[r] \in Contract!LocksOn(prov[r])
  <2>1. r \in Resources
    BY DEF Planned, WellLocked
  <2>2. CASE prov[r] = "ACTIVE" /\ locks[r] \in {"PENDING_UPDATE", "PENDING_DELETE"}
    BY <2>2 DEF Pending, Contract!LocksOn
  <2>3. CASE prov[r] \in {"NONE", "DELETED"} /\ locks[r] = "PENDING_CREATE"
    BY <2>3 DEF Pending, Contract!LocksOn
  <2>4. CASE /\ r \in Members /\ db[r] # None /\ prov[db[r].pool_id] = "ACTIVE"
             /\ locks[r] \in {"PENDING_UPDATE", "PENDING_DELETE"}
    <3>1. prov[r] \notin {"NONE", "DELETED"}
      BY <1>0, <2>4, KindsDiffer DEF TypeInv, Leaves
    <3>2. db[r].pool_id \in Pools
      BY <1>0, <2>4, LeafRows DEF Leaves
    <3>3. prov[r] \notin Pending
      BY <1>7, <2>4, <3>2 DEF MembersWaited, Pending
    <3> QED BY <2>4, <3>1, <3>3 DEF Contract!LocksOn
  <2> QED BY <1>6, <2>2, <2>3, <2>4 DEF Lockable
<1>11. call'.onError = None
  BY DEF Planned, WellReported
<1>12. FreeLocks' /\ MembersWaited'
  BY <1>1, <1>7, <1>10 DEF FreeLocks, MembersWaited
<1> QED BY <1>8, <1>9, <1>11, <1>12 DEF LockInv

LEMMA SameLocks ==
  ASSUME LockInv, KeepsToCome
  PROVE  MembersWait' /\ \A p \in Due' : \A r \in DOMAIN p : p[r] # "ERROR"
BY KindsDiffer DEF LockInv, MembersWait, Leaves, KeepsToCome
LEMMA DoneLocks ==
  ASSUME LockInv, StepDone, DriverInv'
  PROVE  LockInv'
<1>1. TypeInv /\ CallInv
  BY DEF LockInv, DriverInv
<1>2. MembersWait' /\ \A p \in Due' : \A r \in DOMAIN p : p[r] # "ERROR"
  BY <1>1, DoneKeeps, SameLocks
<1>3. call'.onError = None /\ FreeLocks'
  BY <1>1, DoneFacts DEF LockInv, FreeLocks
<1>4. call'.todo # <<>> => MembersWaited'
  BY <1>1, DoneFacts, DoneAtTheEnd DEF LockInv, MembersWaited
<1> QED BY <1>2, <1>3, <1>4 DEF LockInv

LEMMA FailedLocks ==
  ASSUME LockInv, StepFails, DriverInv'
  PROVE  LockInv'
<1>1. TypeInv /\ CallInv
  BY DEF LockInv, DriverInv
<1>2. /\ call # None /\ call.todo # <<>> /\ UNCHANGED <<db, prov>>
      /\ call'.locks = call.locks /\ call'.onError = call.onError
      /\ call'.todo = <<>> /\ call'.failed = TRUE
  <2>1. call'.todo = <<>> /\ call'.failed = TRUE
    BY <1>1, CallFacts DEF StepFails, Raised, IsCall
  <2> QED BY <1>1, <2>1, StepEffect DEF StepFails
<1>3. call.onError = None /\ FreeLocks /\ MembersWaited
  BY <1>2 DEF LockInv
<1>4. /\ Due' = reports /\ reports \subseteq Due
      /\ \A r : StatusThen(r)' = prov[r] /\ RowThen(r)' = db[r]
  BY <1>2, <1>3 DEF StepFails, ReportedOnError, Sent, Due, Planning, StatusThen, RowThen, Underway
<1>5. MembersWait'
  BY <1>3, <1>4 DEF MembersWait, MembersWaited, IsBelow
<1>6. \A p \in Due' : \A r \in DOMAIN p : p[r] # "ERROR"
  BY <1>4 DEF LockInv
<1> QED BY <1>2, <1>3, <1>5, <1>6 DEF LockInv, FreeLocks

\* A report delivers a pool's members with their pool, or leaves both.
LEMMA DeliveredLocks ==
  ASSUME LockInv, call = None, NEW p \in reports, Apply(p),
         reports' = reports \ {p}, call' = call
  PROVE  MembersWait'
<1>1. TypeInv /\ Due = reports /\ Due' = reports'
  <2>1. call' = None
    OBVIOUS
  <2> QED BY <2>1, NoCallAhead DEF Due, Planning, LockInv, DriverInv
<1>2. /\ \A r : StatusThen(r) = prov[r] /\ RowThen(r) = db[r]
      /\ \A r : StatusThen(r)' = prov'[r] /\ RowThen(r)' = db'[r]
  <2>1. call' = None
    OBVIOUS
  <2> QED BY <2>1, NoCallAhead DEF StatusThen, RowThen, Underway
<1> SUFFICES ASSUME NEW m \in Members, NEW pool \in Pools, db'[m] # None, db'[m].pool_id = pool,
                    prov'[m] \in Pending
             PROVE  /\ prov'[pool] \in Pending
                    /\ \A q \in reports' : pool \in DOMAIN q => m \in DOMAIN q
  BY <1>1, <1>2 DEF MembersWait, IsBelow
<1>3. m \in Leaves /\ m \in Children /\ m \in Resources /\ m \notin Pools
  BY KindsDiffer DEF Leaves
<1>4. m \notin Removed(p)
  BY <1>3 DEF Apply, Pending
<1>5. m \notin DOMAIN p
  <2>1. m \in DOMAIN p => prov'[m] = p[m] /\ p[m] \in {"ACTIVE", "ERROR", "DELETED"}
    BY <1>1, <1>3, <1>4, DueReports DEF Apply, IsReport
  <2> QED BY <2>1 DEF Pending
<1>6. prov[m] \in Pending /\ db[m] # None /\ db[m].pool_id = pool
  BY <1>3, <1>4, <1>5 DEF Apply
<1>7. /\ prov[pool] \in Pending
      /\ \A q \in reports : pool \in DOMAIN q => m \in DOMAIN q
  BY <1>1, <1>2, <1>6 DEF LockInv, MembersWait, IsBelow
<1>8. pool \notin DOMAIN p /\ pool \in Resources
  BY <1>5, <1>7, KindsDiffer
<1>9. pool \notin Removed(p)
  BY <1>1, <1>8, RemovedBelow, KindsDiffer
<1> QED BY <1>7, <1>8, <1>9 DEF Apply

LEMMA LocksPreserved ==
  ASSUME OneReport
  PROVE  LockInv /\ [Next]_vars => LockInv'
<1> SUFFICES ASSUME LockInv, [Next]_vars PROVE LockInv'
  OBVIOUS
<1>1. DriverInv'
  BY ReportsPreserved DEF LockInv, OneReport
<1>2. TypeInv /\ CallInv
  BY DEF LockInv, DriverInv
<1>3. CASE Handler
  BY <1>1, <1>2, <1>3, HandlerPlans, PlannedLocks
<1>4. CASE StepDone \/ StepFails
  BY <1>1, <1>4, DoneLocks, FailedLocks
<1>5. CASE Commit \/ Rollback
  <2>1. call' = None
    BY <1>5 DEF Commit, Rollback
  <2> QED BY <1>1, <1>2, <1>5, <2>1, EndKeeps, SameLocks DEF LockInv
<1>6. CASE Deliver
  <2>1. call = None /\ call' = call
    BY <1>6 DEF Deliver
  <2>2. PICK p \in reports : /\ reports' = reports \ {p}
                             /\ IF Known(p) THEN Apply(p) ELSE UNCHANGED <<db, prov>>
    BY <1>6 DEF Deliver
  <2>3. MembersWait'
    BY <2>1, <2>2, DeliveredLocks, FewerReports, SameLocks
  <2>4. \A q \in Due' : q \in Due
    BY <2>1, <2>2 DEF Due, Planning
  <2> QED BY <1>1, <2>1, <2>3, <2>4 DEF LockInv
<1>7. CASE DeliverEarly \/ UNCHANGED vars
  <2>1. UNCHANGED <<db, prov, call>> /\ reports' \subseteq reports
    BY <1>7 DEF DeliverEarly, vars
  <2>2. MembersWait' /\ \A p \in Due' : \A r \in DOMAIN p : p[r] # "ERROR"
    BY <2>1, FewerReports, SameLocks
  <2>3. call # None => call'.onError = None /\ FreeLocks' /\ (call'.todo # <<>> => MembersWaited')
    BY <2>1 DEF LockInv, FreeLocks, MembersWaited
  <2> QED BY <1>1, <2>1, <2>2, <2>3 DEF LockInv
<1> QED BY <1>3, <1>4, <1>5, <1>6, <1>7 DEF Next, Service

LEMMA LocksInitially == Init => LockInv
<1> SUFFICES ASSUME Init PROVE LockInv
  OBVIOUS
<1>1. DriverInv
  BY ReportsInitially
<1>2. call = None /\ Due = {}
  BY DEF Init, Due, Planning
<1>3. \A m \in Members : ~ (StatusThen(m) \in Pending)
  BY KindsDiffer DEF Init, StatusThen, Underway, Pending, Leaves
<1> QED BY <1>1, <1>2, <1>3 DEF LockInv, MembersWait

LEMMA CommitIsLock ==
  ASSUME LockInv, Commit, TypeInv'
  PROVE  Contract!Lock
<1>1. TypeInv /\ call # None /\ FreeLocks
  BY DEF LockInv, DriverInv, Commit
<1>2. Contract!TypeOK'
  BY DEF TypeInv, TypeOK, Contract!TypeOK, Statuses, Contract!Statuses, Pending, Contract!Locked
<1>3. ASSUME NEW r \in Resources
      PROVE  \/ prov'[r] = prov[r]
             \/ prov[r] \notin Contract!Locked /\ prov'[r] \in Contract!LocksOn(prov[r])
  <2>1. prov'[r] = IF r \in DOMAIN call.locks THEN call.locks[r] ELSE prov[r]
    BY DEF Commit
  <2> QED BY <1>1, <2>1 DEF FreeLocks, Pending, Contract!Locked
<1> QED BY <1>2, <1>3 DEF Contract!Lock

LEMMA ApplyIsRelease ==
  ASSUME LockInv, call = None, NEW p \in reports, Apply(p), TypeInv'
  PROVE  Contract!Release
<1>1. TypeInv /\ p \in Due /\ \A r : StatusThen(r) = prov[r]
  BY NoCallAhead DEF LockInv, DriverInv, Due
<1>2. \A r \in DOMAIN p : prov[r] \in Pending /\ p[r] = Answer(prov[r])
  BY <1>1, NoErrorReported
<1>3. Contract!TypeOK'
  BY DEF TypeInv, TypeOK, Contract!TypeOK, Statuses, Contract!Statuses, Pending, Contract!Locked
<1>4. \A r \in Resources : prov'[r] = IF r \in Removed(p) THEN "NONE"
                                       ELSE IF r \in DOMAIN p THEN p[r] ELSE prov[r]
  BY DEF Apply
<1>5. \A r \in DOMAIN p : p[r] = "DELETED" => prov[r] = "PENDING_DELETE"
  BY <1>2 DEF Answer
<1>6. ASSUME NEW r \in Resources
      PROVE  \/ prov'[r] = prov[r]
             \/ prov[r] \in Contract!Locked /\ prov'[r] \in Contract!ReleasesOf(prov[r])
             \/ Contract!Gone(r)
  <2>1. CASE r \in Removed(p) /\ r \in DOMAIN p /\ p[r] = "DELETED"
    BY <2>1, <1>4, <1>5 DEF Contract!Locked, Contract!ReleasesOf
  <2>2. CASE r \in Removed(p) /\ (r \notin DOMAIN p \/ p[r] # "DELETED")
    <3>1. PICK pool \in Pools \cap DOMAIN p : p[pool] = "DELETED"
      BY <1>1, <2>2, RemovedBelow
    <3>2. pool \in Removed(p) /\ pool \in Resources
      BY <3>1, KindsDiffer DEF Removed
    <3>3. r \in Members \cup Monitors
      BY <2>2, RemovedBelow DEF Leaves
    <3> QED BY <2>2, <3>1, <3>2, <3>3, <1>4, <1>5 DEF Contract!Gone
  <2>3. CASE r \notin Removed(p) /\ r \in DOMAIN p
    <3>1. prov[r] \in Pending /\ prov'[r] = Answer(prov[r])
      BY <1>2, <1>4, <2>3
    <3> QED BY <3>1 DEF Pending, Answer, Contract!Locked, Contract!ReleasesOf
  <2>4. CASE r \notin Removed(p) /\ r \notin DOMAIN p
    BY <1>4, <2>4
  <2> QED BY <2>1, <2>2, <2>3, <2>4
<1> QED BY <1>3, <1>6 DEF Contract!Release

LEMMA StepsRefineContract ==
  ASSUME LockInv, LockInv', [Next]_vars, OneReport
  PROVE  [Contract!Next]_prov
<1>1. TypeInv /\ TypeInv'
  BY DEF LockInv, DriverInv
<1>2. CASE Handler
  BY <1>1, <1>2, HandlerPlans DEF Planned
<1>3. CASE StepDone \/ StepFails \/ Rollback
  BY <1>3 DEF StepDone, StepFails, Rollback
<1>4. CASE Commit
  BY <1>1, <1>4, CommitIsLock DEF Contract!Next
<1>5. CASE Deliver
  <2>1. call = None
    BY <1>5 DEF Deliver
  <2>2. PICK p \in reports : IF Known(p) THEN Apply(p) ELSE UNCHANGED <<db, prov>>
    BY <1>5 DEF Deliver
  <2> QED BY <1>1, <2>1, <2>2, ApplyIsRelease DEF Contract!Next
<1>6. CASE DeliverEarly \/ UNCHANGED vars
  BY <1>6 DEF DeliverEarly, vars
<1> QED BY <1>2, <1>3, <1>4, <1>5, <1>6 DEF Next, Service

\* The driver implements the locks Octavia takes for granted: only a call locks, only
\* what is free, and a lock goes only by the report that answers it or with the pool
\* that is deleted; whatever fails, whatever the handlers cannot read, and when reports
\* come before the commit.  Not so for the calls that are answered by several reports or
\* lock what no report mentions: a tree, a cascading deletion, members left out of a
\* list.
THEOREM ReportsAnswerLocks == OneReport => (Spec => ReportsOnlyRelease)
<1> SUFFICES ASSUME OneReport PROVE Spec => ReportsOnlyRelease
  OBVIOUS
<1>1. Init => LockInv
  BY LocksInitially
<1>2. LockInv /\ [Next]_vars => LockInv'
  BY LocksPreserved
<1>3. LockInv /\ LockInv' /\ [Next]_vars => [Contract!Next]_prov
  BY StepsRefineContract
<1>4. Init => Contract!Init
  BY DEF Init, Contract!Init
<1> QED BY <1>1, <1>2, <1>3, <1>4, PTL DEF Spec, ReportsOnlyRelease, Contract!SafeSpec
-----------------------------------------------------------------------------
(* Every lock is answered, when the handlers find the whole tree *)

Refuses == \E n \in 1 .. Len(call.todo) : call.todo[n].verb = "RAISE"

\* A lock is answered by a report that is due, or belongs to a call that will be
\* refused; and the call under way may fail.
AnswerInv ==
  /\ LockInv
  /\ \A r \in Resources : StatusThen(r) \in Pending =>
       \/ \E p \in Due : r \in DOMAIN p
       \/ Underway /\ r \in DOMAIN call.locks /\ Refuses
  /\ call # None /\ call.todo # <<>> =>
       \A r \in Resources : prov[r] \in Pending => \E p \in reports : r \in DOMAIN p

LEMMA PlannedAnswers ==
  ASSUME AnswerInv, Planned, LockInv', Thorough
  PROVE  AnswerInv'
<1> DEFINE locks == call'.locks
           todo == call'.todo
           last == todo[Len(todo)]
<1>1. call = None /\ call' # None /\ UNCHANGED <<db, prov, rules, reports>> /\ call'.failed = FALSE
  BY PlannedIsTyped, NoCallIsNone DEF Planned, WellTyped, WellLocked, AnswerInv, LockInv, DriverInv
<1>2. /\ \A r : StatusThen(r)' = IF r \in DOMAIN locks THEN locks[r] ELSE prov[r]
      /\ \A r : StatusThen(r) = prov[r]
      /\ Due = reports /\ reports \subseteq Due' /\ Underway'
  BY <1>1, NoCallAhead DEF StatusThen, Underway, Due
<1>3. \A r \in Resources : prov[r] \in Pending => \E p \in reports : r \in DOMAIN p
  BY <1>1, <1>2 DEF AnswerInv, Underway
<1>4. /\ Len(todo) \in 1 .. Len(todo)
      /\ last.verb = "RAISE" \/ (last.report # None /\ DOMAIN last.report = DOMAIN locks)
  <2>1. todo # <<>> /\ todo \in Seq({todo[n] : n \in DOMAIN todo})
    BY DEF Planned, IsCall, WellReported
  <2>2. Len(todo) \in 1 .. Len(todo)
    BY <2>1
  <2> QED BY <2>2 DEF Planned, WellReported
<1>5. CASE last.verb = "RAISE"
  BY <1>1, <1>2, <1>3, <1>4, <1>5 DEF AnswerInv, Refuses
<1>6. CASE last.report # None /\ DOMAIN last.report = DOMAIN locks
  <2>1. last.report \in Due'
    BY <1>1, <1>4, <1>6 DEF Due, Planning
  <2> QED BY <2>1, <1>1, <1>2, <1>3, <1>6 DEF AnswerInv
<1> QED BY <1>4, <1>5, <1>6

LEMMA DoneAnswers ==
  ASSUME AnswerInv, StepDone, LockInv'
  PROVE  AnswerInv'
<1> DEFINE todo == call.todo
           rest == call'.todo
<1>1. TypeInv /\ CallInv
  BY DEF AnswerInv, LockInv, DriverInv
<1>2. ASSUME NEW n \in 1 .. Len(todo), n # 1
      PROVE  n - 1 \in 1 .. Len(rest) /\ rest[n - 1] = todo[n]
  <2>1. n - 1 \in 1 .. Len(rest)
    BY <1>1, <1>2, DoneFacts
  <2>2. rest[n - 1] = todo[(n - 1) + 1]
    BY <1>1, <2>1, DoneFacts
  <2> QED BY <2>1, <2>2
<1>3. ASSUME NEW p \in Due PROVE p \in Due'
  <2>1. CASE p \in reports
    BY <1>1, <2>1, DoneFacts DEF Due, Sent
  <2>2. CASE p \notin reports
    <3>1. PICK n \in 1 .. Len(todo) : p = todo[n].report /\ p # None
      BY <2>2 DEF Due, Planning
    <3>2. CASE n = 1
      BY <1>1, <3>1, <3>2, DoneFacts DEF Due, Sent
    <3>3. CASE n # 1
      <4>1. p \in Planning'
        BY <1>1, <1>2, <3>1, <3>3, DoneFacts DEF Planning
      <4> QED BY <4>1 DEF Due
    <3> QED BY <3>2, <3>3
  <2> QED BY <2>1, <2>2
<1>4. Refuses => Refuses'
  BY <1>1, <1>2, DoneFacts DEF Refuses, StepDone
<1>5. /\ \A r \in Resources : StatusThen(r)' = StatusThen(r)
      /\ Underway' <=> Underway /\ call'.locks = call.locks
  BY <1>1, DoneKeeps, DoneFacts DEF KeepsToCome, Underway
<1>6. rest # <<>> => \A r \in Resources : prov'[r] \in Pending => \E p \in reports' : r \in DOMAIN p
  BY <1>1, DoneFacts, DoneAtTheEnd DEF AnswerInv
<1> QED BY <1>1, <1>3, <1>4, <1>5, <1>6, DoneFacts DEF AnswerInv

LEMMA AnswersPreserved ==
  ASSUME Thorough, CommitFirst
  PROVE  AnswerInv /\ [Next]_vars => AnswerInv'
<1> SUFFICES ASSUME AnswerInv, [Next]_vars PROVE AnswerInv'
  OBVIOUS
<1>1. LockInv'
  BY LocksPreserved DEF AnswerInv, Thorough
<1>2. TypeInv /\ CallInv
  BY DEF AnswerInv, LockInv, DriverInv
<1>3. CASE Handler
  BY <1>1, <1>2, <1>3, HandlerPlans, PlannedAnswers
<1>4. CASE StepDone
  BY <1>1, <1>4, DoneAnswers
<1>5. CASE StepFails
  <2>1. call # None /\ call.todo # <<>> /\ call'.todo = <<>> /\ call'.failed = TRUE /\ prov' = prov
    BY <1>2, <1>5, CallFacts DEF StepFails, Raised, IsCall
  <2>2. reports \subseteq Due' /\ \A r : StatusThen(r)' = prov[r]
    BY <1>5, <2>1 DEF StepFails, ReportedOnError, Sent, Due, StatusThen, Underway
  <2> QED BY <1>1, <2>1, <2>2 DEF AnswerInv
<1>6. CASE Commit \/ Rollback
  <2>1. call # None /\ call' = None /\ call.todo = <<>> /\ reports' = reports
    BY <1>2, <1>6 DEF Commit, Rollback, CallInv
  <2>2. Due' = Due /\ ~ Refuses
    BY <2>1 DEF Due, Planning, Refuses
  <2>3. \A r \in Resources : StatusThen(r)' = StatusThen(r)
    BY <1>2, <1>6, EndKeeps DEF KeepsToCome
  <2> QED BY <1>1, <2>1, <2>2, <2>3 DEF AnswerInv
<1>7. CASE Deliver
  <2>1. call = None /\ call' = None /\ Due = reports /\ Due' = reports'
    BY <1>7, NoCallAhead DEF Deliver, Due, Planning
  <2>2. /\ \A r : StatusThen(r) = prov[r]
        /\ \A r : StatusThen(r)' = prov'[r]
    BY <2>1, NoCallAhead DEF StatusThen, Underway
  <2>3. PICK p \in reports : /\ reports' = reports \ {p}
                             /\ IF Known(p) THEN Apply(p) ELSE UNCHANGED <<db, prov>>
    BY <1>7 DEF Deliver
  <2>4. Known(p)
    BY <2>1, <2>2, NoErrorReported DEF Known, Pending, AnswerInv
  <2>5. ASSUME NEW r \in Resources, prov'[r] \in Pending
        PROVE  prov[r] \in Pending /\ r \notin DOMAIN p
    <3>1. IsReport(p)
      BY <1>2, <2>1, DueReports
    <3> QED BY <2>3, <2>4, <2>5, <3>1 DEF Apply, Pending, IsReport
  <2>6. \A r \in Resources : prov[r] \in Pending => \E q \in reports : r \in DOMAIN q
    BY <2>1, <2>2 DEF AnswerInv, Underway
  <2> QED BY <1>1, <2>1, <2>2, <2>3, <2>5, <2>6 DEF AnswerInv
<1>8. CASE DeliverEarly
  BY <1>8 DEF DeliverEarly
<1>9. CASE UNCHANGED vars
  <2>1. UNCHANGED <<db, prov, call, reports>>
    BY <1>9 DEF vars
  <2>2. /\ \A r : StatusThen(r)' = StatusThen(r)
        /\ Due' = Due /\ (Underway' <=> Underway) /\ (Refuses' <=> Refuses)
    BY <2>1 DEF StatusThen, Due, Planning, Underway, Refuses
  <2> QED BY <1>1, <2>1, <2>2 DEF AnswerInv
<1> QED BY <1>3, <1>4, <1>5, <1>6, <1>7, <1>8, <1>9 DEF Next, Service

\* Nothing stays locked: where Octavia commits within the delay of a report, updates
\* show whole objects and the getters answer, every lock is named by the report of the
\* call that took it, or goes with that call's rollback.
THEOREM NothingStaysLocked == Thorough /\ CommitFirst => (Spec => []Unlocked)
<1> SUFFICES ASSUME Thorough, CommitFirst PROVE Spec => []Unlocked
  OBVIOUS
<1>1. Init => AnswerInv
  <2> SUFFICES ASSUME Init PROVE AnswerInv
    OBVIOUS
  <2>1. \A r \in Resources : ~ (StatusThen(r) \in Pending)
    BY DEF Init, StatusThen, Underway, Pending
  <2> QED BY <2>1, LocksInitially DEF Init, AnswerInv
<1>2. AnswerInv /\ [Next]_vars => AnswerInv'
  BY AnswersPreserved
<1>3. AnswerInv => Unlocked
  <2> SUFFICES ASSUME AnswerInv, Settled, NEW r \in Resources PROVE prov[r] \notin Pending
    BY DEF Unlocked
  <2>1. Due = {} /\ StatusThen(r) = prov[r]
    BY NoCallAhead DEF Settled
  <2> QED BY <2>1 DEF AnswerInv, Settled, Underway
<1> QED BY <1>1, <1>2, <1>3, PTL DEF Spec
-----------------------------------------------------------------------------
(* A listener reported DELETED has no rule *)

\* A report that a listener is deleted follows the deletion of its rule; while it
\* waits the load balancer is locked, so that no call makes another.
DeletionInv ==
  /\ DriverInv
  /\ \A p \in reports : \A l \in Listeners \cap DOMAIN p :
       p[l] = "DELETED" => rules[l] = None /\ LB \in DOMAIN p
  /\ call # None =>
       \A n \in 1 .. Len(call.todo) : call.todo[n].report # None =>
         \A l \in Listeners \cap DOMAIN call.todo[n].report :
           call.todo[n].report[l] = "DELETED" => DeletesListener(call.todo[n], l)

\* While a call has requests to make no such report waits.
LEMMA NoDeletionWaits ==
  ASSUME DeletionInv, call # None, call.todo # <<>>, NEW p \in reports,
         NEW l \in Listeners \cap DOMAIN p
  PROVE  p[l] # "DELETED"
BY CallFacts DEF DeletionInv, DriverInv, CallInv

LEMMA DeletionsPreserved ==
  ASSUME "cascade" \notin Operations, ~ GetsMayFail
  PROVE  DeletionInv /\ [Next]_vars => DeletionInv'
<1> SUFFICES ASSUME DeletionInv, [Next]_vars PROVE DeletionInv'
  OBVIOUS
<1>1. DriverInv'
  BY ReportsPreserved DEF DeletionInv
<1>2. TypeInv /\ CallInv
  BY DEF DeletionInv, DriverInv
<1>3. CASE Handler
  <2>1. Planned
    BY <1>2, <1>3, HandlerPlans
  <2> DEFINE todo == call'.todo
             locks == call'.locks
  <2>2. ASSUME NEW n \in 1 .. Len(todo), todo[n].report # None,
               NEW l \in Listeners \cap DOMAIN todo[n].report, todo[n].report[l] = "DELETED"
        PROVE  DeletesListener(todo[n], l)
    <3>1. Fits(todo[n].report, locks)
      BY <2>1, <2>2 DEF Planned, WellReported
    <3>2. locks[l] = "PENDING_DELETE"
      BY <3>1, <2>2 DEF Fits, Answer
    <3> QED BY <2>1, <2>2, <3>2 DEF Planned, WellReported
  <2> QED BY <1>1, <2>1, <2>2 DEF Planned, DeletionInv
<1>4. CASE StepDone
  <2> DEFINE s == call.todo[1]
  <2>1. /\ call # None /\ call.todo # <<>> /\ call' # None
        /\ 1 \in 1 .. Len(call.todo) /\ Head(call.todo) = s
        /\ \A n \in 1 .. Len(call'.todo) : n + 1 \in 1 .. Len(call.todo) /\ call'.todo[n] = call.todo[n + 1]
        /\ reports' = Sent(s.report) /\ rules' = Performed(s)
    BY <1>2, <1>4, DoneFacts DEF StepDone
  <2>2. ASSUME NEW p \in reports', NEW l \in Listeners \cap DOMAIN p, p[l] = "DELETED"
        PROVE  rules'[l] = None /\ LB \in DOMAIN p
    <3>1. p = s.report /\ p # None
      BY <2>1, <2>2, NoDeletionWaits DEF Sent
    <3>2. DeletesListener(s, l)
      BY <2>1, <2>2, <3>1 DEF DeletionInv
    <3>3. rules'[l] = None
      BY <1>2, <2>1, <3>2 DEF DeletesListener, Performed, TypeInv, TypeOK
    <3> QED BY <3>1, <3>2, <3>3 DEF DeletesListener
  <2> QED BY <1>1, <2>1, <2>2 DEF DeletionInv
<1>5. CASE StepFails
  <2>1. call # None /\ call.todo # <<>> /\ call' # None /\ call'.todo = <<>>
    BY <1>2, <1>5, CallFacts, StepEffect DEF StepFails, Raised, IsCall
  <2>2. ASSUME NEW p \in reports', NEW l \in Listeners \cap DOMAIN p
        PROVE  p[l] # "DELETED"
    <3>1. CASE p \in reports
      BY <2>1, <2>2, <3>1, NoDeletionWaits
    <3>2. CASE p \notin reports
      <4>1. p = Only(LB, "ERROR")
        BY <1>2, <1>5, <2>1, <3>2 DEF StepFails, ReportedOnError, Sent, CallInv
      <4> QED BY <2>2, <4>1 DEF Only
    <3> QED BY <3>1, <3>2
  <2> QED BY <1>1, <2>1, <2>2 DEF DeletionInv
<1>6. CASE Commit \/ Rollback \/ Deliver \/ DeliverEarly \/ UNCHANGED vars
  <2>1. rules' = rules /\ reports' \subseteq reports /\ (call' = None \/ call' = call)
    BY <1>6 DEF Commit, Rollback, Deliver, DeliverEarly, vars
  <2> QED BY <1>1, <2>1 DEF DeletionInv
<1> QED BY <1>3, <1>4, <1>5, <1>6 DEF Next, Service

\* No report says that a listener is deleted while its rule still forwards, whatever
\* requests fail.  Where a getter fails, the listener is deleted by a name that no rule
\* has, and reported all the same.
THEOREM DeletionsAreTrue ==
  "cascade" \notin Operations /\ ~ GetsMayFail => (Spec => []DeletedReportIsTrue)
<1> SUFFICES ASSUME "cascade" \notin Operations, ~ GetsMayFail
             PROVE  Spec => []DeletedReportIsTrue
  OBVIOUS
<1>1. Init => DeletionInv
  <2> SUFFICES ASSUME Init PROVE DeletionInv
    OBVIOUS
  <2> QED BY ReportsInitially DEF Init, DeletionInv
<1>2. DeletionInv /\ [Next]_vars => DeletionInv'
  BY DeletionsPreserved
<1>3. DeletionInv => DeletedReportIsTrue
  BY DEF DeletionInv, DeletedReportIsTrue
<1> QED BY <1>1, <1>2, <1>3, PTL DEF Spec
=============================================================================
