------------------------ MODULE ProvisioningContract ------------------------
(***************************************************************************)
(* What Octavia takes for granted about a provider driver: a PENDING       *)
(* status is a lock, which the API takes and one report of the driver      *)
(* releases, and a report changes nothing else.  ProviderDriver implements *)
(* this.                                                                   *)
(***************************************************************************)
CONSTANTS Resources,
          Containers, Parts     \* a container takes its parts with it

VARIABLES prov      \* prov[r]: the provisioning_status of resource r

Locked == {"PENDING_CREATE", "PENDING_UPDATE", "PENDING_DELETE"}
Statuses == Locked \cup {"NONE", "ACTIVE", "ERROR", "DELETED"}

TypeOK == prov \in [Resources -> Statuses]

Init == prov = [r \in Resources |-> "NONE"]

\* The locks that may be put on a resource, and what may come of a lock.
LocksOn(status) == IF status \in {"NONE", "DELETED"} THEN {"PENDING_CREATE"}
                   ELSE {"PENDING_UPDATE", "PENDING_DELETE"}

ReleasesOf(lock) == IF lock = "PENDING_DELETE" THEN {"NONE", "DELETED"} ELSE {"ACTIVE", "ERROR"}

\* A call locks resources that are not locked.
Lock == /\ TypeOK'
        /\ \A r \in Resources : \/ prov'[r] = prov[r]
                                \/ prov[r] \notin Locked /\ prov'[r] \in LocksOn(prov[r])

\* A part goes together with a container that is deleted.
Gone(r) == /\ r \in Parts /\ prov'[r] = "NONE"
           /\ \E s \in Containers : prov[s] = "PENDING_DELETE" /\ prov'[s] = "NONE"

\* A report releases locks.
Release == /\ TypeOK'
           /\ \A r \in Resources : \/ prov'[r] = prov[r]
                                   \/ prov[r] \in Locked /\ prov'[r] \in ReleasesOf(prov[r])
                                   \/ Gone(r)

Next == Lock \/ Release

SafeSpec == Init /\ [][Next]_prov

\* No lock is held for ever.
LocksAreReleased == \A r \in Resources : prov[r] \in Locked ~> prov[r] \notin Locked

Spec == SafeSpec /\ LocksAreReleased
=============================================================================
