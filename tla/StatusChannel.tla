---------------------------- MODULE StatusChannel ----------------------------
(***************************************************************************)
(* What ProviderDriver takes for granted about its status reports, and     *)
(* when it may: each report is accepted once, is on its way for a while    *)
(* and arrives, in any order; it gets lost only after something went wrong *)
(* that the driver's process can do nothing about.  Octavia may refuse it. *)
(* StatusSynchronizer implements this.                                     *)
(***************************************************************************)
CONSTANTS Reports

VARIABLES outcome,      \* outcome[r]: what became of report r
          trouble       \* has anything gone wrong that may cost a report?

vars == <<outcome, trouble>>

TypeOK == /\ outcome \in [Reports -> {"unsent", "waiting", "delivered", "refused", "lost"}]
          /\ trouble \in BOOLEAN

Init == /\ outcome = [r \in Reports |-> "unsent"]
        /\ trouble \in BOOLEAN

Send(r) == /\ outcome[r] = "unsent"
           /\ outcome' = [outcome EXCEPT ![r] = "waiting"]
           /\ UNCHANGED trouble

Deliver(r) == /\ outcome[r] = "waiting"
              /\ outcome' = [outcome EXCEPT ![r] = "delivered"]
              /\ UNCHANGED trouble

\* Octavia refuses it, for instance because a row is not there.
Refuse(r) == /\ outcome[r] = "waiting"
             /\ outcome' = [outcome EXCEPT ![r] = "refused"]
             /\ UNCHANGED trouble

\* Trouble begins, and may take reports with it.
Trouble == /\ trouble' = TRUE
           /\ \E gone \in SUBSET {r \in Reports : outcome[r] = "waiting"} :
                outcome' = [r \in Reports |-> IF r \in gone THEN "lost" ELSE outcome[r]]

Lose(r) == /\ trouble /\ outcome[r] = "waiting"
           /\ outcome' = [outcome EXCEPT ![r] = "lost"]
           /\ UNCHANGED trouble

\* A new process has only its own troubles; no report of the old one is left.
Recover == /\ \A r \in Reports : outcome[r] # "waiting"
           /\ trouble' \in BOOLEAN
           /\ UNCHANGED outcome

Next == \/ Trouble \/ Recover
        \/ \E r \in Reports : Send(r) \/ Deliver(r) \/ Refuse(r) \/ Lose(r)

SafeSpec == Init /\ [][Next]_vars

\* No report stays on its way for ever.
Settles == \A r \in Reports : outcome[r] = "waiting" ~> outcome[r] # "waiting"

Spec == SafeSpec /\ Settles
=============================================================================
