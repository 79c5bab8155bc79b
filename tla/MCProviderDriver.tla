-------------------------- MODULE MCProviderDriver --------------------------
(***************************************************************************)
(* Sets of API calls for the configurations that check ProviderDriver.     *)
(***************************************************************************)
EXTENDS ProviderDriver

\* The calls whose handlers bring LoxiLB to what Octavia wants.
Lifecycle == {"loadbalancer_create", "loadbalancer_update", "loadbalancer_delete",
              "loadbalancer_failover", "listener_create", "listener_update",
              "listener_delete", "pool_create", "pool_update", "pool_delete",
              "member_create", "member_delete", "member_batch_update",
              "health_monitor_create", "health_monitor_update", "l7"}

\* Every call but the creation and deletion of whole trees.
EveryCall == Lifecycle \cup {"member_update", "member_batch_removal", "health_monitor_delete"}

\* Listeners, pools and members are interchangeable: sound for properties of states
\* and steps, which are all that are checked with it.
Symmetry == Permutations(Listeners) \cup Permutations(Pools) \cup Permutations(Members)
=============================================================================
