------------------------------ MODULE Statistics ------------------------------
(***************************************************************************)
(* How the figures of a listener are computed from what LoxiLB counts:     *)
(* get_loadbalancer_stats and get_all_loadbalancer_stats of the client,    *)
(* which do the same arithmetic, and the listener sync_all_statistics      *)
(* finds in the name of a rule.                                            *)
(*                                                                         *)
(* counters[e] is the counter of endpoint e of a rule, "packets:bytes".    *)
(* conntrack[f] is an entry of the connection table, or None; its service  *)
(* stands for the destination address, port and protocol that name a rule. *)
(***************************************************************************)
EXTENDS Translator, FiniteSetsExt, Sequences

Larger(a, b) == IF a >= b THEN a ELSE b

Total(counters, field) == MapThenSumSet(LAMBDA e : counters[e][field], DOMAIN counters)

entries_of(conntrack, service) ==
  {f \in DOMAIN conntrack : conntrack[f] # None /\ conntrack[f].service = service}

Tracked(conntrack, service, field) ==
  MapThenSumSet(LAMBDA f : conntrack[f][field], entries_of(conntrack, service))

\* Faulty variant: the two views of the same traffic are added up.
effective_sum(counters, conntrack, service, field) ==
  Total(counters, field) + Tracked(conntrack, service, field)

\* The larger of the two views of the same traffic.
effective(counters, conntrack, service, field) ==
  Larger(Total(counters, field), Tracked(conntrack, service, field))

\* Half of the bytes went each way; a single byte is counted both ways.
bytes_in(bytes) == IF bytes \div 2 = 0 THEN bytes ELSE bytes \div 2
bytes_out(bytes) == IF bytes \div 2 = 0 THEN bytes ELSE bytes - (bytes \div 2)

active_connections(conntrack, service) ==
  Cardinality({f \in entries_of(conntrack, service) : conntrack[f].established})

\* Four packets make a connection, and fewer make one as well.
connections(packets) ==
  IF packets >= 4 THEN packets \div 4 ELSE IF packets > 0 THEN 1 ELSE 0

stats_of(counters, conntrack, service) ==
  LET bytes == effective(counters, conntrack, service, "bytes")
      active == active_connections(conntrack, service)
  IN  [bytes_in |-> bytes_in(bytes), bytes_out |-> bytes_out(bytes),
       active_connections |-> active,
       total_connections |->
         Larger(active, connections(effective(counters, conntrack, service, "packets")))]

\* Faulty variant: the first identifier is taken.
listener_of_first(name, UUIDs) == IF name = <<>> THEN None ELSE Head(name)

\* A name "octavia-..." as the sequence of its identifiers: the second UUID, else
\* the only one, else the part after the second dash or after the first.
listener_of(name, UUIDs) ==
  LET uuids == {n \in DOMAIN name : name[n] \in UUIDs}
      later == uuids \ {Min(uuids)}
  IN  CASE uuids # {} /\ later # {}         -> name[Min(later)]
        [] uuids # {} /\ later = {}         -> name[Min(uuids)]
        [] uuids = {} /\ Len(name) >= 2     -> name[2]
        [] uuids = {} /\ Len(name) = 1      -> name[1]
        [] OTHER                            -> None
=============================================================================
