----------------------------- MODULE Translator -----------------------------
(***************************************************************************)
(* octavia_loxilb/translation/translator.py and the maps of                *)
(* common/constants.py: how the Octavia tree below one listener becomes a  *)
(* single LoxiLB rule, or is refused.                                      *)
(*                                                                         *)
(* Objects are records.  A field the caller left out (octavia-lib's Unset) *)
(* and a field that is None are both None here: get_field gives the       *)
(* default for the first, and no caller passes an explicit None for a      *)
(* field that has another default.  A member list is the set of its        *)
(* members; a listener's VIP, port and protocol are its protocol_port.     *)
(***************************************************************************)
EXTENDS Naturals

CONSTANTS None,     \* None and Unset
          Refused   \* the translator raised: there is no entry

\* constants.py: the selection algorithms LoxiLB knows, by number.
LOXILB_SEL_ROUND_ROBIN == 0
LOXILB_SEL_PERSIST == 3
LOXILB_SEL_LEAST_CONNECTIONS == 4

LB_ALGORITHM_MAP == [ROUND_ROBIN       |-> LOXILB_SEL_ROUND_ROBIN,
                     LEAST_CONNECTIONS |-> LOXILB_SEL_LEAST_CONNECTIONS,
                     SOURCE_IP         |-> LOXILB_SEL_PERSIST]

SUPPORTED_PROTOCOLS == {"TCP", "UDP", "SCTP"}

SUPPORTED_HEALTH_MONITOR_TYPES == {"TCP", "HTTP", "HTTPS", "PING", "UDP-CONNECT"}

HEALTH_MONITOR_PROBE_MAP ==
  [type \in SUPPORTED_HEALTH_MONITOR_TYPES |->
     CASE type = "TCP" -> "tcp" [] type = "HTTP" -> "http" [] type = "HTTPS" -> "https"
       [] type = "PING" -> "ping" [] type = "UDP-CONNECT" -> "udp"]

get_field(value, default) == IF value = None THEN default ELSE value

generate_service_name(loadbalancer_id, listener_id) == <<loadbalancer_id, listener_id>>

\* A member that is administratively down has no endpoint.  One without address or port
\* would have none either; Octavia has no such member.
to_loxilb_endpoints(members) ==
  {m.member_id : m \in {n \in members : get_field(n.admin_state_up, TRUE)}}

\* Faulty variant: the listener's own pool is not looked up.
PoolAsGiven(listener, pool) == pool

\* What to_loxilb_service looks up when an argument is not given.
PoolOf(listener, pool) == IF pool = None THEN listener.default_pool ELSE pool

MonitorOf(pool, healthmonitor) ==
  IF healthmonitor = None /\ pool # None THEN pool.healthmonitor ELSE healthmonitor

\* Faulty variant: an empty list counts as no list.
MembersIfAny(pool, members) ==
  IF members \notin {None, {}} THEN members
  ELSE IF pool # None THEN get_field(pool.members, {}) ELSE {}

MembersOf(pool, members) ==
  IF members # None THEN members
  ELSE IF pool # None THEN get_field(pool.members, {}) ELSE {}

Algorithm(pool) == get_field(pool.lb_algorithm, "ROUND_ROBIN")

\* Source IP persistence overrides the algorithm.
Selection(pool) ==
  IF pool = None THEN LOXILB_SEL_ROUND_ROBIN
  ELSE IF pool.session_persistence = "SOURCE_IP" THEN LOXILB_SEL_PERSIST
  ELSE LB_ALGORITHM_MAP[Algorithm(pool)]

Monitored(healthmonitor) ==
  healthmonitor # None /\ get_field(healthmonitor.admin_state_up, TRUE)

MonitorType(healthmonitor) == get_field(healthmonitor.type, "")

\* None of the raise statements is reached; Octavia's load balancers have a VIP, so that
\* get_vip_address finds one.
Translatable(listener, pool, healthmonitor) ==
  /\ listener.protocol_port # None
  /\ get_field(listener.protocol, "TCP") \in SUPPORTED_PROTOCOLS
  /\ pool # None => /\ Algorithm(pool) \in DOMAIN LB_ALGORITHM_MAP
                    /\ pool.session_persistence \notin {"HTTP_COOKIE", "APP_COOKIE"}
  /\ Monitored(healthmonitor) =>
       MonitorType(healthmonitor) \in SUPPORTED_HEALTH_MONITOR_TYPES

Probe(healthmonitor) ==
  IF Monitored(healthmonitor) THEN HEALTH_MONITOR_PROBE_MAP[MonitorType(healthmonitor)]
                              ELSE None

to_loxilb_service(loadbalancer_id, listener, pool, members, healthmonitor) ==
  LET p == PoolOf(listener, pool)
      h == MonitorOf(p, healthmonitor)
  IN  IF Translatable(listener, p, h)
      THEN [port      |-> listener.protocol_port,
            name      |-> generate_service_name(loadbalancer_id, listener.listener_id),
            sel       |-> Selection(p),
            probetype |-> Probe(h),
            endpoints |-> to_loxilb_endpoints(MembersOf(p, members))]
      ELSE Refused
=============================================================================
