# A formal model of the LoxiLB provider driver for Octavia

TLA+ specifications of `octavia_loxilb`, the driver through which OpenStack
Octavia configures LoxiLB load balancers; TLC configurations that check them on
small instances; and theorems about them that TLAPS proves for all instances.
Line numbers below are those of the files under `src/octavia_loxilb/`.

## 1. The system

Octavia's API service accepts a call, writes the new state in a transaction,
locks the resources with a `PENDING_*` provisioning status and calls the
driver. The driver translates the Octavia tree below a listener into one LoxiLB
rule, sends it over REST, and reports a provisioning status to Octavia from a
background thread. A second kind of thread collects statistics through the same
client. Both reach Octavia through the sockets of `octavia-driver-agent`.

```
  Octavia API worker ──call──> driver.py ──> translator.py ──> models.py
        │  ^                      │  │
 commit │  │ get_...              │  └──> client.py ──HTTP──> LoxiLB nodes
        v  │ (committed state)    v           ^ (shared, no lock)
   database <──driver agent── synchronizer.py │
                               │  report threads (0.15 s later)
                               └─ StatsCollector thread (every 5 s)
```

| Component (source) | State it keeps | Operations | What is hard |
|---|---|---|---|
| REST client (`client/client.py`) | a health flag per endpoint, the current endpoint's index; in each request a count of attempts | `_get_active_endpoint`, `_request`, create / delete / get / list, statistics | two threads use the flags and the index without a lock; both outlive a request; failover to nodes that do not share rules; lost answers, session retries of POST, 4xx |
| Provider driver (`driver.py`) | none of its own but the cached library; it reads Octavia's committed state and changes LoxiLB's rules | create, update, delete of load balancer, listener, pool, member, health monitor; batch member update; failover; refusal of L7 calls | the object it is passed is newer than the tree it reads; partial update objects; failures between requests; every locked parent must be in some report |
| Translator (`translation/translator.py`, `common/constants.py`) | none | `to_loxilb_service` and the conversions below it | defaults, look-ups of pool, members and monitor when an argument is missing, refusals |
| Status reports (`status/synchronizer.py`) | a waiting thread per report; the lazily made `DriverLibrary` and the flag that it was tried | `driver_lib`, `update_status`, `_send_update`, the five methods that build a report | a fixed sleep instead of a wait for the commit; no order among reports; a report that fails is lost; library and flag are set by unlocked threads, once |
| Statistics (`status/synchronizer.py`, `client/client.py`) | the collector's thread and stop event | `StatsCollector.start/stop/_run`, `sync_all_statistics`, `get_loadbalancer_stats`, `get_all_loadbalancer_stats` | restart after a join that timed out; rules and connections read at different times; two views of the same traffic; names parsed for UUIDs |
| Configuration (`common/config.py`) | none | read by the constructors of client and driver | which of them lets the process start, and with a collector |
| Payload models, exceptions | none | | |
| VIP port, flavors, zones | none | raise `NotImplementedError`, or return | |

What makes each correct:

* **REST client.** A request fails only after every endpoint failed it. It always
  ends. A creation answered with success is on the node the next request goes to;
  a deletion answered with success leaves the rule nowhere.
* **Provider driver.** After each call LoxiLB holds a rule for exactly the
  listeners that have enabled members, built from the state Octavia commits.
  Everything a call locks is released, by one report, and a report touches nothing
  else. A report says what is so.
* **Translator.** A rule is built from the arguments it is given, and from the
  tree only where they are missing; what LoxiLB does not know is refused.
* **Status reports.** A report reaches Octavia after the transaction it is about;
  two that wait together are not about the same resource; none is lost while the
  agent is up, in whatever order threads look for the library.
* **Statistics.** One worker per collector, which goes on whatever fails until it is
  stopped; every listener is reported; its figures are its own, never more than what
  went by, and never shrink while its rule lives.

The hazards behind these properties, each with the line where it bites and the
properties that would catch it, are in `PROJECT.json` (`hazards`).

## 2. The modules

| Module | Models | Composes |
|---|---|---|
| `RequestContract` | abstract: what a caller of `_request` is promised, without flags, index or order | |
| `LoxiLBClient` | `client.py`: threads, flags, index, session, nodes | implements `RequestContract` |
| `Translator` | `translator.py`, the maps of `constants.py` | |
| `ProvisioningContract` | abstract: a `PENDING` status is a lock, which a call takes and a report releases | |
| `ProviderDriver` | `driver.py` and what the reports of `synchronizer.py` say, with Octavia and a LoxiLB node around them | extends `Translator`, implements `ProvisioningContract` |
| `Configuration` | `config.py`, and what the client's constructor makes of it | |
| `StatusChannel` | abstract: each report arrives, or trouble took it | |
| `StatusSynchronizer` | `StatusSynchronizer` and the driver's constructor: finding the library, the threads of the reports | extends `Configuration`, implements `StatusChannel` |
| `Statistics` | the arithmetic of `client.py`, the listener in a rule's name | extends `Translator` |
| `StatsCollector` | `StatsCollector` and a round of its worker, with node and Octavia around it | extends `Statistics` |
| `MCProviderDriver`, `MCStatusSynchronizer`, `MCStatsCollector` | sets of calls, configurations and traffic for TLC | |
| `LoxiLBClient_proofs`, `StatusSynchronizer_proofs`, `StatsCollector_proofs` | theorems | |
| `ProviderDriverTypes_proofs`, `ProviderDriverEndpoints_proofs`, `ProviderDriverReports_proofs`, `ProviderDriverRules_proofs`, `ProviderDriverTrees_proofs` | theorems on types, endpoints of rules, locks and reports, rules, whole trees; Endpoints and Reports extend Types, Rules extends Reports, Trees extends Rules | |

The parts meet in the abstract specifications. `ProviderDriver` treats a request
as one step that succeeds or fails: `RequestContract` is what allows that. It lets
reports wait, overtake each other and arrive once: `StatusChannel` says when that
is so. `ProvisioningContract` is what Octavia may expect of the whole.

Beside some operators stands a *faulty variant*: the same operator with a bug
that code could plausibly have. No action refers to one. They exist so that each
property can be seen to fail when the code is wrong (`mutants` in `PROJECT.json`).

### 2.1 LoxiLBClient

| In the model | In the code |
|---|---|
| `healthy`, `current_endpoint_index` | `self.endpoints[i]["healthy"]`, `self.current_endpoint_index` |
| `i`, `endpoint`, `attempts`, `outcome` | the local `i` and `idx` of `_get_active_endpoint`, `attempt` and `last_error` of `_request` |
| `pc` | the statement a thread is at |
| `resends`, `response` | retries of the `requests` session; what `session.request` returned or raised |
| `tried` | history: the endpoints this request failed on |
| `rules`, `delayed` | external: rules each node holds; requests it has not got round to |
| `FindHealthy`, `SkipUnhealthy`, `Take` | one iteration of the search, the write of the index |
| `AllUnhealthy`, `ResetHealth`, `UseFirst` | the reset of the flags, one at a time, and the return to endpoint 0 |
| `Answer`, `Refuse`, `Resend`, `Abandon`, `ApplyDelayed` | external: node and HTTP session |
| `HandleAnswer`, `HandleFailure` | 2xx, 404 and 409 end the request; anything else marks the endpoint and goes on |

Nothing is locked in the code, so each read or write of a shared variable is a
step of its own; `Candidate(t)` reads `current_endpoint_index` afresh in every
iteration, as line 131 does. The read of the index and that of the flag it selects
are one step: between them only the value of one flag could change, and a search
that sees the other value is one that ran before or after that change.
`ResetHealth` writes one flag per step. An authentication error raised inside
the `try` is caught by `except Exception` (line 215), as `LastError` says.

The nodes are external. A POST adds a rule or replaces it, or is answered 409 if
the rule exists; a DELETE removes it or is answered 404; a request without an
answer may have been carried out, and under `Late` may still be, later. Nodes do
not copy rules to each other: nothing in the repository makes them. `Up` names
endpoints that answer everything, for questions about a partly dead cluster.

### 2.2 Translator

`to_loxilb_service` is an operator with the code's arguments and the code's
look-ups: the listener's default pool when no pool is given, the pool's monitor
and members when none are given. It returns a rule, or `Refused` where the code
raises. A rule shows what the properties tell apart: port, name, selection
algorithm, probe, endpoints. `None` stands for Python's `None` and for
octavia-lib's `Unset`. Probe timings, weights, names' layout and the address
family are left out, and with them what is about addresses: that a member without
address or port gives no endpoint (line 69) and a load balancer without a VIP is
refused (line 105), neither of which Octavia passes. A listener's VIP, port and
protocol are its identifier.

### 2.3 ProviderDriver

One load balancer, any number of listeners, pools, members and monitors.

| In the model | In the code |
|---|---|
| one action per handler, with the handler's name | the methods of `LoxiLBProviderDriver`; `l7policy_or_l7rule` stands for the six that raise |
| `call.todo` | the requests the handler makes and the report after each, in order |
| `call.rows`, `call.locks` | external: what Octavia commits when the handler returns |
| `call.onError` | the report `loadbalancer_create` sends before it raises again |
| `StepDone`, `StepFails` | one request succeeds and its report's thread starts; or it raises and the rest is skipped |
| `Commit`, `Rollback` | external: the end of Octavia's transaction |
| `reports`, `Deliver`, `DeliverEarly` | threads asleep in `_send_update`; the agent applies, or refuses, what they send |
| `db`, `prov` | external: Octavia's committed rows and provisioning statuses |
| `rules` | external: the rule on each listener's VIP and port |
| `resolve_loadbalancer`, `resolve_listener`, `reconcile_service`, `below_pool` | `_resolve_loadbalancer`, `_resolve_listener`, `_reconcile_service`, and the look-up of pool and listener that member and monitor handlers share |

A handler's `todo` is computed when it starts. That is faithful because the load
balancer is locked until the transaction ends, so what `get_...` returns later in
the handler is what it returns at its start; requests, failures, commit and
reports still interleave step by step.

What is assumed of the environment, because the driver's code assumes it:

* Octavia accepts a call only on resources that are `ACTIVE`, locks the resource
  and its parents, commits after the handler returned, rolls back if it raised.
  Getters show the last committed state, rows in `PENDING_DELETE` included.
* The agent refuses a report as a whole when it names a row that is not there;
  `DELETED` removes a child's row and what hangs below a pool; a deleted load
  balancer keeps its row, as `DELETED`. Rows locked by a transaction that is not
  committed are reached only after it.
* A POST replaces the rule on its VIP and port (`client.py:248`, "Create or
  update"); a 409 is a failure; a deletion by name removes the rule of exactly
  that name.
* An update object is whole (`"full"`), as the handlers read it, or holds only what
  changed (`"changes"`), as `docs/research/OCTAVIA_ARCHITECTURE.md:597` says it does.
  No test calls an update handler. `UpdateObjects` says which a run uses: the passing
  runs about locks and rules use whole ones, `everything_fails` both kinds, and
  section 4 says what partial ones do to locks and rules.
* Two waiting reports that say the same are one element of `reports`, though each has
  a thread (`synchronizer.py:105`): delivered a second time it would set the same rows
  to the same values, and `ReportsDoNotRace` rules out that they wait together.
* Identifiers are slots, used again after a deletion. A pool has at most one
  listener and one monitor. An update by a user toggles `admin_state_up`, or, for
  a listener, moves its default pool.

### 2.4 Configuration and StatusSynchronizer

| In the model | In the code |
|---|---|
| `config`, `Constructible` | the `[loxilb]` section; what `LoxiLBClient.__init__` raises on |
| `lib`, `checked` | `_driver_lib`, `_driver_lib_checked` of the synchronizer, shared by all threads |
| `cached` | `_driver_lib` of the driver |
| `pc`, `got` | where a thread is in `driver_lib`; what it returned |
| `IsThere` ... `Read` | the statements of `driver_lib`, one action per access to shared state |
| `Start`, `Initialized`, `collecting` | `LoxiLBProviderDriver.__init__`; has it called `stats_collector.start()`? |
| `Resolve`, `Resolved` | `driver_lib` of the driver, which handlers read Octavia with |
| `update_status`, `WakeUp`, `Transmit` | the report's thread is started; has slept; sends, or drops |
| `agent` | external: "down", "starting" (the status socket exists, the others do not yet), "up" |
| `process`, `Stop` | external: the life of the process; its daemon threads, and the reports they hold, end with it |
| `trouble` | history: was the agent not up, at any time since the process started? |

A `DriverLibrary` is made of three sockets, the code looks for the file of one;
what `Construct` does between "starting" and "up" is raise. `Transmit` has no
second attempt, as `_send_update` has none. The path of `update_status` that sends
at once, for a library that is not a `DriverLibrary`, serves mocks and is left out.

### 2.5 Statistics and StatsCollector

| In the model | In the code |
|---|---|
| `stats_of` and the operators below it | the bodies of `get_loadbalancer_stats` and `get_all_loadbalancer_stats`, which do the same arithmetic |
| `listener_of` | the UUIDs of a rule's name in `sync_all_statistics`; a name is the sequence of its identifiers |
| `thread`, `stopping` | `_thread`, `_stop_event` |
| `start`, `Clear`, `Spawn`; `stop`, `Join` | the statements of `start` and `stop`; `join(timeout=3.0)` returns whether the worker has ended or not |
| `timed_out` | history: has a join left a worker behind that was still running? |
| `While`, `List`, `Track`, `Push`, `Wait` | a round of `_run`: the test of the event, `list_loadbalancers`, `get_conntrack` with the figures, `update_listener_statistics`, the wait |
| `listed`, `records` | the round's local variables |
| `Tables` | `get_conntrack`, which makes an empty table of a 404 |
| `Fails`, `AfterFailure` | a request raises, or the push is refused; `_run` swallows it and waits |
| `rules`, `conntrack`, `PostRule`, `DeleteRule`, `Traffic`, `Close` | external: a node's rules and connections |
| `reported` | external: Octavia's figures of each listener |
| `life` | history: which POST a rule, and the figures read from it, stem from |

`start` and `stop` are called from one thread, as the driver and the tests do.
What is assumed of a LoxiLB node: every packet is counted both for the endpoint it
goes to and for its connection; a POST starts the counters anew. Two constants
name what the repository leaves open about LoxiLB: `FlowsOutlive`, whether connections
survive the rule they came through; `NullWhenEmpty`, whether an empty connection table
is sent as `null`. The run has both `FALSE`; section 4 says what becomes of the
others. How long a round takes is not assumed: any join may time out.

## 3. What the runs check

| Run | Question | Instance | Distinct states |
|---|---|---|---|
| `sequential_client` | Does one thread get what `_request` promises? | 1 thread, 3 endpoints, 1 session retry, 2 rules | 135 000 |
| `concurrent_client` | Does the unlocked state do harm to termination or ranges? | 2 threads, 2 endpoints, late requests | 590 000 |
| `lifecycle` | Does LoxiLB follow Octavia, and is every lock released, once? | 2 listeners, 2 pools, 2 members, 1 monitor, unsupported options | 238 000 |
| `failing_requests` | What if requests fail, before or after LoxiLB acted? | 1 listener, 1 pool, 2 members, 1 monitor, algorithms and persistence | 358 000 |
| `tree_and_cascade` | Do rules come and go with whole trees? | 2 listeners, 2 pools, 2 members, 1 monitor | 42 000 |
| `everything_fails` | What holds whatever fails? | 2 listeners, 2 pools, 1 member, 1 monitor; every call but those on trees, partial updates, failing reads and requests, early reports | 493 000 |
| `status_reports` | Can the lazily made library cost a report, or the collector? | 2 API workers, 2 reports, 15 configurations | 446 000 |
| `collector` | Are the figures right, does the collector go on until it is stopped, and then end? | 2 workers, 1 listener, 1 endpoint, 1 connection, a failure, joins that time out | 192 000 |

**The client.** `Exhaustive`: a request reported as failed has failed on every
endpoint. The code only counts N attempts; that they reach N *different*
endpoints depends on flags and an index that earlier requests left behind, and on
what happens when the flags are reset in the middle of a request.
`SequentialInv` says why it holds for one thread: the unhealthy endpoints are
always those below some k, and the current index never passes k. A request that
began at k0 has failed on k0 .. k-1 or, past a reset, on k0 .. N-1 and 0 .. k-1.
`AnswersAreTrue`: what the caller is told is so on the endpoint that told it,
though answers get lost, the session repeats a POST, and a 404 counts as deleted.
`ImplementsContract`: the client refines `RequestContract`. `Terminates`: with
two threads, every request still ends.

Three endpoints are the least with a first, a middle and a last one, so that a
reset can fall anywhere in a request; one session retry is enough to carry a
request out twice; two rules tell a deletion of the wrong rule. Two threads are
the processes of the code: one API worker and the collector. Requests are not
bounded in number: the state space is finite because a request's locals are
cleared when it ends.

**The driver.** `RulesMatchOctavia`: between calls, each listener has exactly the
rule its committed tree asks for: its enabled members as endpoints, the pool's
algorithm or persistence, the enabled monitor's probe, and no rule without enabled
members. The code builds a rule from up to three reads of a state that is about to
change. `SettledRulesMatch` says the same once reports have arrived: a cascade
removes rules before the rows go. `SuccessRealises`: a call that succeeds leaves
the right rule, whatever a failed and rolled back call before it left there.
`ImplementsContract`: what the driver does to Octavia's statuses refines
`ProvisioningContract`. Its steps say that a report changes only what is locked,
and to what answers the lock, so that a report that comes late, twice or about a
parent too many would show; its liveness, that some report releases every lock.
`ReportsOnlyRelease` is the step part alone, with requests that fail. `Unlocked`:
nothing stays locked once handlers and reports are through. `DeletedReportIsTrue`,
`DeletedLeavesNoRule`: what is reported deleted is gone. `NoStrangerServes`: every
endpoint of a rule that is posted is a member the listener has once the call is through,
though handlers look for the pool in the object they are passed, in the listener and
in what was committed before, each of which may be missing, partial or about to be
deleted. A member that ought to serve may be left out then; one that ought not to is
never let in. `ReportsDoNotRace`: two reports waiting at once, or one about to be sent
and one that waits, are not about the same resource, since nothing orders their
threads.

One listener with one pool and one monitor has every shape of tree below a rule;
two members are the least for which adding, removing and batch updates differ; two
listeners and two pools are the least for which a default pool can be exchanged or
taken from another listener. Options are chosen so that each kind is once
supported and once not (`HTTP` is no protocol of LoxiLB, `SOURCE_IP_PORT` no
algorithm, `TLS-HELLO` no probe). Calls and reports are unbounded in number.
In `everything_fails` one member is a stranger to one of two listeners at any time, and
to both when its pool hangs below neither. Listeners, pools and members are declared
interchangeable in it: no action or property names one of them, where `CHOOSE` picks a
listener's pool there is only one, and only properties of states and steps are checked.

**The status reports.** `ImplementsChannel`: a report is lost only if the agent was
not up at some time in its process's life, and none waits for ever. The order of
statements in `driver_lib` matters: the flag is set only after the library is
assigned, so that a second thread cannot find the flag without the library.
`LibraryStays`: a thread whose constructor fails assigns `None` over whatever
another thread has installed; that costs nothing in a process that collects
statistics, because its constructor has asked before there was another thread, nor in
any other while the agent has been up all the process's life.
`CollectorHasLibrary` concerns the thread that cannot ask again.

Two workers and two reports are four threads in `driver_lib` at once: one that
finds the library, one that makes it, one that fails, one that comes late. The
configurations are accepted and refused ones of every `auth_type`.

**The statistics.** `KeepsCollecting` and
`EveryRuleIsReported`: neither failures nor a restart end the collection, and each
rule that stays gets figures of its own. `StopsInTheEnd`: once stopped for good, every
worker ends, one left behind by a join that timed out included.
`ReportsAreReal`: the figures of a listener are of its own traffic and not more of
it than went by, although the connections are read after the rules and traffic
passes in between. `NeverGoBack`: the figures of a rule that lives never shrink,
although connections close and take their bytes along: the counters of the
endpoints have them too, and the larger of the two views is shown. It is stated until a
join leaves a worker behind (`timed_out`), for two workers push readings of different
age; section 4 has the counterexample.

Two workers are the least that can meet; two POSTs (`MaxPosts`) replace the rule; a burst
(`MaxBursts`), of one byte or of two bytes in three packets, makes the two views of the
traffic differ once its connection closes; one failure (`MaxFailures`) falls on any
request or push. A failure is bounded so that `EveryRuleIsReported` need not assume
LoxiLB answers for ever. A join may time out any number of times. One listener keeps
liveness within reach while two workers run side by side; that the traffic of several
listeners and endpoints is not mixed up is proved (section 5).

`CHECK_DEADLOCK FALSE` is set where the system may really stop: `everything_fails`
and the violation runs of the driver, where a load balancer that stays locked
accepts no further call, and `tree_and_cascade`, where the children of a created
tree do.

**Fairness.** In the client, weak fairness of each thread's own steps: a thread is
scheduled, and the session's timeout bounds every wait. In the driver, weak fairness of
carrying a call out to commit or rollback, and of delivering a report: a handler
runs to its end, and a sleeping thread wakes. In the synchronizer and the
collector, of each thread's steps, and of `start` and `stop` once they are called.
Nobody is obliged to call, no node to answer, no agent to come up, no traffic to
pass. `sequential_client`, `concurrent_client`, `lifecycle`, `status_reports`,
`collector` and `late_agent` use fairness.

## 4. Where code and documents disagree

Four runs end in a violation, each of a property that some text of the repository
states. `findings` in `PROJECT.json` quotes it.

| Run | Property | What TLC shows |
|---|---|---|
| `racing_failover` | `Exhaustive` | Endpoint 1 answers everything, endpoint 0 nothing. While one thread searches, the other moves the index: the search misses endpoint 1, resets the flags and tries endpoint 0 again, until the attempts are used up. |
| `updated_member` | `RulesMatchOctavia` | `member_update` posts the pool as it was before the update. A member that is disabled keeps its traffic. |
| `deleted_monitor` | `RulesMatchOctavia` | `health_monitor_delete` passes `healthmonitor=None`, for which the translator takes the monitor the pool still shows. |
| `late_agent` | `StatsAreCollected` | A process is started before the driver agent, as `systemctl restart octavia-api octavia-driver-agent` does: `driver_lib` finds no socket, remembers that, and the collector is never started though the agent comes up and stays. Its status reports are dropped as well. |

The same models show further disagreements. Each appears when a configuration is
changed as stated, with the second column as its only property and
`CHECK_DEADLOCK FALSE`; they are why the passing runs leave some calls and failures
out.

| Change | Violated | Reason |
|---|---|---|
| `failing_requests.cfg`: `UpdateObjects = {"changes"}` | `Unlocked` | An update object with only the changed fields names no load balancer: nothing is applied, and load balancer and listener are never unlocked (`driver.py:269`). `docs/research/OCTAVIA_ARCHITECTURE.md:597`: "Fields not included in an update are represented using octavia-lib's `Unset` model semantics." |
| `failing_requests.cfg`: `CommitFirst = FALSE` | `Unlocked` | A commit later than the 0.15 s of `async_delay`: the report finds no row, is refused and not repeated (`synchronizer.py:103`). |
| `failing_requests.cfg`: `Operations <- EveryCall` | `Unlocked` | `member_batch_update` reports nothing of the members it removes; they stay `PENDING_DELETE` (`driver.py:402`). `docs/research/MVP_SCOPE.md:381`: "Provisioning success/failure is reported correctly." |
| `failing_requests.cfg`, as it is | `DeletedLeavesNoRule` | A listener's rule is posted, the answer is lost, Octavia rolls back; the load balancer's deletion asks for the name `octavia-<lb>`, which no rule has (`driver.py:181`). `MVP_SCOPE.md:186`: "Delete resources and verify backend state is removed." |
| `lifecycle.cfg`: `GetsMayFail = TRUE` | `RulesMatchOctavia` | A member is reported `ACTIVE` though no rule was posted for it (`driver.py:310`). `OCTAVIA_ARCHITECTURE.md:757`: "`ACTIVE` should mean that the desired LoxiLB configuration has actually been successfully realized according to the provider's defined consistency model." |
| `tree_and_cascade.cfg`, as it is | `Unlocked` | `loadbalancer_create` reports only the load balancer; the children created with it stay `PENDING_CREATE` (`driver.py:154`). |
| `tree_and_cascade.cfg`, as it is | `ReportsOnlyRelease` | Each listener's report in a cascade carries the load balancer as `ACTIVE`: it is unlocked while it is being deleted, or revived afterwards (`driver.py:178`). `OCTAVIA_ARCHITECTURE.md:751` says of `PENDING`: "This prevents two control-plane mutations from racing against each other." |
| `tree_and_cascade.cfg`, as it is | `ReportsDoNotRace` | The same reports, one per listener, are under way at once, and all are about the load balancer (`driver.py:178`). |
| `sequential_client.cfg`: `Late = TRUE` | `AnswersAreTrue` | A POST that timed out on a node is carried out there after the DELETE that followed it was answered: the rule is back although its deletion was reported done (`client.py:201`). |
| `failing_requests.cfg`: `GetsMayFail = TRUE` | `DeletedReportIsTrue` | Without the load balancer `listener_delete` deletes the rule `octavia-unknown_lb-<listener>`, which is nobody's, and reports `DELETED` (`driver.py:238`). |
| `failing_requests.cfg`, as it is | `RulesMatchOctavia` | A member's rule is posted, the answer is lost, Octavia rolls back; the rule forwards to a member that does not exist until the next call on that listener (`driver.py:320`). |
| `tree_and_cascade.cfg`: one more option LoxiLB has not, `HTTP` in `Protocols`, `SOURCE_IP_PORT` in `Algorithms`, `HTTP_COOKIE` in `Persistences` or `TLS-HELLO` in `MonitorTypes` | `SettledRulesMatch` | The second listener of a tree is refused after the first has its rule; the creation is rolled back, the rule stays (`driver.py:148`). |
| `tree_and_cascade.cfg`: `GetsMayFail` or `RestMayFail` | `SettledRulesMatch`, `DeletedLeavesNoRule` | `listener_delete` cannot get the load balancer and deletes a rule that is nobody's (`driver.py:238`); a rule is posted, the answer is lost, the creation is rolled back (`driver.py:148`). |
| `tree_and_cascade.cfg`: `Operations` with `loadbalancer_update` | `DeletedLeavesNoRule` | A report of the cascade makes the load balancer `ACTIVE`; an update of everything is let in, finds a listener whose report has yet to come and posts its rule again, which nothing deletes (`driver.py:178`). |
| `tree_and_cascade.cfg`: `Operations` with `listener_create`, `pool_create`, `member_create` | `DeletedLeavesNoRule`, `SettledRulesMatch` | The same report lets the calls in that make a listener with a pool and a member; their rule outlives the load balancer, whose `DELETED` arrives afterwards. |
| `collector.cfg`, as it is | `OneWorker` | The join of `stop` gives up after 3 s (`synchronizer.py:368`), while a single request may take `api_timeout`, 30 s by default; `start` clears the event before the old worker has seen it, and both go on. |
| `collector.cfg`: `NeverGoBack` without `~ timed_out'` | `NeverGoBack` | The older reading of the worker left behind follows the newer of the other. |
| `collector.cfg`: `FlowsOutlive = TRUE` | `ReportsAreReal`, `NeverGoBack` | Bytes of connections that came through an earlier rule count for the one on the same address, and vanish when they close (`client.py:423`). |
| `collector.cfg`: `NullWhenEmpty = TRUE` | `EveryRuleIsReported` | `data.get("ctAttr", [])` is `None` for a null; the loop raises, and without connections no listener is ever reported (`client.py:306`). |

More is plain in the code without a run:

* An exception raised for 401 or 403 is caught by `except Exception` in the same
  `try` (`client.py:215`), so a caller sees `LoxiLBAPIException`, never
  `LoxiLBAuthenticationException`.
* A deletion answered 404 by the endpoint a failover reached is reported as done,
  while the node that holds the rule was not told (`client.py:278`).
* `LibraryStays` leaves out processes without statistics in whose life the agent has
  been away. There the first two threads to ask may both construct the library while
  the agent starts: the one that fails takes away what the other has installed
  (`synchronizer.py:61`), and the flag keeps it from being made again.
* `update_status` returns `True` when it has started a thread; its docstring promises
  `False` "if socket unavailable" (`synchronizer.py:97`).
* `validate_config` rejects a timeout that is not positive, the constructor does not;
  the constructor rejects malformed URLs, `validate_config` does not. Nothing but the
  tests calls `validate_config`.
* `NeverGoBack` is of bytes while a rule lives. Connections in total may shrink, being
  the larger of the open ones and a quarter of the packets (`client.py:444`), and every
  POST, hence every change of a member, starts the figures anew.

## 5. What is proved

TLAPS checks every proof; nothing is assumed but the named assumptions on the
constants.

**The client** (`LoxiLBClient_proofs`; `N > 0`, `Retries` a natural number, the
methods among GET, POST and DELETE, `NoRequest` no request).

* `TypeCorrect`: `Spec => []TypeOK`, for any number of threads. `TypeOK` is
  inductive. Its one conjunct that is not plain is `attempts[t] < N` while a
  request runs. The search's index is in range because a remainder by `N` is.
* `SequentialShape`: with a single thread, `Spec => []SequentialInv`.
  `Exhaustive` is not inductive: it says nothing of the flags that decide where the
  next attempt goes. `SequentialInv` does, with two hidden numbers, `k0` where the
  request began and `k` where it stands. Each action keeps them, moves `k` on by
  one (a failed attempt), starts a new request (`k0 = k`), or wraps `k` from `N` to
  0 (the reset). One lemma per kind of step.
* `ExhaustiveFailover`: with a single thread, `Spec => []Exhaustive`: after `N`
  attempts the two intervals make up `0 .. N-1`.
* `ClientImplementsContract`: with a single thread every step maps to a step of
  `RequestContract` or a stutter. What needs `SequentialInv` is `Ask`: the endpoint
  that fails is one not asked before (`FreshEndpoint`).
* `AnswersCanBeTrusted`: with a single thread and no request carried out later than its
  timeout (`~ Late`), `Spec => []AnswersAreTrue`. The invariant `AnswersInv` adds what
  the node of the current endpoint holds between its answer and the thread's return,
  and that nothing waits to be applied.

The hypothesis `SingleCaller` cannot be dropped: `racing_failover` is the
counterexample with two threads. Nor can `~ Late` for the last theorem: section 4.

**The driver** (five modules; any finite set of listeners, any pools, members,
monitors and options).

`ProviderDriverTypes_proofs`:

* `DriverTypesAreKept`: `Spec => []TypeOK`, again without any hypothesis. `TypeInv`
  relates rows to statuses and to the call under way. Nearly all of the work is
  `Planned`, one lemma per handler, which says what each puts into a call: rows of what
  it locks, locks on what is new or free, steps of which only the last reports, and what
  that report says. The other modules start from it. The assumption `NoneAssumption`
  says that `None` is not one of the objects, rules, reports and calls it is compared
  with; a Python `None` never is, and TLC's model values never are.

`ProviderDriverEndpoints_proofs`:

* `StrangersNeverServe`: `Spec => NoStrangerServes`, without any hypothesis: complete or
  partial update objects, failing reads and requests, early reports, trees and cascades.
  The property is of steps, and a step carries out what a handler planned earlier, so
  `EndpointInv` adds to `TypeInv` that every POST a call still plans puts only members
  of the listener in its rule (`AllPostOwn`). One lemma per handler shows that it plans
  such posts only. They rest on what `to_loxilb_service` makes of each combination of
  arguments: with a list of members the endpoints come from that list, without one from
  the pool it is given or the listener shows, and a handler that lacks an object posts
  nothing.

`ProviderDriverReports_proofs` is about the state to come: `StatusThen` and `RowThen`
are what Octavia will hold once the call under way is committed, `Due` the reports that
wait or are planned. Handlers change these at one stroke; requests and the commit leave
them alone.

* `ReportsKeepApart`: `Spec => []ReportsDoNotRace` without cascading deletions, of the
  reports that wait and of the one about to be sent beside them.
  `DriverInv` says that every report due answers a lock, that two of them have no
  resource in common, and that a report about a member or monitor is waited for by its
  pool (a pool's report would otherwise take the member's row away under it).
* `ReportsAnswerLocks`: `Spec => ReportsOnlyRelease` for calls answered by one report
  (`OneReport`). A commit is a `Lock` of `ProvisioningContract`, a report a `Release`, or
  a stutter where it comes before the commit; a rolled back call has locked nothing.
  `LockInv` adds that a call's locks are on what is free and that no report is an error.
* `NothingStaysLocked`: `Spec => []Unlocked` for such calls, if updates carry whole
  objects and getters answer (`Thorough`) and the commit is in time (`CommitFirst`).
  `AnswerInv` turns the others round: every lock is named by a report that is due.
* `DeletionsAreTrue`: `Spec => []DeletedReportIsTrue` without cascades and failing
  getters. While such a report waits, the load balancer is locked, so that no call
  makes the rule anew.

Each hypothesis is needed: section 4 has the counterexamples (a cascade for
`ReportsDoNotRace` and `ReportsOnlyRelease`, a removal from a list, a tree, an update
with the changed fields only and a late commit for `Unlocked`, a failing getter for
`DeletedReportIsTrue`). No request has to succeed.

`ProviderDriverRules_proofs`. `Right(d, st, l, rule)` says of a rule, *any* database and
statuses what `RulesMatchOctavia` says of the present ones, so that a rule can be
compared with the state it is meant for. `RightPlan`, one lemma per handler, is the heart
of it: a handler's steps bring the rule of each listener it locks to what Octavia wants
*after* the commit, although each handler gathers the tree from other arguments and
reads; other listeners' rules stay right; and a plan of several steps wants nothing
changed, so that stopping half-way does no harm. The handlers' lemmas rest on `Quiet`
(no call begins while a report waits, since every report is about the load balancer
too) and `Tidy` (a listener has one pool, a pool one monitor). All are for the calls
`Reliable` allows: `Thorough`, `CommitFirst`, and neither `member_update` nor
`health_monitor_delete`, which `updated_member` and `deleted_monitor` refute. That
includes every call of `lifecycle` and `failing_requests`.

* `CallsRealise`: `Spec => SuccessRealises`, whatever requests failed before and whatever
  rules they left. `RuleInv` says that each listener locked still has a step to come
  that sees to it, or has the right rule already.
* `RulesAreOctavias`: `Spec => []RulesMatchOctavia` if no request fails. `MatchInv` adds
  that until its last request a call leaves the rules right for the present state, so
  that a refusal by the translator and the rollback after it cost nothing. That no
  request fails is needed: `failing_requests` with `RulesMatchOctavia` fails, as a
  rule is posted, its answer lost and the call rolled back.
* `DeletedLeavesNothing`: `Spec => []DeletedLeavesNoRule`, a corollary. The load
  balancer's deletion asks for a name that no rule has; no rule is left because its
  listeners had to go first. Section 4 shows the leftover when requests fail.

`ProviderDriverTrees_proofs` is about load balancers that are made and deleted with all
their children in one call (`WholeTrees`). Such a call makes a request per listener; a
cascade sends a report per listener besides its own, and all of them wait together and
name the load balancer. So neither `Quiet` nor `AnswerInv` holds: the children of a tree
stay locked, and the report of one listener lets a call in while the next one waits.
`TreeInv` puts two states of the load balancer in their place. `Live`: it exists, every
listener has the right rule or a request for it to come, every report due makes the load
balancer `ACTIVE`. `Gone`: no rule is posted any more, each one left is about to be
deleted, and each listener left has a report due that deletes its row. A creation,
update or failover keeps it live, a deletion makes it gone, and each report of a cascade
leaves it gone in whatever order they come. One lemma per kind of step.

* `TreesAreOctavias`: `Spec => []SettledRulesMatch`.
* `CascadeLeavesNothing`: `Spec => []DeletedLeavesNoRule`.

The hypotheses: calls on whole load balancers only, no update of everything where there are
cascades, options LoxiLB has (protocols, algorithms, persistence, probes), getters and
requests that succeed; section 4 has TLC's counterexample where any of these is dropped.
Commits in time are not among them: a report that overtakes its call's commit names the
load balancer and no row the call writes (`TreePlan` says so of `due`), so it may lock
the load balancer for good but leaves the rules right.

**The status reports** (`StatusSynchronizer_proofs`; any workers, reports and
configurations, the driver constructed by one of the workers).

* `SynchronizerInvariant`: `Spec => []SynchronizerInv`. None of the properties below
  is inductive: whether the library can be taken away depends on where the other
  threads are in `driver_lib`. The invariant says it by the phase of the process.
  `Starting`: while the driver is constructed only its thread runs, and it holds the
  only hand on the library. `Served`: afterwards, with statistics, the flag is set
  and nobody is between its test and its setting. `Untroubled`: while the agent has
  been up all the time, no constructor has failed, and the flag implies the library.
  `Quiet` and `Reporting` tie threads and reports to the life of the process. One lemma
  per action.
* `CollectorIsConnected`, `LibraryIsKept`: the properties of the run, from it.
* `SynchronizerImplementsChannel`: every step is one of `StatusChannel` or a stutter;
  what needs the invariant is that a report dropped by `Transmit` had trouble.

**The statistics** (`StatsCollector_proofs`; any listeners, endpoints, connections,
workers and bounds).

* `CollectorGoesOn`: `Spec => []KeepsCollecting`, whatever fails and however long rounds
  take. The invariant adds that the event is clear wherever `start` has got past it and
  that the caller of `stop` is the only one to set it.
* `CountInvariant`: `Spec => []CountInv` if not `FlowsOutlive`. `CountInv` follows the
  figures from the node to Octavia: the connections of a rule have counted no more than
  its endpoints (`Counts`); what a worker listed is of an earlier life of the rule, or
  has counted no more than the rule has now (`ListedInv`); so it is with what a worker
  recorded (`RecordsInv`) and with what Octavia shows (`ReportedInv`). `Grows` says of
  every step what all of this rests on: a rule that stays counts on, and one that comes
  is of a life that has not been.
* `FiguresAreReal`: `Spec => []ReportsAreReal` if not `FlowsOutlive`, with two workers
  under way as well, and whatever fails. The reads of a round are of two moments; that
  this does no harm is `ListedInv` and `Counts` together.
* `FiguresNeverGoBack`: `Spec => NeverGoBack` if not `FlowsOutlive`.
  `OrderInv` adds that what the worker has listed and recorded is no earlier than what
  Octavia shows, which needs `UntilTimeout`: until a join has left a worker behind, a live
  worker is the one in `_thread` and there is none while `start` is under way. Another
  worker could push an older reading. Section 4 has the counterexample for the
  hypothesis, and one for the time after a timeout.
* `BytesAddUp`, `BytesAreMonotone`: the two directions make up the whole, a single
  byte excepted, and grow with it. They are why `ReportsAreReal` allows two bytes for
  one, and half of why `NeverGoBack` holds.

The figures are sums over sets of endpoints and of connections, defined by folding. The
library's induction theorems cannot be used on them, so each law of such sums (`SumNat`,
`SumSplit`, `SumAtMost`, `SumRaised`, `SumPart`) is proved by a least counterexample:
the subsets of a finite set are well-founded by inclusion, hence a set of subsets that
break the law would have a least one, which taking out one element shows not to be one.
`CollectorAssumption` says that endpoints and connections are finite in number, that
bursts of traffic are natural numbers, that the load balancer is no listener, and that
`None` is no connection.

**Only model-checked.** Liveness (`Terminates`, `EveryRuleIsReported`, `StopsInTheEnd`, the liveness of
the three abstract specifications), which like ENABLED is out of the prover's
reach. Every invariant and every action property a passing run checks is stated by a
theorem above, as are the steps of the three refinements. The theorems
on the driver's rules are for kinds of calls that do not mix: trees and cascades on one
side, calls answered by a single report on the other (section 7).

## 6. What is not modelled

* **VIP port, flavor and zone validation**: the methods raise `NotImplementedError` or
  return `True`; there is no state and no decision.
* **`sync_listener_statistics`**: only an end-to-end test calls it; its arithmetic is
  that of `Statistics`.
* **`validate_config`**: only the unit tests call it, so that it decides nothing in a
  process of the driver.
* **Options that only carry a value**: socket paths, NAT mode, BGP, retries' interval.
* **Formats**: URLs, names' layout, IPv6 brackets, probe timings, weights, ports of
  members, among them the probe port, which is the first member's (`translator.py:186`).
  Counters that are not numbers: the two copies of the arithmetic differ on a counter
  of which only the first half is one.
* **A pool with several listeners**: the code reconciles `pool.listener_id` only
  (`driver.py:98`). The model gives a pool one listener at most.
* **Options LoxiLB has not in a tree created in one call**: the runs are in section 4,
  not among those that pass.
* **Operating status**: always `ONLINE` in the reports, whatever the probes say
  (`driver.py:326`); `docs/research/MVP_SCOPE.md:184` wants "Octavia operating status
  reflects observed health", nothing in the code observes it.
* **Several processes of the driver**, each with a collector of its own, and **several
  nodes** behind one collector: readings of different age and origin would make the
  figures jump, as with a worker left behind.
* **scripts, deployment, upstream copies, research documents**: not the driver.

## 7. Plan

1. `Cluster`: `ProviderDriver` with the nodes of `LoxiLBClient`, so that a failover
   between two requests of one handler appears. Properties: the rule on every node.
2. Pools shared by listeners; the probe's port.
3. Proofs: `CallsRealise` and `RulesAreOctavias` for trees mixed with other calls on the
   children, of which the hypotheses of section 5 allow either the one or the other.

To check: `tlc -config <run>.cfg <module>` for each run, `tlapm <module>.tla` for
the eight `_proofs` modules.
