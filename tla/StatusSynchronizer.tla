-------------------------- MODULE StatusSynchronizer --------------------------
(***************************************************************************)
(* status/synchronizer.py, class StatusSynchronizer, in the process that   *)
(* the constructor of the driver starts: how the library that reaches      *)
(* Octavia's driver agent is found, once, by whichever thread asks first,  *)
(* and what becomes of the status reports, each of which has a thread.     *)
(* The threads share _driver_lib and _driver_lib_checked without a lock.   *)
(*                                                                         *)
(* External: the driver agent, whose three sockets appear one by one when  *)
(* it starts and which may stop and start again; octavia-lib, whose        *)
(* DriverLibrary takes all three; whoever restarts the process.            *)
(***************************************************************************)
EXTENDS Configuration

CONSTANTS Workers,          \* the threads that serve API calls
          Main,             \* the one of them that constructs the driver
          Reports,          \* status reports, each with the thread that sends it
          Configurations    \* the configurations a process may be started with

Threads == Workers \cup Reports

ASSUME ThreadsAssumption == Main \in Workers /\ Workers \cap Reports = {}

ASSUME ConfigurationsAssumption == Configurations \subseteq Options /\ Configurations # {}

VARIABLES
  agent,       \* "down", "starting" with the status socket only, "up" (external)
  process,     \* "down", "init" in the constructor of the driver, "serving", "failed"
  config,      \* the configuration of the process
  lib,         \* is _driver_lib a library?
  checked,     \* _driver_lib_checked
  cached,      \* does the driver have the library in a _driver_lib of its own?
  collecting,  \* has the driver started its StatsCollector?
  pc,          \* pc[t]: the statement of driver_lib that thread t is at
  got,         \* got[t]: did driver_lib return a library to t?
  outcome,     \* outcome[r]: what became of report r
  trouble      \* read by properties only: was the agent not up in this process's life?

process_vars == <<process, config, lib, checked, cached, collecting>>
vars == <<agent, process_vars, pc, got, outcome, trouble>>

Statements == {"lib?", "checked?", "socket?", "absent", "construct", "failed", "finally",
               "read", "got"}

TypeOK == /\ agent \in {"down", "starting", "up"}
          /\ process \in {"down", "init", "serving", "failed"}
          /\ config \in Configurations
          /\ lib \in BOOLEAN /\ checked \in BOOLEAN
          /\ cached \in BOOLEAN /\ collecting \in BOOLEAN
          /\ pc \in [Threads -> {"idle", "asleep"} \cup Statements]
          /\ got \in [Threads -> BOOLEAN]
          /\ outcome \in [Reports -> {"unsent", "waiting", "delivered", "refused", "lost"}]
          /\ trouble \in BOOLEAN

Init == /\ agent \in {"down", "starting", "up"}
        /\ process = "down" /\ config \in Configurations
        /\ lib = FALSE /\ checked = FALSE /\ cached = FALSE /\ collecting = FALSE
        /\ pc = [t \in Threads |-> "idle"]
        /\ got = [t \in Threads |-> FALSE]
        /\ outcome = [r \in Reports |-> "unsent"]
        /\ trouble = TRUE
-----------------------------------------------------------------------------
(* External: the agent and the life of the process. *)

AgentMoves ==
  /\ agent' = CASE agent = "down" -> "starting" [] agent = "starting" -> "up"
                [] agent = "up" -> "down"
  /\ trouble' = (trouble \/ agent' # "up")
  /\ UNCHANGED <<process_vars, pc, got, outcome>>

\* The process ends, and its daemon threads with it.
Stop ==
  /\ process # "down"
  /\ process' = "down"
  /\ lib' = FALSE /\ checked' = FALSE /\ cached' = FALSE /\ collecting' = FALSE
  /\ pc' = [t \in Threads |-> "idle"]
  /\ got' = [t \in Threads |-> FALSE]
  /\ outcome' = [r \in Reports |-> IF outcome[r] = "waiting" THEN "lost" ELSE outcome[r]]
  /\ trouble' = TRUE
  /\ UNCHANGED <<agent, config>>
-----------------------------------------------------------------------------
(* The constructor of the driver.  It asks for the library only to decide  *)
(* whether to start the collector.                                         *)

\* Faulty variant: the collector is started without asking for the library.
StartUnasked(c) ==
  /\ process = "down"
  /\ config' = c
  /\ process' = IF Constructible(c) THEN "serving" ELSE "failed"
  /\ collecting' = (Constructible(c) /\ c.stats_enabled)
  /\ trouble' = (agent # "up")
  /\ UNCHANGED <<agent, lib, checked, cached, pc, got, outcome>>

Start(c) ==
  /\ process = "down"
  /\ config' = c
  /\ process' = IF ~ Constructible(c) THEN "failed"
                ELSE IF c.stats_enabled THEN "init" ELSE "serving"
  /\ pc' = [pc EXCEPT ![Main] = IF process' = "init" THEN "lib?" ELSE @]
  /\ trouble' = (agent # "up")
  /\ UNCHANGED <<agent, lib, checked, cached, collecting, got, outcome>>

\* Faulty variant: the collector is started with or without a library.
InitializedAnyway ==
  /\ process = "init" /\ pc[Main] = "got"
  /\ process' = "serving"
  /\ collecting' = TRUE
  /\ pc' = [pc EXCEPT ![Main] = "idle"]
  /\ UNCHANGED <<agent, config, lib, checked, cached, got, outcome, trouble>>

Initialized ==
  /\ process = "init" /\ pc[Main] = "got"
  /\ process' = "serving"
  /\ collecting' = got[Main]
  /\ pc' = [pc EXCEPT ![Main] = "idle"]
  /\ UNCHANGED <<agent, config, lib, checked, cached, got, outcome, trouble>>
-----------------------------------------------------------------------------
(* driver_lib of the synchronizer, statement by statement. *)

Goto(t, next) == pc' = [pc EXCEPT ![t] = next]

IsThere(t) ==
  /\ pc[t] = "lib?"
  /\ Goto(t, IF lib THEN "read" ELSE "checked?")
  /\ UNCHANGED <<agent, process_vars, got, outcome, trouble>>

IsChecked(t) ==
  /\ pc[t] = "checked?"
  /\ Goto(t, IF checked THEN "read" ELSE "socket?")
  /\ UNCHANGED <<agent, process_vars, got, outcome, trouble>>

\* Faulty variant: the flag is set before the library is made.
CheckSocketAndLatch(t) ==
  /\ pc[t] = "socket?"
  /\ checked' = TRUE
  /\ Goto(t, IF agent = "down" THEN "absent" ELSE "construct")
  /\ UNCHANGED <<agent, process, config, lib, cached, collecting, got, outcome, trouble>>

\* os.path.exists(status_sock)
CheckSocket(t) ==
  /\ pc[t] = "socket?"
  /\ Goto(t, IF agent = "down" THEN "absent" ELSE "construct")
  /\ UNCHANGED <<agent, process_vars, got, outcome, trouble>>

\* Without the socket there is no library, now and later.
Absent(t) ==
  /\ pc[t] = "absent"
  /\ checked' = TRUE
  /\ got' = [got EXCEPT ![t] = FALSE]
  /\ Goto(t, "got")
  /\ UNCHANGED <<agent, process, config, lib, cached, collecting, outcome, trouble>>

\* DriverLibrary(...) returns, or raises when a socket is missing.
Construct(t) ==
  /\ pc[t] = "construct"
  /\ IF agent = "up" THEN lib' = TRUE /\ Goto(t, "finally")
                     ELSE Goto(t, "failed") /\ UNCHANGED lib
  /\ UNCHANGED <<agent, process, config, checked, cached, collecting, got, outcome, trouble>>

\* The handler of the exception takes the library away, whoever has put it there.
ConstructFailed(t) ==
  /\ pc[t] = "failed"
  /\ lib' = FALSE
  /\ Goto(t, "finally")
  /\ UNCHANGED <<agent, process, config, checked, cached, collecting, got, outcome, trouble>>

Finally(t) ==
  /\ pc[t] = "finally"
  /\ checked' = TRUE
  /\ Goto(t, "read")
  /\ UNCHANGED <<agent, process, config, lib, cached, collecting, got, outcome, trouble>>

Read(t) ==
  /\ pc[t] = "read"
  /\ got' = [got EXCEPT ![t] = lib]
  /\ Goto(t, "got")
  /\ UNCHANGED <<agent, process_vars, outcome, trouble>>

driver_lib(t) == \/ IsThere(t) \/ IsChecked(t) \/ CheckSocket(t) \/ Absent(t)
                 \/ Construct(t) \/ ConstructFailed(t) \/ Finally(t) \/ Read(t)
-----------------------------------------------------------------------------
(* The driver's threads. *)

\* driver_lib of the driver, which a handler uses to read Octavia's objects.
Resolve(w) ==
  /\ process = "serving" /\ pc[w] = "idle" /\ ~ cached
  /\ Goto(w, "lib?")
  /\ UNCHANGED <<agent, process_vars, got, outcome, trouble>>

Resolved(w) ==
  /\ process = "serving" /\ pc[w] = "got"
  /\ cached' = got[w]
  /\ Goto(w, "idle")
  /\ UNCHANGED <<agent, process, config, lib, checked, collecting, got, outcome, trouble>>

\* A handler reports: the thread is started and True returned at once.
update_status(r) ==
  /\ process = "serving" /\ outcome[r] = "unsent"
  /\ \E w \in Workers : pc[w] = "idle"
  /\ outcome' = [outcome EXCEPT ![r] = "waiting"]
  /\ Goto(r, "asleep")
  /\ UNCHANGED <<agent, process_vars, got, trouble>>

\* The thread has slept for async_delay.
WakeUp(r) ==
  /\ pc[r] = "asleep"
  /\ Goto(r, "lib?")
  /\ UNCHANGED <<agent, process_vars, got, outcome, trouble>>

\* Without a library or an agent the report is dropped; the agent may refuse it.
\* There is no second attempt.
Transmit(r) ==
  /\ pc[r] = "got"
  /\ \E o \in IF got[r] /\ agent = "up" THEN {"delivered", "refused"} ELSE {"lost"} :
       outcome' = [outcome EXCEPT ![r] = o]
  /\ Goto(r, "idle")
  /\ UNCHANGED <<agent, process_vars, got, trouble>>

Runs(t) == \/ driver_lib(t)
           \/ t = Main /\ Initialized
           \/ t \in Workers /\ Resolved(t)
           \/ t \in Reports /\ (WakeUp(t) \/ Transmit(t))

Next == \/ AgentMoves \/ Stop
        \/ \E c \in Configurations : Start(c)
        \/ \E w \in Workers : Resolve(w)
        \/ \E r \in Reports : update_status(r)
        \/ \E t \in Threads : Runs(t)

\* The operating system lets every thread of the process run.
Fairness == \A t \in Threads : WF_vars(Runs(t))

Spec == Init /\ [][Next]_vars
FairSpec == Spec /\ Fairness
-----------------------------------------------------------------------------
(* Properties *)

\* A collector that was started always has a library to push through, whatever the
\* other threads do to the shared _driver_lib.
CollectorHasLibrary == collecting => lib

\* While a process lives its library is never taken away again, although a failed
\* constructor resets _driver_lib: where statistics are collected the constructor of
\* the driver has asked before there was a second thread, and elsewhere every
\* constructor succeeds unless the agent went away in the meantime.
LibraryStays ==
  [][lib /\ process' # "down" /\ (config.stats_enabled \/ ~ trouble) => lib']_vars

\* No report is lost, or left waiting for ever, in a process during whose life the
\* agent was up: neither the order of the threads nor the flag can cost one.
Channel == INSTANCE StatusChannel
ImplementsChannel == Channel!Spec

\* "The background StatsCollector polls LoxiLB ... every stats_interval": once the
\* agent is up for good, a process that serves and has statistics enabled collects.
StatsAreCollected ==
  <>[](agent = "up" /\ process = "serving" /\ config.stats_enabled) => <>collecting
=============================================================================
