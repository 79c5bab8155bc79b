---------------------- MODULE StatusSynchronizer_proofs ----------------------
(***************************************************************************)
(* The library a process has found stays, a collector has one, and no      *)
(* report is lost while the agent is up: for any number of threads,        *)
(* reports and configurations.                                             *)
(***************************************************************************)
EXTENDS StatusSynchronizer, TLAPS

Inside == {"socket?", "absent", "construct", "failed", "finally"}

\* A process that does not run has no thread and has forgotten everything.
Quiet == process \in {"down", "failed"} =>
           /\ \A t \in Threads : pc[t] = "idle"
           /\ ~ lib /\ ~ checked /\ ~ collecting

\* While the driver is constructed only its thread runs; that thread alone makes
\* the library, and has the answer when it is through.
Starting == process = "init" =>
  /\ config.stats_enabled /\ ~ collecting
  /\ \A t \in Threads : t # Main => pc[t] = "idle"
  /\ pc[Main] \in Statements
  /\ pc[Main] \in {"lib?", "checked?", "socket?", "absent", "construct", "failed"} => ~ lib
  /\ pc[Main] \in {"read", "got"} => checked
  /\ pc[Main] = "got" /\ got[Main] => lib

\* A serving process that wants statistics has asked for the library already.
Served == process = "serving" =>
  /\ config.stats_enabled => checked /\ \A t \in Threads : pc[t] \notin Inside
  /\ collecting => lib /\ config.stats_enabled

\* A report on its way has its thread in a serving process.
Reporting == /\ \A r \in Reports : pc[r] # "idle" => outcome[r] = "waiting"
             /\ process # "serving" => \A r \in Reports : outcome[r] # "waiting"

\* With the agent up all the time whoever asks for the library gets it.
Untroubled == ~ trouble =>
  /\ agent = "up"
  /\ checked => lib
  /\ \A t \in Threads : /\ pc[t] \notin {"absent", "failed"}
                        /\ pc[t] \in {"finally", "read"} => lib
                        /\ pc[t] = "got" => got[t]

SynchronizerInv == /\ TypeOK /\ Quiet /\ Starting /\ Served
                   /\ Reporting /\ Untroubled
-----------------------------------------------------------------------------
LEMMA InitEstablishes == Init => SynchronizerInv
BY ThreadsAssumption, ConfigurationsAssumption
   DEF Init, SynchronizerInv, TypeOK, Quiet, Starting, Served, Reporting, Untroubled,
       Threads

(* The environment and the constructor *)

LEMMA AgentMovesKeeps ==
  ASSUME SynchronizerInv, AgentMoves
  PROVE  SynchronizerInv'
BY DEF AgentMoves, SynchronizerInv, TypeOK, Quiet, Starting, Served, Reporting,
       Untroubled, process_vars

LEMMA StopKeeps ==
  ASSUME SynchronizerInv, Stop
  PROVE  SynchronizerInv'
BY ThreadsAssumption
   DEF Stop, SynchronizerInv, TypeOK, Quiet, Starting, Served, Reporting, Untroubled,
       Threads

LEMMA StartKeeps ==
  ASSUME SynchronizerInv, NEW c \in Configurations, Start(c)
  PROVE  SynchronizerInv'
<1> USE ThreadsAssumption, ConfigurationsAssumption DEF SynchronizerInv, Threads
<1>1. /\ process = "down" /\ config' = c /\ c \in Options
      /\ process' \in {"failed", "init", "serving"}
      /\ process' = "init" => c.stats_enabled
      /\ process' = "serving" => ~ c.stats_enabled
      /\ process' = "failed" <=> ~ Constructible(c)
  BY DEF Start, Options
<1>2. /\ \A t \in Threads : t # Main => pc'[t] = "idle"
      /\ pc'[Main] = IF process' = "init" THEN "lib?" ELSE "idle"
      /\ pc' \in [Threads -> {"idle", "lib?"}]
  BY <1>1 DEF Start, Quiet, TypeOK
<1>3. ~ lib' /\ ~ checked' /\ ~ collecting' /\ cached' = cached /\ UNCHANGED <<agent, got, outcome>>
  BY DEF Start, Quiet
<1>4. TypeOK'
  BY <1>1, <1>2, <1>3 DEF TypeOK, Start, Statements
<1>5. Quiet' /\ Starting' /\ Served'
  BY <1>1, <1>2, <1>3 DEF Quiet, Starting, Served, Statements, Inside
<1>6. Reporting'
  BY <1>1, <1>2, <1>3 DEF Reporting
<1>7. Untroubled'
  BY <1>1, <1>2, <1>3 DEF Untroubled, Start
<1> QED BY <1>4, <1>5, <1>6, <1>7

LEMMA InitializedKeeps ==
  ASSUME SynchronizerInv, Initialized
  PROVE  SynchronizerInv'
BY ThreadsAssumption
   DEF Initialized, SynchronizerInv, TypeOK, Quiet, Starting, Served, Reporting,
       Untroubled, Threads, Statements, Inside
-----------------------------------------------------------------------------
(* driver_lib, statement by statement *)

LEMMA IsThereKeeps ==
  ASSUME SynchronizerInv, NEW t \in Threads, IsThere(t)
  PROVE  SynchronizerInv'
BY ThreadsAssumption
   DEF IsThere, Goto, process_vars, SynchronizerInv, TypeOK, Quiet, Starting, Served,
       Reporting, Untroubled, Threads, Statements, Inside

LEMMA IsCheckedKeeps ==
  ASSUME SynchronizerInv, NEW t \in Threads, IsChecked(t)
  PROVE  SynchronizerInv'
BY ThreadsAssumption
   DEF IsChecked, Goto, process_vars, SynchronizerInv, TypeOK, Quiet, Starting, Served,
       Reporting, Untroubled, Threads, Statements, Inside

LEMMA CheckSocketKeeps ==
  ASSUME SynchronizerInv, NEW t \in Threads, CheckSocket(t)
  PROVE  SynchronizerInv'
<1> USE ThreadsAssumption
    DEF CheckSocket, Goto, process_vars, SynchronizerInv, TypeOK, Threads, Statements
<1>1. TypeOK' /\ Quiet' /\ Reporting'
  BY DEF Quiet, Reporting
<1>2. Starting' /\ Served'
  BY DEF Quiet, Starting, Served, Inside
<1>3. Untroubled'
  BY DEF Untroubled
<1> QED BY <1>1, <1>2, <1>3

LEMMA AbsentKeeps ==
  ASSUME SynchronizerInv, NEW t \in Threads, Absent(t)
  PROVE  SynchronizerInv'
<1> USE ThreadsAssumption
    DEF Absent, Goto, process_vars, SynchronizerInv, TypeOK, Threads, Statements
<1>1. TypeOK' /\ Quiet' /\ Reporting'
  BY DEF Quiet, Reporting
<1>2. Starting' /\ Served'
  BY DEF Quiet, Starting, Served, Inside
<1>3. Untroubled'
  BY DEF Untroubled
<1> QED BY <1>1, <1>2, <1>3

LEMMA ConstructKeeps ==
  ASSUME SynchronizerInv, NEW t \in Threads, Construct(t)
  PROVE  SynchronizerInv'
BY ThreadsAssumption, ZenonT(60)
   DEF Construct, Goto, process_vars, SynchronizerInv, TypeOK, Quiet, Starting, Served,
       Reporting, Untroubled, Threads, Statements, Inside

LEMMA ConstructFailedKeeps ==
  ASSUME SynchronizerInv, NEW t \in Threads, ConstructFailed(t)
  PROVE  SynchronizerInv'
BY ThreadsAssumption
   DEF ConstructFailed, Goto, process_vars, SynchronizerInv, TypeOK, Quiet, Starting, Served,
       Reporting, Untroubled, Threads, Statements, Inside

LEMMA FinallyKeeps ==
  ASSUME SynchronizerInv, NEW t \in Threads, Finally(t)
  PROVE  SynchronizerInv'
BY ThreadsAssumption
   DEF Finally, Goto, process_vars, SynchronizerInv, TypeOK, Quiet, Starting, Served,
       Reporting, Untroubled, Threads, Statements, Inside

LEMMA ReadKeeps ==
  ASSUME SynchronizerInv, NEW t \in Threads, Read(t)
  PROVE  SynchronizerInv'
BY ThreadsAssumption
   DEF Read, Goto, process_vars, SynchronizerInv, TypeOK, Quiet, Starting, Served,
       Reporting, Untroubled, Threads, Statements, Inside

-----------------------------------------------------------------------------
(* The threads that ask for the library *)

LEMMA ResolveKeeps ==
  ASSUME SynchronizerInv, NEW w \in Workers, Resolve(w)
  PROVE  SynchronizerInv'
BY ThreadsAssumption
   DEF Resolve, Goto, process_vars, SynchronizerInv, TypeOK, Quiet, Starting, Served,
       Reporting, Untroubled, Threads, Statements, Inside

LEMMA ResolvedKeeps ==
  ASSUME SynchronizerInv, NEW w \in Workers, Resolved(w)
  PROVE  SynchronizerInv'
BY ThreadsAssumption
   DEF Resolved, Goto, process_vars, SynchronizerInv, TypeOK, Quiet, Starting, Served,
       Reporting, Untroubled, Threads, Statements, Inside

LEMMA update_statusKeeps ==
  ASSUME SynchronizerInv, NEW r \in Reports, update_status(r)
  PROVE  SynchronizerInv'
BY ThreadsAssumption
   DEF update_status, Goto, process_vars, SynchronizerInv, TypeOK, Quiet, Starting, Served,
       Reporting, Untroubled, Threads, Statements, Inside

LEMMA WakeUpKeeps ==
  ASSUME SynchronizerInv, NEW r \in Reports, WakeUp(r)
  PROVE  SynchronizerInv'
BY ThreadsAssumption
   DEF WakeUp, Goto, process_vars, SynchronizerInv, TypeOK, Quiet, Starting, Served,
       Reporting, Untroubled, Threads, Statements, Inside

LEMMA TransmitKeeps ==
  ASSUME SynchronizerInv, NEW r \in Reports, Transmit(r)
  PROVE  SynchronizerInv'
BY ThreadsAssumption
   DEF Transmit, Goto, process_vars, SynchronizerInv, TypeOK, Quiet, Starting, Served,
       Reporting, Untroubled, Threads, Statements, Inside
-----------------------------------------------------------------------------
(* The properties *)

LEMMA RunsKeeps ==
  ASSUME SynchronizerInv, NEW t \in Threads, Runs(t)
  PROVE  SynchronizerInv'
<1>1. CASE driver_lib(t)
  BY <1>1, IsThereKeeps, IsCheckedKeeps, CheckSocketKeeps, AbsentKeeps, ConstructKeeps,
     ConstructFailedKeeps, FinallyKeeps, ReadKeeps DEF driver_lib
<1>2. CASE t = Main /\ Initialized
  BY <1>2, InitializedKeeps
<1>3. CASE t \in Workers /\ Resolved(t)
  BY <1>3, ResolvedKeeps
<1>4. CASE t \in Reports /\ (WakeUp(t) \/ Transmit(t))
  BY <1>4, WakeUpKeeps, TransmitKeeps
<1> QED BY <1>1, <1>2, <1>3, <1>4 DEF Runs

\* The strengthening is inductive.
THEOREM SynchronizerInvariant == Spec => []SynchronizerInv
<1>1. SynchronizerInv /\ [Next]_vars => SynchronizerInv'
  <2> SUFFICES ASSUME SynchronizerInv, [Next]_vars PROVE SynchronizerInv'
    OBVIOUS
  <2>1. CASE AgentMoves
    BY <2>1, AgentMovesKeeps
  <2>2. CASE Stop
    BY <2>2, StopKeeps
  <2>3. CASE \E c \in Configurations : Start(c)
    BY <2>3, StartKeeps
  <2>4. CASE \E w \in Workers : Resolve(w)
    BY <2>4, ResolveKeeps
  <2>5. CASE \E r \in Reports : update_status(r)
    BY <2>5, update_statusKeeps
  <2>6. CASE \E t \in Threads : Runs(t)
    BY <2>6, RunsKeeps
  <2>7. CASE UNCHANGED vars
    BY <2>7 DEF vars, process_vars, SynchronizerInv, TypeOK, Quiet, Starting, Served,
                Reporting, Untroubled
  <2> QED BY <2>1, <2>2, <2>3, <2>4, <2>5, <2>6, <2>7 DEF Next
<1> QED BY <1>1, InitEstablishes, PTL DEF Spec

\* A collector that runs has a library to push through, for any number of threads
\* that share the unlocked _driver_lib and _driver_lib_checked.
THEOREM CollectorIsConnected == Spec => []CollectorHasLibrary
<1>1. SynchronizerInv => CollectorHasLibrary
  BY DEF SynchronizerInv, TypeOK, Quiet, Starting, Served, CollectorHasLibrary
<1> QED BY <1>1, SynchronizerInvariant, PTL

\* A failed constructor never takes the library away from a process that collects,
\* nor from any while the agent is up.
THEOREM LibraryIsKept == Spec => LibraryStays
<1> DEFINE Stays ==
      lib /\ process' # "down" /\ (config.stats_enabled \/ ~ trouble) => lib'
<1>1. SynchronizerInv /\ [Next]_vars => [Stays]_vars
  <2> SUFFICES ASSUME SynchronizerInv, Next, lib, process' # "down",
                      config.stats_enabled \/ ~ trouble
               PROVE  lib'
    BY DEF vars
  <2>1. \A t \in Threads : pc[t] # "failed"
    BY ThreadsAssumption
       DEF SynchronizerInv, TypeOK, Quiet, Starting, Served, Untroubled, Inside, Threads
  <2>2. CASE AgentMoves \/ Stop \/ (\E c \in Configurations : Start(c))
    BY <2>2 DEF AgentMoves, Stop, Start, process_vars
  <2>3. CASE \/ \E w \in Workers : Resolve(w)
             \/ \E r \in Reports : update_status(r)
    BY <2>3 DEF Resolve, update_status, process_vars
  <2>4. CASE \E t \in Threads : Runs(t)
    BY <2>1, <2>4 DEF Runs, driver_lib, IsThere, IsChecked, CheckSocket, Absent, Construct,
       ConstructFailed, Finally, Read, Initialized, Resolved, WakeUp, Transmit, process_vars
  <2> QED BY <2>2, <2>3, <2>4 DEF Next
<1> QED BY <1>1, SynchronizerInvariant, PTL DEF Spec, LibraryStays
-----------------------------------------------------------------------------
(* The refinement *)

Waiting == {r \in Reports : outcome[r] = "waiting"}

LEMMA StopIsTrouble ==
  ASSUME SynchronizerInv, Stop
  PROVE  Channel!Trouble
<1>1. /\ Waiting \in SUBSET {r \in Reports : outcome[r] = "waiting"}
      /\ outcome' = [r \in Reports |-> IF r \in Waiting THEN "lost" ELSE outcome[r]]
  BY DEF Stop, Waiting
<1>2. trouble' = TRUE
  BY DEF Stop
<1> QED BY <1>1, <1>2 DEF Channel!Trouble

\* A new process starts when no report is on its way.
LEMMA StartIsRecovery ==
  ASSUME SynchronizerInv, NEW c \in Configurations, Start(c)
  PROVE  Channel!Recover
BY DEF Start, SynchronizerInv, TypeOK, Reporting, Channel!Recover

\* What a thread transmits is lost only in trouble.
LEMMA TransmitIsAnOutcome ==
  ASSUME SynchronizerInv, NEW r \in Reports, Transmit(r)
  PROVE  Channel!Deliver(r) \/ Channel!Refuse(r) \/ Channel!Lose(r)
<1>1. outcome[r] = "waiting" /\ UNCHANGED trouble
  BY DEF Transmit, SynchronizerInv, Reporting
<1>2. PICK o \in {"delivered", "refused", "lost"} :
        /\ outcome' = [outcome EXCEPT ![r] = o]
        /\ o = "lost" => ~ (got[r] /\ agent = "up")
  BY DEF Transmit
<1>3. ~ trouble => got[r] /\ agent = "up"
  BY DEF Transmit, SynchronizerInv, Untroubled, Threads
<1>4. trouble \in BOOLEAN
  BY DEF SynchronizerInv, TypeOK
<1> QED BY <1>1, <1>2, <1>3, <1>4 DEF Channel!Deliver, Channel!Refuse, Channel!Lose

\* No report is lost in a process during whose life the agent was up: every step of
\* the synchronizer is a step of StatusChannel, or none.
THEOREM SynchronizerImplementsChannel == Spec => Channel!SafeSpec
<1>1. Init => Channel!Init
  BY DEF Init, Channel!Init
<1>2. SynchronizerInv /\ [Next]_vars => [Channel!Next]_(Channel!vars)
  <2> SUFFICES ASSUME SynchronizerInv, [Next]_vars
               PROVE  Channel!Next \/ UNCHANGED <<outcome, trouble>>
    BY DEF Channel!vars
  <2>1. CASE AgentMoves
    <3>1. UNCHANGED outcome /\ (trouble' = TRUE \/ UNCHANGED trouble)
      BY <2>1 DEF AgentMoves, SynchronizerInv, TypeOK
    <3>2. CASE trouble' = TRUE
      <4> DEFINE none == {}
      <4>1. outcome' = [r \in Reports |-> IF r \in none THEN "lost" ELSE outcome[r]]
        BY <3>1 DEF SynchronizerInv, TypeOK
      <4>2. none \in SUBSET {r \in Reports : outcome[r] = "waiting"}
        OBVIOUS
      <4> HIDE DEF none
      <4> QED BY <3>2, <4>1, <4>2 DEF Channel!Trouble, Channel!Next
    <3> QED BY <3>1, <3>2
  <2>2. CASE Stop
    BY <2>2, StopIsTrouble DEF Channel!Next
  <2>3. CASE \E c \in Configurations : Start(c)
    BY <2>3, StartIsRecovery DEF Channel!Next
  <2>4. CASE \E w \in Workers : Resolve(w)
    BY <2>4 DEF Resolve
  <2>5. CASE \E r \in Reports : update_status(r)
    BY <2>5 DEF update_status, Channel!Send, Channel!Next
  <2>6. CASE \E t \in Threads : Runs(t)
    <3>1. PICK t \in Threads : Runs(t)
      BY <2>6
    <3>2. CASE t \in Reports /\ Transmit(t)
      BY <3>2, TransmitIsAnOutcome DEF Channel!Next
    <3>3. CASE ~ (t \in Reports /\ Transmit(t))
      BY <3>1, <3>3 DEF Runs, driver_lib, IsThere, IsChecked, CheckSocket, Absent, Construct,
         ConstructFailed, Finally, Read, Initialized, Resolved, WakeUp
    <3> QED BY <3>2, <3>3
  <2>7. CASE UNCHANGED vars
    BY <2>7 DEF vars
  <2> QED BY <2>1, <2>2, <2>3, <2>4, <2>5, <2>6, <2>7 DEF Next
<1> QED BY <1>1, <1>2, SynchronizerInvariant, PTL DEF Spec, Channel!SafeSpec
=============================================================================
