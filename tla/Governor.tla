------------------------------ MODULE Governor ------------------------------
(***************************************************************************)
(* The application governor of asab (src/asab/application.py).            *)
(*                                                                         *)
(* The Application object drives three phases on one asyncio loop:        *)
(* __init__ runs the init-time governor (publish "init"), run() clears    *)
(* StopEvent and runs the run-time governor (publish "run", then publish  *)
(* "tick" on every timeout of the wait for StopEvent, leave the loop when *)
(* StopEvent is set), then runs the exit-time governor (publish "exit")   *)
(* and closes the loop.  stop() sets StopEvent; it is called by the       *)
(* SIGINT/SIGTERM handlers and by components (e.g. FileABCSource).        *)
(*                                                                         *)
(* `phase` is the main thread's position, which the code keeps in its     *)
(* program counter:                                                        *)
(*   "init"        inside __init__, the init governor is scheduled,       *)
(*   "initialized" __init__ returned, run() not called yet (loop idle),   *)
(*   "running"     run() is waiting in the run-time governor,             *)
(*   "exiting"     the run-time governor returned, exit governor pending, *)
(*   "closed"      the loop is closed and run() returned EX_OK.           *)
(* `published` is the history of topics handed to PubSub.publish, a       *)
(* ghost variable that the properties read.                                *)
(***************************************************************************)
EXTENDS Naturals, Sequences

CONSTANTS
    MaxTicks,        \* bound on the number of "tick" publications
    ServiceNames,    \* names a module may register a service under
    ServiceObjects,  \* service instances
    NoService,       \* marks a name with no registered service
    ModuleClasses,   \* module classes add_module may be called with
    MaxModules       \* bound on the length of the Modules list

ASSUME GovernorAssumption ==
    /\ MaxTicks \in Nat
    /\ MaxModules \in Nat
    /\ NoService \notin ServiceObjects

VARIABLES
    phase,       \* position of the main thread, see above
    stopEvent,   \* self.StopEvent (asyncio.Event)
    ticks,       \* number of "tick" publications so far
    published,   \* ghost: topics published, in order
    services,    \* self.Services: name -> instance or NoService
    modules      \* self.Modules: list of loaded module classes

govVars == <<phase, stopEvent, ticks, published, services, modules>>

Phases == {"init", "initialized", "running", "exiting", "closed"}
Topics == {"init", "run", "tick", "exit"}

\* Phases in which the asyncio loop is running callbacks (signal
\* handlers, tasks): inside one of the three run_until_complete calls.
LoopRunning == phase \in {"init", "running", "exiting"}

GovTypeOK ==
    /\ phase \in Phases
    /\ stopEvent \in BOOLEAN
    /\ ticks \in 0..MaxTicks
    /\ published \in Seq(Topics)
    /\ services \in [ServiceNames -> ServiceObjects \cup {NoService}]
    /\ modules \in Seq(ModuleClasses)
    /\ Len(modules) <= MaxModules

(***************************************************************************)
(* __init__ up to the launch of the init-time governor: StopEvent cleared, *)
(* Modules and Services empty.                                             *)
(***************************************************************************)
GovInit ==
    /\ phase = "init"
    /\ stopEvent = FALSE
    /\ ticks = 0
    /\ published = << >>
    /\ services = [n \in ServiceNames |-> NoService]
    /\ modules = << >>

(***************************************************************************)
(* init_time_governor: publish "init", resolve the future; __init__ then  *)
(* returns from run_until_complete.                                        *)
(***************************************************************************)
InitTimeGovernor ==
    /\ phase = "init"
    /\ published' = Append(published, "init")
    /\ phase' = "initialized"
    /\ UNCHANGED <<stopEvent, ticks, services, modules>>

\* Mutant of Run: the run-time governor publishes "init" (copy of line 147).
RunPublishesInit ==
    /\ phase = "initialized"
    /\ stopEvent' = FALSE
    /\ published' = Append(published, "init")
    /\ phase' = "running"
    /\ UNCHANGED <<ticks, services, modules>>

(***************************************************************************)
(* run(): StopEvent.clear(), then the run-time governor publishes "run"   *)
(* and starts waiting for StopEvent.                                       *)
(***************************************************************************)
Run ==
    /\ phase = "initialized"
    /\ stopEvent' = FALSE
    /\ published' = Append(published, "run")
    /\ phase' = "running"
    /\ UNCHANGED <<ticks, services, modules>>

\* Mutant of Tick: the tick goes out under the upstream asab topic name.
TickMisnamed ==
    /\ phase = "running"
    /\ ~stopEvent
    /\ ticks < MaxTicks
    /\ ticks' = ticks + 1
    /\ published' = Append(published, "Application.tick!")
    /\ UNCHANGED <<phase, stopEvent, services, modules>>

(***************************************************************************)
(* wait_for(StopEvent.wait(), timeout) timed out: publish "tick" and wait *)
(* again.  wait_for returns the event's result when it is already set, so *)
(* a timeout is only taken while StopEvent is clear.                       *)
(***************************************************************************)
Tick ==
    /\ phase = "running"
    /\ ~stopEvent
    /\ ticks < MaxTicks
    /\ ticks' = ticks + 1
    /\ published' = Append(published, "tick")
    /\ UNCHANGED <<phase, stopEvent, services, modules>>

\* Mutant of StopObservedByRun: break and continue swapped, the loop is
\* left on a timeout.
StopObservedOnTimeout ==
    /\ phase = "running"
    /\ ~stopEvent
    /\ phase' = "exiting"
    /\ UNCHANGED <<stopEvent, ticks, published, services, modules>>

\* Mutant of StopObservedByRun: the governor's future is not resolved (no
\* finally clause), so run_until_complete never returns.
StopObservedNoResult ==
    /\ phase = "running"
    /\ stopEvent
    /\ UNCHANGED govVars

(***************************************************************************)
(* The wait for StopEvent completed: break, resolve the future in the     *)
(* finally clause; run() leaves its first run_until_complete.              *)
(***************************************************************************)
StopObservedByRun ==
    /\ phase = "running"
    /\ stopEvent
    /\ phase' = "exiting"
    /\ UNCHANGED <<stopEvent, ticks, published, services, modules>>

\* Mutant of ExitTimeGovernor: the exit topic is misnamed.
ExitTimeGovernorMisnamed ==
    /\ phase = "exiting"
    /\ published' = Append(published, "Application.exit!")
    /\ phase' = "closed"
    /\ UNCHANGED <<stopEvent, ticks, services, modules>>

(***************************************************************************)
(* exit_time_governor publishes "exit"; run() then closes the loop and    *)
(* returns EX_OK.                                                          *)
(***************************************************************************)
ExitTimeGovernor ==
    /\ phase = "exiting"
    /\ published' = Append(published, "exit")
    /\ phase' = "closed"
    /\ UNCHANGED <<stopEvent, ticks, services, modules>>

(***************************************************************************)
(* stop(): StopEvent.set().  Its callers (signal handlers, components)    *)
(* run as loop callbacks, so only while the loop runs.                     *)
(***************************************************************************)
Stop ==
    /\ LoopRunning
    /\ stopEvent' = TRUE
    /\ UNCHANGED <<phase, ticks, published, services, modules>>

(***************************************************************************)
(* register_service: KeyError (no change) when the name is taken.          *)
(***************************************************************************)
RegisterService(name, service) ==
    /\ phase # "closed"
    /\ services[name] = NoService
    /\ services' = [services EXCEPT ![name] = service]
    /\ UNCHANGED <<phase, stopEvent, ticks, published, modules>>

(***************************************************************************)
(* add_module: instantiate the class and append it to Modules.            *)
(***************************************************************************)
AddModule(class) ==
    /\ phase # "closed"
    /\ Len(modules) < MaxModules
    /\ modules' = Append(modules, class)
    /\ UNCHANGED <<phase, stopEvent, ticks, published, services>>

GovNext ==
    \/ InitTimeGovernor
    \/ Run
    \/ Tick
    \/ StopObservedByRun
    \/ ExitTimeGovernor
    \/ Stop
    \/ \E n \in ServiceNames, s \in ServiceObjects : RegisterService(n, s)
    \/ \E c \in ModuleClasses : AddModule(c)

(***************************************************************************)
(* The governor steps are loop work that asyncio runs once it is ready;   *)
(* run() is called by the program's main after __init__.  Ticks, stop()   *)
(* and registrations are the environment's and are not assumed to occur. *)
(***************************************************************************)
GovFairness ==
    /\ WF_govVars(InitTimeGovernor)
    /\ WF_govVars(Run)
    /\ WF_govVars(StopObservedByRun)
    /\ WF_govVars(ExitTimeGovernor)

GovSpec == GovInit /\ [][GovNext]_govVars /\ GovFairness

-----------------------------------------------------------------------------
(***************************************************************************)
(* Properties.                                                             *)
(***************************************************************************)

\* The topic published at position i of a history of length len when the
\* governor is in phase ph: "init", then "run", then ticks, and "exit" as
\* the last one once the loop is closed.
ExpectedTopic(ph, len, i) ==
    IF i = 1 THEN "init"
    ELSE IF i = 2 THEN "run"
    ELSE IF ph = "closed" /\ i = len THEN "exit"
    ELSE "tick"

\* Number of publications the governor has made in phase ph after n ticks.
ExpectedLength(ph, n) ==
    CASE ph = "init"                     -> 0
      [] ph = "initialized"              -> 1
      [] ph \in {"running", "exiting"}   -> 2 + n
      [] ph = "closed"                   -> 3 + n

(***************************************************************************)
(* Lifecycle: subscribers see "init" exactly once and first, "run" once   *)
(* and second, then only ticks, and "exit" exactly once and last, after   *)
(* which nothing is published: the run-time governor's loop and the three *)
(* run_until_complete calls never publish out of order or twice.          *)
(***************************************************************************)
Lifecycle ==
    /\ Len(published) = ExpectedLength(phase, ticks)
    /\ \A i \in 1..Len(published) :
          published[i] = ExpectedTopic(phase, Len(published), i)

(***************************************************************************)
(* ExitOnlyOnStop: the run-time governor is left only because StopEvent   *)
(* was set (a timeout of wait_for never ends the run phase), and nothing  *)
(* clears StopEvent after that.                                            *)
(***************************************************************************)
ExitOnlyOnStop ==
    phase \in {"exiting", "closed"} => stopEvent

(***************************************************************************)
(* StopTerminates: once stop() has set StopEvent while run() waits, run() *)
(* publishes "exit" and returns: no tick timeout is needed to notice it.  *)
(***************************************************************************)
StopTerminates ==
    (phase = "running" /\ stopEvent) ~> (phase = "closed")

(***************************************************************************)
(* StopIsPermanent: spec section 5 says the stop signal "once set remains *)
(* set, there is no un-stop".  run() clears StopEvent (line 89), so a     *)
(* stop() issued while __init__ runs the init governor is discarded.      *)
(***************************************************************************)
StopIsPermanent ==
    [][stopEvent => stopEvent']_govVars

=============================================================================
