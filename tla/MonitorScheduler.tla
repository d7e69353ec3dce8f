--------------------------- MODULE MonitorScheduler ---------------------------
(***************************************************************************)
(* The in-process scheduler of the monitoring tick (backend/api/monitor.py,  *)
(* MonitorScheduler) and the application hooks that start and stop it        *)
(* (backend/api/app.py, _wire_monitor_scheduler).                           *)
(*                                                                          *)
(* The scheduler has no lock.  The main thread runs the startup and shutdown  *)
(* hooks once; a threading.Timer is a thread of its own that waits, runs the  *)
(* job and re-arms it.  The job the application installs, _default_tick,      *)
(* posts to an application of its own, whose startup and shutdown hooks act   *)
(* on the same process-wide scheduler.                                      *)
(* Threads interleave between any two statements that touch shared state.    *)
(***************************************************************************)
EXTENDS Naturals, FiniteSets

CONSTANTS
  Main,      \* the thread of the application
  Timers,    \* threading.Timer objects; one that has ended is used again
  Jobs,      \* MonitorJob objects; one nothing refers to is used again
  Unset

ASSUME ThreadsAssumption == Main \notin Timers /\ Unset \notin Timers \cup Jobs

Threads == {Main} \cup Timers

VARIABLES
  running,   \* MonitorScheduler._running
  jobs,      \* MonitorScheduler._jobs: the job registered under the one job id
  slot,      \* MonitorJob._timer, per job
  th         \* threads: pc, the job a timer serves, the job it is about to arm
             \* and where it goes on after arming

schedulerVars == <<running, jobs, slot, th>>

Ended == [pc |-> "ended", job |-> Unset, arm |-> Unset, next |-> "ended"]

SchedulerInit ==
  /\ running = FALSE
  /\ jobs = Unset
  /\ slot = [j \in Jobs |-> Unset]
  /\ th = [t \in Threads |-> [Ended EXCEPT !.pc = IF t = Main THEN "boot" ELSE "ended"]]

-----------------------------------------------------------------------------

At(t, pc) == th[t].pc = pc
Become(t, state) == th' = [th EXCEPT ![t] = state]
Go(t, pc) == Become(t, [th[t] EXCEPT !.pc = pc])
GoArm(t, job, next) == Become(t, [th[t] EXCEPT !.pc = "arm", !.arm = job, !.next = next])

AfterStartup(t) == IF t = Main THEN "up" ELSE "fn"
AfterShutdown(t) == IF t = Main THEN "down" ELSE "finally"

\* Objects something still refers to.
InUse(t) == ~At(t, "ended") \/ \E j \in Jobs : slot[j] = t
Held(j) == jobs = j \/ \E t \in Threads : th[t].job = j \/ th[t].arm = j

\* The startup hook: install_demo_monitor_tick ...
Boot ==
  /\ At(Main, "boot")
  /\ Go(Main, "register")
  /\ UNCHANGED <<running, jobs, slot>>

\* ... register: a new job replaces the one under its id,
Register(t) ==
  /\ At(t, "register")
  /\ \E j \in {i \in Jobs : ~Held(i)} :
       /\ jobs' = j
       /\ slot' = [slot EXCEPT ![j] = Unset]
       /\ Become(t, [th[t] EXCEPT !.pc = "registered", !.arm = j])
  /\ UNCHANGED running

\* and is armed when the scheduler is running.  The one replaced is left alone.
ArmRegistered(t) ==
  /\ At(t, "registered")
  /\ IF running THEN GoArm(t, th[t].arm, "start") ELSE Go(t, "start")
  /\ UNCHANGED <<running, jobs, slot>>

\* start: the flag, then every job (there is one id).
Start(t) ==
  /\ At(t, "start")
  /\ running' = TRUE
  /\ Go(t, "started")
  /\ UNCHANGED <<jobs, slot>>

ArmStarted(t) ==
  /\ At(t, "started")
  /\ GoArm(t, jobs, AfterStartup(t))
  /\ UNCHANGED <<running, jobs, slot>>

\* _arm: a new timer, whatever timer the job has.
Arm(t) ==
  /\ At(t, "arm")
  /\ \E u \in {v \in Timers : ~InUse(v)} :
       /\ slot' = [slot EXCEPT ![th[t].arm] = u]
       /\ th' = [th EXCEPT ![u] = [Ended EXCEPT !.pc = "armed", !.job = th[t].arm],
                           ![t] = IF th[t].next = "ended" THEN Ended
                                  ELSE [th[t] EXCEPT !.pc = th[t].next, !.arm = Unset]]
  /\ UNCHANGED <<running, jobs>>

\* _fire, after the interval: the job enters an application, which starts up.
Fire(t) ==
  /\ At(t, "armed")
  /\ Go(t, "register")
  /\ UNCHANGED <<running, jobs, slot>>

\* The request is answered or has raised: the job leaves its application, which shuts
\* down; an exception goes on to the except clause of _fire, and its finally, from there.
Ticked(t) ==
  /\ t # Main /\ At(t, "fn")
  /\ Go(t, "stop")
  /\ UNCHANGED <<running, jobs, slot>>

\* finally: re-arm when still running.
Rearm(t) ==
  /\ At(t, "finally")
  /\ IF running THEN GoArm(t, th[t].job, "ended") ELSE Become(t, Ended)
  /\ UNCHANGED <<running, jobs, slot>>

\* The shutdown hook.
Shutdown ==
  /\ At(Main, "up")
  /\ Go(Main, "stop")
  /\ UNCHANGED <<running, jobs, slot>>

\* Mutant: the flag stays up.
StopKeepsFlag(t) ==
  /\ At(t, "stop")
  /\ Become(t, [th[t] EXCEPT !.pc = "cancel", !.arm = jobs])
  /\ UNCHANGED <<running, jobs, slot>>

\* stop: the flag, then the timer each registered job has, if it still waits.
Stop(t) ==
  /\ At(t, "stop")
  /\ running' = FALSE
  /\ Become(t, [th[t] EXCEPT !.pc = "cancel", !.arm = jobs])
  /\ UNCHANGED <<jobs, slot>>

Cancel(t) ==
  /\ At(t, "cancel")
  /\ LET u == slot[th[t].arm] IN
       th' = [v \in Threads |->
                IF v = t THEN [th[t] EXCEPT !.pc = IF u = Unset THEN AfterShutdown(t) ELSE "clear",
                                            !.arm = IF u = Unset THEN Unset ELSE th[t].arm]
                ELSE IF v = u /\ At(u, "armed") THEN Ended ELSE th[v]]
  /\ UNCHANGED <<running, jobs, slot>>

Clear(t) ==
  /\ At(t, "clear")
  /\ slot' = [slot EXCEPT ![th[t].arm] = Unset]
  /\ Become(t, [th[t] EXCEPT !.pc = AfterShutdown(t), !.arm = Unset])
  /\ UNCHANGED <<running, jobs>>

Step(t) ==
  \/ Register(t) \/ ArmRegistered(t) \/ Start(t) \/ ArmStarted(t) \/ Arm(t)
  \/ Fire(t) \/ Ticked(t) \/ Rearm(t)
  \/ Stop(t) \/ Cancel(t) \/ Clear(t)

SchedulerNext == Boot \/ Shutdown \/ \E t \in Threads : Step(t)

\* Threads run and timers run out; the application need not start or stop.
SchedulerSpec == SchedulerInit /\ [][SchedulerNext]_schedulerVars /\ \A t \in Threads : WF_schedulerVars(Step(t))

-----------------------------------------------------------------------------
(* Properties                                                               *)

Steps == {"boot", "register", "registered", "start", "started", "arm", "up", "armed", "fn",
          "finally", "stop", "cancel", "clear", "down", "ended"}

TypeOK ==
  /\ running \in BOOLEAN
  /\ jobs \in Jobs \cup {Unset}
  /\ slot \in [Jobs -> Timers \cup {Unset}]
  /\ th \in [Threads -> [pc : Steps, job : Jobs \cup {Unset}, arm : Jobs \cup {Unset}, next : Steps]]

\* Past start, before the stop that goes with it.
Serving(t) == \/ th[t].pc \in {"started", "up", "stop"}
              \/ At(t, "arm") /\ th[t].next = AfterStartup(t)
              \/ At(t, "fn")

\* start and stop are unsynchronised writes of one flag: whatever threads call them,
\* a scheduler that says it is running was started by someone who is yet to stop it.
RunningHasOwner == running => \E t \in Threads : Serving(t)

\* "one re-arming threading.Timer per job" (MonitorScheduler): no job has two timers
\* waiting.  Violated: register arms the new job of the first tick, and start arms it again.
OneTimer == \A t, u \in Timers :
  At(t, "armed") /\ At(u, "armed") /\ th[t].job = th[u].job => t = u

\* "A minimal in-process periodic runner for the demo monitoring tick" (MonitorScheduler):
\* while the application is up its tick is waiting, at work or being re-armed.  Violated: the
\* shutdown hook of the tick's own application lowers the flag before _fire re-arms.
KeepsTicking == At(Main, "up") => \E t \in Timers : ~At(t, "ended")

=============================================================================
