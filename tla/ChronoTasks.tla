---------------------------- MODULE ChronoTasks ----------------------------
(* The ChronoController (ChronoController.cpp) with the tasks of on<Every>,       *)
(* on<Watchdog> and emit<DELAY>, the service times of the watchdogs, and the clock *)
(* (clock.cpp), which TimeTravel sets, stops and lets run.                        *)
(*                                                                               *)
(* Times are taken relative to NUClear::clock::now(): left[t] is task.time - now.   *)
(* How exactly the controller waits depends on accuracies it measures; that a wait *)
(* may end early, and which kind of wait it is, is left open here.                *)
EXTENDS Integers, FiniteSets, FiniteSetsExt

CONSTANTS
    Every, Delay, Watchdog,   \* the tasks of each kind
    Datum, Watched,           \* Watched[w]: the data of a watchdog, the key of its store
    Period,                   \* of on<Every> and on<Watchdog>
    Delays,                   \* how long emit<DELAY> may wait
    Rates, Jumps,             \* what TimeTravel may set: the rate, and the clock by so much
    None,
    MaxLeft, MaxLate,         \* Bound: tasks farther ahead, or later than this
                              \* (since[k] counts to Period + 1, moved to MaxLeft)
    MaxTravels                \* Bound: the number of time travels

Task == Every \union Delay \union Watchdog
ASSUME ChronoAssumption ==
    /\ Watched \in [Watchdog -> Datum] /\ None \notin Task
    /\ Every \intersect Delay = {} /\ Every \intersect Watchdog = {} /\ Delay \intersect Watchdog = {}
    /\ Period \in Nat \ {0} /\ Delays \subseteq Nat /\ Rates \subseteq Nat /\ Jumps \subseteq Int
    /\ {MaxLeft, MaxLate, MaxTravels} \subseteq Nat
\* No task is added farther ahead than the bound.
ASSUME BoundAssumption == Period <= MaxLeft /\ Delays \subseteq 0..MaxLeft

VARIABLES
    tasks,    \* the heap: those in it
    left,     \* left[t]: task.time, less now
    bound,    \* "new", "bound", "forgotten" (a watchdog whose data is gone) or "unbound"
    store,    \* the data of watchdogs that has a service time
    since,    \* since[k]: now, less the service time
    rtf,      \* the rate of the clock
    running, told,  \* the flag, and whether Shutdown has notified
    pc,       \* where the controller is
    woken,    \* it was notified while it waits
    alarm,    \* how long it still waits, or sleeps
    moved,    \* how far the clock moved while it waits for the clock to run
    ran,      \* the task the last step ran, and whether it submitted its reaction
    phase,    \* what the clock moved since an on<Every> was bound, modulo Period
    travels

book == <<bound, store>>
clock == <<rtf, travels, phase>>
ctrl == <<pc, woken, alarm, moved>>
vars == <<tasks, left, book, since, clock, running, told, ctrl, ran>>

NoRun == [task |-> None, submitted |-> FALSE]

Init ==
    /\ tasks = {} /\ left = [t \in Task |-> 0] /\ bound = [t \in Task |-> "new"]
    /\ store = {} /\ since = [k \in Datum |-> 0] /\ rtf = 1 /\ running = TRUE /\ told = FALSE
    /\ pc = "top" /\ woken = FALSE /\ alarm = 0 /\ moved = 0 /\ ran = NoRun
    /\ phase = [t \in Every |-> 0] /\ travels = 0
-----------------------------------------------------------------------------
(* The mutex is held by whoever takes a step that needs it, and by the controller   *)
(* while it sleeps or spins.                                                      *)
Unlocked == pc \notin {"sleep", "spin"}

\* Mutant of Notified: nobody is woken.
NotifiedMutant == woken
(* notify_all() *)
Notified == woken \/ pc \in {"idle", "paused", "wait"}

(* The operator< of ChronoTask: the tasks that may be at the front of the heap.     *)
Front == {t \in tasks : \A u \in tasks : left[t] <= left[u]}

(* The clock moves by d; the tasks in T stay where they are, the others move along.  *)
Moves(T, d) ==
    /\ left' = [t \in Task |-> IF t \in T THEN left[t] - d ELSE left[t]]
    /\ \A t \in T : left'[t] \in (-MaxLate)..MaxLeft
    /\ \A k \in store : d < 0 => since[k] + d >= Period - MaxLeft /\ since[k] <= Period
    /\ since' = [k \in Datum |-> IF k \in store THEN Min({since[k] + d, Period + 1}) ELSE since[k]]
    /\ phase' = [t \in Every |-> IF t \in T THEN (phase[t] + d) % Period ELSE phase[t]]
    /\ moved' = IF pc = "paused" THEN Min({moved + d, MaxLeft}) ELSE 0

(* Real time passes: clock::now() follows at the rate of the clock.                 *)
Tick ==
    /\ rtf # 0 \/ alarm # 0
    /\ Moves(tasks, rtf) /\ alarm' = Max({0, alarm - 1}) /\ ran' = NoRun
    /\ UNCHANGED <<tasks, book, rtf, travels, running, told, pc, woken>>

(* TimeTravel.  ABSOLUTE leaves the tasks where they are, RELATIVE moves them along, *)
(* NEAREST goes no farther than to the earliest task.                             *)
Nearest(d) == Min({d} \union {left[t] : t \in tasks})
Action == {"RELATIVE", "ABSOLUTE", "NEAREST"}
Staying(action) == IF action = "RELATIVE" THEN {} ELSE tasks
SetClock(T, d, rate) == Moves(T, d) /\ rtf' = rate
TimeTravel(action, d, rate) ==
    /\ Unlocked /\ travels < MaxTravels /\ travels' = travels + 1
    /\ SetClock(Staying(action), IF action = "NEAREST" THEN Nearest(d) ELSE d, rate)
    /\ woken' = Notified /\ ran' = NoRun
    /\ UNCHANGED <<tasks, book, running, told, pc, alarm>>
-----------------------------------------------------------------------------
(* on<Watchdog> sees to it that there is a service time, ...                        *)
InitStore(w) ==
    /\ bound[w] = "new" /\ bound' = [bound EXCEPT ![w] = "initialised"]
    /\ store' = store \union {Watched[w]}
    /\ since' = IF Watched[w] \in store THEN since ELSE [since EXCEPT ![Watched[w]] = 0]
    /\ ran' = NoRun /\ UNCHANGED <<tasks, left, clock, running, told, ctrl>>

(* ... and then, like on<Every> and emit<DELAY>, adds its task; the controller takes *)
(* none when it has been shut down.                                               *)
Ready(t) == bound[t] = IF t \in Watchdog THEN "initialised" ELSE "new"
Ahead(t) == IF t \in Delay THEN Delays ELSE {Period}
Add(t, delay) ==
    /\ Unlocked /\ Ready(t) /\ delay \in Ahead(t)
    /\ bound' = [bound EXCEPT ![t] = "bound"]
    /\ tasks' = IF running THEN tasks \union {t} ELSE tasks
    /\ left' = IF running THEN [left EXCEPT ![t] = delay] ELSE left
    /\ woken' = Notified /\ ran' = NoRun
    /\ UNCHANGED <<store, since, clock, running, told, pc, alarm, moved>>

(* unbind() of a watchdog's reaction erases the service time, ...                  *)
Forget(w) ==
    /\ bound[w] = "bound" /\ bound' = [bound EXCEPT ![w] = "forgotten"]
    /\ store' = store \ {Watched[w]} /\ since' = [since EXCEPT ![Watched[w]] = 0] /\ ran' = NoRun
    /\ UNCHANGED <<tasks, left, clock, running, told, ctrl>>

(* ... and then takes the task out, as that of on<Every> does.                      *)
Unbind(t) ==
    /\ Unlocked /\ t \notin Delay /\ bound[t] = IF t \in Watchdog THEN "forgotten" ELSE "bound"
    /\ bound' = [bound EXCEPT ![t] = "unbound"] /\ tasks' = tasks \ {t}
    /\ left' = [left EXCEPT ![t] = 0] /\ woken' = Notified /\ ran' = NoRun
    /\ UNCHANGED <<store, since, clock, running, told, pc, alarm, moved>>

(* emit<WATCHDOG>(ServiceWatchdog()), without the mutex; it throws if there is none. *)
Service(k) ==
    /\ k \in store /\ since' = [since EXCEPT ![k] = 0] /\ ran' = NoRun
    /\ UNCHANGED <<tasks, left, book, clock, running, told, ctrl>>

(* The Shutdown reaction sets the flag, and then takes the mutex to notify.        *)
Shutdown ==
    /\ running /\ running' = FALSE /\ ran' = NoRun
    /\ UNCHANGED <<tasks, left, book, since, clock, told, ctrl>>
NotifyShutdown ==
    /\ ~running /\ ~told /\ Unlocked /\ told' = TRUE /\ woken' = Notified /\ ran' = NoRun
    /\ UNCHANGED <<tasks, left, book, since, clock, running, pc, alarm, moved>>
-----------------------------------------------------------------------------
(* The loop of the controller.                                                    *)
Top ==
    /\ pc = "top" /\ pc' = (IF running THEN "lock" ELSE "ended") /\ ran' = NoRun
    /\ UNCHANGED <<tasks, left, book, since, clock, running, told, woken, alarm, moved>>

\* Mutant of NextTime: the period starts when the task runs.
NextTimeMutant(t) == Period
NextTime(t) == left[t] + Period
\* Mutant of NextCheck: so much later as it is late.
NextCheckMutant(k) == Period + since[k]
NextCheck(k) == Period - since[k]

\* Mutant of TimedOut: at the end of the period, and not after it.
TimedOutMutant(k) == since[k] = Period
(* chrono_task() of a watchdog *)
TimedOut(k) == since[k] > Period

(* The task at the front is due: it runs with the mutex held, and is put back with   *)
(* its new time or removed.  When a watchdog's data is gone it throws, and stays.   *)
Run(t) ==
    /\ pc = "lock" /\ t \in Front /\ left[t] <= 0 /\ pc' = "top"
    /\ IF t \in Watchdog
       THEN /\ left' = [left EXCEPT ![t] = IF Watched[t] \notin store THEN @
                                           ELSE IF TimedOut(Watched[t]) THEN NextTime(t)
                                           ELSE NextCheck(Watched[t])]
            /\ ran' = [task |-> IF Watched[t] \in store THEN t ELSE None,
                       submitted |-> Watched[t] \in store /\ TimedOut(Watched[t])]
            /\ UNCHANGED tasks
       ELSE /\ left' = [left EXCEPT ![t] = IF t \in Every THEN NextTime(t) ELSE 0]
            /\ tasks' = IF t \in Every THEN tasks ELSE tasks \ {t}
            /\ ran' = [task |-> t, submitted |-> TRUE]
    /\ UNCHANGED <<book, since, clock, running, told, woken, alarm, moved>>

(* No task is due: the controller waits to be notified, or for the time, or sleeps   *)
(* or spins with the mutex held.  Only the first two waits look at the flag again.  *)
WaitFor ==
    /\ pc = "lock" /\ \A t \in tasks : left[t] > 0
    /\ LET until == Min({left[t] : t \in tasks}) \div rtf IN
       IF tasks = {} THEN pc' = (IF running THEN "idle" ELSE "top") /\ alarm' = 0
       ELSE IF rtf = 0 THEN pc' = (IF running THEN "paused" ELSE "top") /\ alarm' = 0
       ELSE \/ pc' \in {"wait", "sleep"} /\ alarm' \in 1..until
            \/ pc' = "spin" /\ alarm' = 0
    /\ woken' = FALSE /\ moved' = 0 /\ ran' = NoRun
    /\ UNCHANGED <<tasks, left, book, since, clock, running, told>>

(* The predicates of the waits without a time.                                     *)
Goes == \/ pc = "idle" /\ (~running \/ tasks # {})
        \/ pc = "paused" /\ (~running \/ rtf # 0 \/ moved # 0)

Wake ==
    /\ pc \in {"idle", "paused"} /\ woken /\ woken' = FALSE
    /\ pc' = IF Goes THEN "top" ELSE pc
    /\ moved' = IF Goes THEN 0 ELSE moved
    /\ ran' = NoRun /\ UNCHANGED <<tasks, left, book, since, clock, running, told, alarm>>

(* wait_for() and precise_sleep() are over, or the time is there.                    *)
TimeOver ==
    /\ \/ pc = "wait" /\ (woken \/ alarm = 0)
       \/ pc = "sleep" /\ alarm = 0
       \/ pc = "spin" /\ \E t \in tasks : left[t] <= 0
    /\ pc' = "top" /\ woken' = FALSE /\ alarm' = 0 /\ ran' = NoRun
    /\ UNCHANGED <<tasks, left, book, since, clock, running, told, moved>>

Controller == Top \/ (\E t \in Task : Run(t)) \/ WaitFor \/ Wake \/ TimeOver

Next ==
    \/ Controller \/ Tick \/ Shutdown \/ NotifyShutdown
    \/ \E action \in Action, d \in Jumps, rate \in Rates : TimeTravel(action, d, rate)
    \/ \E t \in Task, delay \in Delays \union {Period} : Add(t, delay)
    \/ \E t \in Task : Unbind(t)
    \/ \E w \in Watchdog : InitStore(w) \/ Forget(w)
    \/ \E k \in Datum : Service(k)
Spec == Init /\ [][Next]_vars

(* Time passes, the thread of the controller runs, and who waits for the mutex to    *)
(* take the task of a watchdog out gets it.                                         *)
FairSpec == Spec /\ WF_vars(Tick) /\ WF_vars(Controller) /\ \A w \in Watchdog : SF_vars(Unbind(w))
-----------------------------------------------------------------------------
TypeOK ==
    /\ tasks \subseteq Task /\ left \in [Task -> (-MaxLate)..MaxLeft]
    /\ bound \in [Task -> {"new", "initialised", "bound", "forgotten", "unbound"}]
    /\ store \subseteq Datum /\ since \in [Datum -> (Period - MaxLeft)..(Period + 1)]
    /\ rtf \in Rates \union {1} /\ travels \in 0..MaxTravels /\ phase \in [Every -> 0..(Period - 1)]
    /\ {running, told, woken} \subseteq BOOLEAN
    /\ pc \in {"top", "lock", "idle", "paused", "wait", "sleep", "spin", "ended"}
    /\ alarm \in 0..MaxLeft /\ moved \in Int /\ moved <= MaxLeft
    /\ ran \in [task : Task \union {None}, submitted : BOOLEAN]

(* on<Every> keeps to its grid: however late the controller is, and wherever the     *)
(* clock is set, the next time is a whole number of periods from the first          *)
(* (Every.hpp:93-102).                                                           *)
NoDrift == \A t \in Every \intersect tasks : (left[t] + phase[t]) % Period = 0

(* A task that is due runs while the clock does: no task that is added, no time       *)
(* travel and no rate leaves the controller waiting for something else              *)
(* (ChronoController.cpp:124-197).  A watchdog whose data is gone throws instead.    *)
Due(t) == t \in tasks /\ left[t] <= 0 /\ running /\ rtf # 0 /\ (t \in Watchdog => bound[t] = "bound")
DueTasksRun == \A t \in Task : Due(t) ~> (ran.task = t \/ ~Due(t))

(* A watchdog that is not serviced for more than its period triggers its reaction,   *)
(* also when the clock was set meanwhile (Watchdog.hpp:265-284).                    *)
Overdue(w) == bound[w] = "bound" /\ w \in tasks /\ running /\ rtf # 0 /\ since[Watched[w]] > Period
WatchdogFires == \A w \in Watchdog :
    Overdue(w) ~> (~Overdue(w) \/ (ran.task = w /\ ran.submitted))
=============================================================================
