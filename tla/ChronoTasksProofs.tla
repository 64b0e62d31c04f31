------------------------- MODULE ChronoTasksProofs -------------------------
(* on<Every> keeps its grid for any number of tasks, any period, any rate of the clock  *)
(* and any travels in time; and every variable of ChronoTasks keeps to its type, the    *)
(* times of the tasks and of the data within their bounds.                              *)
EXTENDS ChronoTasks, WellFoundedInduction, TLAPS

Phase == {"new", "initialised", "bound", "forgotten", "unbound"}

Types ==
    /\ tasks \subseteq Task
    /\ left \in [Task -> Int] /\ \A t \in Task : left[t] >= -MaxLate
    /\ bound \in [Task -> Phase] /\ since \in [Datum -> Int]
    /\ rtf \in Nat /\ phase \in [Every -> Int]

(* Before a task of on<Every> is bound the clock has not moved for it.                *)
NewUnmoved == \A t \in Every : bound[t] = "new" => t \notin tasks /\ phase[t] = 0

Inv == Types /\ NewUnmoved /\ NoDrift
-----------------------------------------------------------------------------
(* Division with a remainder.                                                      *)
LEMMA Division ==
  ASSUME NEW P \in Nat \ {0}, NEW x \in Int
  PROVE /\ x = P * (x \div P) + (x % P)
        /\ x % P \in 0..(P - 1) /\ x \div P \in Int
  BY SMT

LEMMA MultipleOnly ==
  ASSUME NEW P \in Nat \ {0}, NEW q \in Int, NEW k \in Int, NEW r \in 0..(P - 1), P * q + r = P * k
  PROVE r = 0
<1>1. P * (k - q) = r
  BY SMT
<1>2. k - q <= 0 \/ k - q >= 1
  BY SMT
<1>3. k - q >= 1 => P * (k - q) >= P
  BY SMT
<1>4. k - q <= -1 => P * (k - q) <= -P
  BY SMT
<1>5. QED
  BY <1>1, <1>2, <1>3, <1>4, SMT

(* The multiples of P are those without a remainder.                                *)
LEMMA MultipleOfPeriod ==
  ASSUME NEW P \in Nat \ {0}, NEW k \in Int
  PROVE (P * k) % P = 0
<1> DEFINE x == P * k
<1>1. x \in Int
  BY SMT
<1>2. x = P * (x \div P) + (x % P) /\ x % P \in 0..(P - 1) /\ x \div P \in Int
  BY <1>1, Division
<1>3. QED
  BY <1>2, MultipleOnly

(* A period later is on the grid as well.                                          *)
LEMMA PeriodLater ==
  ASSUME NEW P \in Nat \ {0}, NEW x \in Int, x % P = 0
  PROVE (x + P) % P = 0
<1>1. x \div P \in Int /\ x = P * (x \div P)
  BY Division
<1>2. x + P = P * ((x \div P) + 1)
  BY <1>1, SMT
<1> DEFINE k == (x \div P) + 1
<1>3. k \in Int /\ x + P = P * k
  BY <1>1, <1>2
<1> HIDE DEF k
<1>4. (P * k) % P = 0
  BY <1>3, MultipleOfPeriod
<1>5. QED
  BY <1>3, <1>4

(* What the clock moves is taken from the time that is left and added to the phase.    *)
LEMMA MoveAlongGrid ==
  ASSUME NEW P \in Nat \ {0}, NEW l \in Int, NEW p \in Int, NEW d \in Int, (l + p) % P = 0
  PROVE  (p + d) % P \in Int /\ ((l - d) + ((p + d) % P)) % P = 0
<1> DEFINE m == (l + p) \div P
           n == (p + d) \div P
           r == (p + d) % P
<1>1. m \in Int /\ l + p = P * m
  BY Division
<1>2. n \in Int /\ r \in Int /\ p + d = P * n + r
  BY Division
<1> HIDE DEF m, n, r
<1>3. (l - d) + r = P * m - P * n
  BY <1>1, <1>2, SMT
<1>4. P * m - P * n = P * (m - n)
  BY <1>1, <1>2, SMT
<1>5. ((l - d) + r) % P = 0
  <2>1. m - n \in Int
    BY <1>1, <1>2
  <2>2. (P * (m - n)) % P = 0
    BY <2>1, MultipleOfPeriod
  <2>3. QED
    BY <1>3, <1>4, <2>2
<1>6. QED
  BY <1>2, <1>5 DEF r
-----------------------------------------------------------------------------
(* Times that are bounded below have an earliest one.                               *)
Less == {ss \in Nat \X Nat : ss[1] < ss[2]}

LEMMA Earliest ==
  ASSUME NEW S, S \subseteq Int, S # {}, NEW b \in Int, \A x \in S : x >= b
  PROVE Min(S) \in S /\ \A y \in S : Min(S) <= y
<1> DEFINE R == {x - b : x \in S}
<1>1. IsWellFoundedOn(Less, Nat)
  BY NatLessThanWellFounded DEF OpToRel, Less
<1>2. R \subseteq Nat /\ R # {}
  <2>1. \A x \in S : x - b \in Nat
    BY SMT
  <2>2. PICK x : x \in S
    OBVIOUS
  <2>3. x - b \in R
    BY <2>2
  <2>4. QED
    BY <2>1, <2>3
<1> HIDE DEF R
<1>3. \E x \in R : \A y \in R : ~ (<<y, x>> \in Less)
  BY <1>1, <1>2, WFMin
<1>4. \A x, y \in Nat : ~ (<<y, x>> \in Less) => x =< y
  BY DEF Less
<1>5. PICK m \in R : \A y \in R : m =< y
  BY <1>2, <1>3, <1>4
<1>6. PICK x \in S : m = x - b
  BY <1>5 DEF R
<1>7. \A y \in S : x =< y
  <2> SUFFICES ASSUME NEW y \in S PROVE x =< y
    OBVIOUS
  <2>1. m =< y - b
    BY <1>5 DEF R
  <2>2. x \in Int /\ y \in Int
    OBVIOUS
  <2>3. QED
    BY <1>6, <2>1, <2>2
<1>8. \E z \in S : \A y \in S : z =< y
  BY <1>7
<1>9. QED
  BY <1>8 DEF Min

LEMMA MinOfTwo == ASSUME NEW a \in Int, NEW b \in Int PROVE Min({a, b}) \in Int
<1>1. \E z \in {a, b} : \A y \in {a, b} : z =< y
  BY SMT
<1>2. Min({a, b}) \in {a, b}
  BY <1>1 DEF Min
<1>3. QED
  BY <1>2

(* NEAREST goes to some time.                                                      *)
LEMMA NearestIsTime ==
  ASSUME Types, NEW d \in Int
  PROVE Nearest(d) \in Int
<1> DEFINE S == {d} \union {left[t] : t \in tasks}
           b == IF d < -MaxLate THEN d ELSE -MaxLate
<1>1. MaxLate \in Nat
  BY ChronoAssumption
<1>2. \A t \in tasks : left[t] \in Int /\ left[t] >= -MaxLate
  BY DEF Types
<1>3. S \subseteq Int /\ S # {}
  BY <1>2
<1>4. b \in Int /\ \A x \in S : x >= b
  BY <1>1, <1>2
<1> HIDE DEF b
<1>5. Min(S) \in S
  BY <1>3, <1>4, Earliest
<1>6. QED
  BY <1>3, <1>5 DEF Nearest
-----------------------------------------------------------------------------
LEMMA InitInv == Init => Inv
<1> SUFFICES ASSUME Init PROVE Inv
  OBVIOUS
<1>1. Types
  BY ChronoAssumption DEF Init, Types, Phase
<1>2. NewUnmoved
  BY DEF Init, NewUnmoved
<1>3. NoDrift
  BY DEF Init, NoDrift
<1>4. QED
  BY <1>1, <1>2, <1>3 DEF Inv

(* The clock moves; the tasks stay where they are, or all move along.                *)
LEMMA MovesKeeps ==
  ASSUME Inv, NEW T, T = tasks \/ T = {}, NEW d \in Int, Moves(T, d),
         tasks' = tasks, bound' = bound, rtf' \in Nat
  PROVE Inv'
<1>1. /\ Period \in Nat \ {0} /\ MaxLate \in Nat /\ MaxLeft \in Nat /\ Every \subseteq Task
  BY ChronoAssumption DEF Task
<1>2. /\ left \in [Task -> Int] /\ phase \in [Every -> Int] /\ since \in [Datum -> Int]
      /\ T \subseteq Task /\ \A t \in Task : left[t] >= -MaxLate
  BY DEF Inv, Types
<1>3. /\ left' = [t \in Task |-> IF t \in T THEN left[t] - d ELSE left[t]]
      /\ phase' = [t \in Every |-> IF t \in T THEN (phase[t] + d) % Period ELSE phase[t]]
      /\ \A t \in T : left'[t] \in (-MaxLate)..MaxLeft
      /\ since' = [k \in Datum |->
                     IF k \in store THEN Min({since[k] + d, Period + 1}) ELSE since[k]]
  BY DEF Moves
<1>4. since' \in [Datum -> Int]
  <2>1. \A k \in Datum : Min({since[k] + d, Period + 1}) \in Int /\ since[k] \in Int
    <3> SUFFICES ASSUME NEW k \in Datum
                 PROVE Min({since[k] + d, Period + 1}) \in Int /\ since[k] \in Int
      OBVIOUS
    <3>1. since[k] \in Int
      BY <1>2
    <3>2. since[k] + d \in Int /\ Period + 1 \in Int
      BY <1>1, <3>1
    <3>3. QED
      BY <3>1, <3>2, MinOfTwo
  <2>2. QED
    BY <1>3, <2>1
<1>5. left' \in [Task -> Int] /\ \A t \in Task : left'[t] >= -MaxLate
  <2>1. left' \in [Task -> Int]
    BY <1>2, <1>3
  <2> SUFFICES ASSUME NEW t \in Task PROVE left'[t] >= -MaxLate
    BY <2>1
  <2>2. CASE t \in T
    BY <1>1, <1>3, <2>2, SMT
  <2>3. CASE t \notin T
    <3>1. left'[t] = left[t]
      BY <1>3, <2>3
    <3>2. QED
      BY <1>2, <3>1
  <2>4. QED
    BY <2>2, <2>3
<1>6. phase' \in [Every -> Int]
  <2>1. \A t \in Every : (phase[t] + d) % Period \in Int /\ phase[t] \in Int
    BY <1>1, <1>2, Division
  <2>2. QED
    BY <1>3, <2>1
<1>7. Types'
  BY <1>4, <1>5, <1>6 DEF Inv, Types
<1>8. NewUnmoved'
  <2>1. \A t \in Every : bound[t] = "new" => t \notin tasks /\ phase[t] = 0 /\ t \notin T
    BY DEF Inv, NewUnmoved
  <2>2. \A t \in Every : t \notin T => phase'[t] = phase[t]
    BY <1>3
  <2>3. QED
    BY <2>1, <2>2 DEF NewUnmoved
<1>9. NoDrift'
  <2> SUFFICES ASSUME NEW t \in Every, t \in tasks
               PROVE (left'[t] + phase'[t]) % Period = 0
    BY DEF NoDrift
  <2>1. left[t] \in Int /\ phase[t] \in Int /\ (left[t] + phase[t]) % Period = 0
    BY <1>1, <1>2 DEF Inv, NoDrift
  <2>2. CASE t \in T
    <3>1. left'[t] = left[t] - d /\ phase'[t] = (phase[t] + d) % Period
      BY <1>1, <1>3, <2>2
    <3>2. ((left[t] - d) + ((phase[t] + d) % Period)) % Period = 0
      BY <1>1, <2>1, MoveAlongGrid
    <3>3. QED
      BY <3>1, <3>2
  <2>3. CASE t \notin T
    <3>1. left'[t] = left[t] /\ phase'[t] = phase[t]
      BY <1>1, <1>3, <2>3
    <3>2. QED
      BY <2>1, <3>1
  <2>4. QED
    BY <2>2, <2>3
<1>10. QED
  BY <1>7, <1>8, <1>9 DEF Inv

LEMMA AddKeeps == ASSUME Inv, NEW t \in Task, NEW delay, Add(t, delay) PROVE Inv'
<1>1. /\ Period \in Nat \ {0} /\ MaxLate \in Nat /\ Every \subseteq Task /\ Delays \subseteq Nat
      /\ Every \intersect Delay = {} /\ Every \intersect Watchdog = {}
  BY ChronoAssumption DEF Task
<1>2. /\ Ready(t) /\ delay \in Ahead(t) /\ bound' = [bound EXCEPT ![t] = "bound"]
      /\ tasks' = (IF running THEN tasks \union {t} ELSE tasks)
      /\ left' = (IF running THEN [left EXCEPT ![t] = delay] ELSE left)
      /\ since' = since /\ rtf' = rtf /\ phase' = phase
  BY DEF Add, clock
<1>3. /\ left \in [Task -> Int] /\ phase \in [Every -> Int] /\ bound \in [Task -> Phase]
      /\ \A u \in Task : left[u] >= -MaxLate
  BY DEF Inv, Types
<1>4. delay \in Int /\ delay >= -MaxLate
  BY <1>1, <1>2 DEF Ahead
<1>5. Types'
  <2>1. left' \in [Task -> Int] /\ \A u \in Task : left'[u] >= -MaxLate
    BY <1>2, <1>3, <1>4
  <2>2. tasks' \subseteq Task
    BY <1>2 DEF Inv, Types
  <2>3. bound' \in [Task -> Phase]
    BY <1>2, <1>3 DEF Phase
  <2>4. QED
    BY <1>2, <2>1, <2>2, <2>3 DEF Inv, Types
<1>6. NewUnmoved'
  <2> SUFFICES ASSUME NEW u \in Every, bound'[u] = "new"
               PROVE u \notin tasks' /\ phase'[u] = 0
    BY DEF NewUnmoved
  <2>1. u # t /\ bound[u] = "new"
    BY <1>1, <1>2, <1>3
  <2>2. u \notin tasks /\ phase[u] = 0
    BY <2>1 DEF Inv, NewUnmoved
  <2>3. QED
    BY <1>2, <2>1, <2>2
<1>7. NoDrift'
  <2> SUFFICES ASSUME NEW u \in Every, u \in tasks'
               PROVE (left'[u] + phase'[u]) % Period = 0
    BY DEF NoDrift
  <2>1. CASE u = t /\ running
    <3>1. bound[t] = "new" /\ delay = Period
      BY <1>1, <1>2, <2>1 DEF Ready, Ahead
    <3>2. phase[t] = 0
      BY <2>1, <3>1 DEF Inv, NewUnmoved
    <3>3. left'[u] = Period /\ phase'[u] = 0
      BY <1>2, <1>3, <2>1, <3>1, <3>2
    <3>4. 0 % Period = 0 /\ 0 \in Int
      BY <1>1, MultipleOfPeriod
    <3>5. (0 + Period) % Period = 0
      BY <1>1, <3>4, PeriodLater
    <3>6. QED
      BY <1>1, <3>3, <3>5
  <2>2. CASE ~(u = t /\ running)
    <3>1. u \in tasks /\ left'[u] = left[u] /\ phase'[u] = phase[u]
      BY <1>1, <1>2, <1>3, <2>2
    <3>2. QED
      BY <3>1 DEF Inv, NoDrift
  <2>3. QED
    BY <2>1, <2>2
<1>8. QED
  BY <1>5, <1>6, <1>7 DEF Inv

LEMMA UnbindKeeps == ASSUME Inv, NEW t \in Task, Unbind(t) PROVE Inv'
<1>1. MaxLate \in Nat /\ Every \subseteq Task
  BY ChronoAssumption DEF Task
<1>2. /\ bound' = [bound EXCEPT ![t] = "unbound"] /\ tasks' = tasks \ {t}
      /\ left' = [left EXCEPT ![t] = 0]
      /\ since' = since /\ rtf' = rtf /\ phase' = phase
  BY DEF Unbind, clock
<1>3. Types'
  BY <1>1, <1>2 DEF Inv, Types, Phase
<1>4. NewUnmoved'
  BY <1>1, <1>2 DEF Inv, Types, NewUnmoved
<1>5. NoDrift'
  <2>1. \A u \in Every \intersect tasks' : u \in tasks /\ left'[u] = left[u]
    BY <1>1, <1>2 DEF Inv, Types
  <2>2. QED
    BY <1>2, <2>1 DEF Inv, NoDrift
<1>6. QED
  BY <1>3, <1>4, <1>5 DEF Inv

(* Only the service times and the states of watchdogs change.                        *)
LEMMA WatchdogsAlone ==
  ASSUME Inv, tasks' = tasks, left' = left, phase' = phase, rtf' = rtf,
         since' \in [Datum -> Int], bound' \in [Task -> Phase],
         \A t \in Every : bound'[t] = bound[t]
  PROVE Inv'
<1>1. Types'
  BY DEF Inv, Types
<1>2. NewUnmoved'
  BY DEF Inv, NewUnmoved
<1>3. NoDrift'
  BY DEF Inv, NoDrift
<1>4. QED
  BY <1>1, <1>2, <1>3 DEF Inv

LEMMA RunKeeps == ASSUME Inv, NEW t \in Task, Run(t) PROVE Inv'
<1>1. /\ Period \in Nat \ {0} /\ MaxLate \in Nat /\ Every \subseteq Task
      /\ Every \intersect Watchdog = {} /\ Watched \in [Watchdog -> Datum]
  BY ChronoAssumption DEF Task
<1>2. bound' = bound /\ since' = since /\ rtf' = rtf /\ phase' = phase
  BY DEF Run, book, clock
<1>3. /\ left \in [Task -> Int] /\ phase \in [Every -> Int] /\ since \in [Datum -> Int]
      /\ \A u \in Task : left[u] >= -MaxLate
      /\ \A u \in Every \intersect tasks : (left[u] + phase[u]) % Period = 0
  BY DEF Inv, Types, NoDrift
<1>4. tasks' \subseteq tasks /\ t \in tasks
  BY DEF Run, Front
<1>5. PICK x : left' = [left EXCEPT ![t] = x] /\ x \in Int /\ x >= -MaxLate
                 /\ (t \in Every => x = left[t] + Period)
  <2>1. left[t] \in Int /\ left[t] >= -MaxLate
    BY <1>3
  <2>2. CASE t \in Watchdog
    <3>1. since[Watched[t]] \in Int
      BY <1>1, <1>3, <2>2
    <3> DEFINE y == IF Watched[t] \notin store THEN left[t]
                    ELSE IF TimedOut(Watched[t]) THEN NextTime(t) ELSE NextCheck(Watched[t])
    <3>2. left' = [left EXCEPT ![t] = y]
      BY <2>2 DEF Run
    <3>3. y \in Int /\ y >= -MaxLate
      BY <1>1, <2>1, <3>1 DEF TimedOut, NextTime, NextCheck
    <3> HIDE DEF y
    <3>4. QED
      BY <1>1, <2>2, <3>2, <3>3
  <2>3. CASE t \notin Watchdog
    <3> DEFINE y == IF t \in Every THEN NextTime(t) ELSE 0
    <3>1. left' = [left EXCEPT ![t] = y]
      BY <2>3 DEF Run
    <3>2. y \in Int /\ y >= -MaxLate /\ (t \in Every => y = left[t] + Period)
      BY <1>1, <2>1 DEF NextTime
    <3> HIDE DEF y
    <3>3. QED
      BY <3>1, <3>2
  <2>4. QED
    BY <2>2, <2>3
<1>6. left' \in [Task -> Int] /\ \A u \in Task : left'[u] >= -MaxLate
  BY <1>3, <1>5
<1>7. Types'
  BY <1>2, <1>4, <1>6 DEF Inv, Types
<1>8. NewUnmoved'
  BY <1>2, <1>4 DEF Inv, NewUnmoved
<1>9. NoDrift'
  <2> SUFFICES ASSUME NEW u \in Every, u \in tasks'
               PROVE (left'[u] + phase'[u]) % Period = 0
    BY DEF NoDrift
  <2>1. left[u] \in Int /\ phase[u] \in Int /\ (left[u] + phase[u]) % Period = 0
    BY <1>1, <1>3, <1>4
  <2>2. CASE u = t
    <3>1. left'[u] = left[u] + Period
      BY <1>3, <1>5, <2>2
    <3>2. ((left[u] + phase[u]) + Period) % Period = 0
      BY <1>1, <2>1, PeriodLater
    <3>3. left'[u] + phase'[u] = (left[u] + phase[u]) + Period
      BY <1>1, <1>2, <2>1, <3>1
    <3>4. QED
      BY <3>2, <3>3
  <2>3. CASE u # t
    <3>1. left'[u] = left[u]
      BY <1>1, <1>3, <1>5, <2>3
    <3>2. QED
      BY <1>2, <2>1, <3>1
  <2>4. QED
    BY <2>2, <2>3
<1>10. QED
  BY <1>7, <1>8, <1>9 DEF Inv

LEMMA NextInv == Inv /\ [Next]_vars => Inv'
<1> SUFFICES ASSUME Inv, [Next]_vars PROVE Inv'
  OBVIOUS
<1> DEFINE Same == /\ tasks' = tasks /\ left' = left /\ phase' = phase /\ rtf' = rtf
                   /\ since' = since /\ bound' = bound
<1>0. since \in [Datum -> Int] /\ bound \in [Task -> Phase] /\ rtf \in Nat
  BY DEF Inv, Types
<1>1. ASSUME Same PROVE Inv'
  BY <1>0, <1>1, WatchdogsAlone
<1>2. CASE Tick
  <2>1. Moves(tasks, rtf) /\ tasks' = tasks /\ bound' = bound /\ rtf' = rtf
    BY <1>2 DEF Tick, book
  <2>2. rtf \in Int
    BY <1>0
  <2>3. QED
    BY <1>0, <2>1, <2>2, MovesKeeps
<1>3. ASSUME NEW action \in Action, NEW d \in Jumps, NEW rate \in Rates, TimeTravel(action, d, rate)
      PROVE Inv'
  <2> DEFINE T == Staying(action)
             by == IF action = "NEAREST" THEN Nearest(d) ELSE d
  <2>1. d \in Int /\ rate \in Nat
    BY ChronoAssumption
  <2>2. by \in Int
    BY <2>1, NearestIsTime DEF Inv
  <2>3. T = tasks \/ T = {}
    BY DEF Staying
  <2>4. Moves(T, by) /\ tasks' = tasks /\ bound' = bound /\ rtf' = rate
    BY <1>3 DEF TimeTravel, SetClock, book
  <2> HIDE DEF T, by
  <2>5. QED
    BY <2>1, <2>2, <2>3, <2>4, MovesKeeps
<1>4. ASSUME NEW t \in Task, NEW delay, Add(t, delay) PROVE Inv'
  BY <1>4, AddKeeps
<1>5. ASSUME NEW t \in Task, Unbind(t) PROVE Inv'
  BY <1>5, UnbindKeeps
<1>6. ASSUME NEW w \in Watchdog, InitStore(w) \/ Forget(w) PROVE Inv'
  <2>1. Every \subseteq Task /\ Every \intersect Watchdog = {}
    BY ChronoAssumption DEF Task
  <2>2. tasks' = tasks /\ left' = left /\ phase' = phase /\ rtf' = rtf
    BY <1>6 DEF InitStore, Forget, clock
  <2>3. since' \in [Datum -> Int]
    BY <1>0, <1>6 DEF InitStore, Forget
  <2>4. bound' \in [Task -> Phase] /\ \A t \in Every : bound'[t] = bound[t]
    BY <1>0, <1>6, <2>1 DEF InitStore, Forget, Phase
  <2>5. QED
    BY <2>2, <2>3, <2>4, WatchdogsAlone
<1>7. ASSUME NEW k \in Datum, Service(k) PROVE Inv'
  <2>1. tasks' = tasks /\ left' = left /\ phase' = phase /\ rtf' = rtf /\ bound' = bound
    BY <1>7 DEF Service, clock, book
  <2>2. since' \in [Datum -> Int]
    BY <1>0, <1>7 DEF Service
  <2>3. QED
    BY <1>0, <2>1, <2>2, WatchdogsAlone
<1>8. CASE Shutdown \/ NotifyShutdown
  BY <1>1, <1>8 DEF Shutdown, NotifyShutdown, book, clock
<1>9. CASE Top \/ WaitFor \/ Wake \/ TimeOver
  BY <1>1, <1>9 DEF Top, WaitFor, Wake, TimeOver, book, clock
<1>10. ASSUME NEW t \in Task, Run(t) PROVE Inv'
  BY <1>10, RunKeeps
<1>11. CASE UNCHANGED vars
  BY <1>1, <1>11 DEF vars, book, clock
<1>12. QED
  BY <1>2, <1>3, <1>4, <1>5, <1>6, <1>7, <1>8, <1>9, <1>10, <1>11 DEF Next, Controller

(* on<Every> keeps to its grid: whatever tasks there are, however late the controller   *)
(* runs them and wherever the clock is set or how fast it runs, the next time of a        *)
(* task is a whole number of periods from the first (Every.hpp:93-102).              *)
THEOREM EveryKeepsItsGrid == Spec => []NoDrift
<1>1. Init => Inv
  BY InitInv
<1>2. Inv /\ [Next]_vars => Inv'
  BY NextInv
<1>3. Inv => NoDrift
  BY DEF Inv
<1>4. QED
  BY <1>1, <1>2, <1>3, PTL DEF Spec
-----------------------------------------------------------------------------
(* The types, within the bounds of the runs: a watchdog's next check is as far ahead as   *)
(* its service time is late, and a wait no longer than what is left of some task.          *)
Since == (Period - MaxLeft)..(Period + 1)
Waits == alarm \in 0..MaxLeft /\ moved \in Int /\ moved <= MaxLeft
Lefts == left \in [Task -> (-MaxLate)..MaxLeft]
Sinces == since \in [Datum -> Since]
Clocks == /\ rtf \in Rates \union {1} /\ travels \in 0..MaxTravels
          /\ phase \in [Every -> 0..(Period - 1)]
Books == /\ tasks \subseteq Task /\ bound \in [Task -> Phase] /\ store \subseteq Datum
Flags == /\ running \in BOOLEAN /\ told \in BOOLEAN /\ woken \in BOOLEAN
         /\ pc \in {"top", "lock", "idle", "paused", "wait", "sleep", "spin", "ended"}
         /\ ran \in [task : Task \union {None}, submitted : BOOLEAN]
Typed == Lefts /\ Sinces /\ Clocks /\ Books /\ Flags /\ Waits

LEMMA Bounds ==
  /\ Period \in Nat \ {0} /\ MaxLeft \in Nat /\ MaxLate \in Nat /\ MaxTravels \in Nat
  /\ Period <= MaxLeft /\ Delays \subseteq 0..MaxLeft /\ Rates \subseteq Nat /\ Jumps \subseteq Int
  /\ Watched \in [Watchdog -> Datum] /\ Every \subseteq Task /\ Watchdog \subseteq Task
  /\ Every \intersect Watchdog = {}
  BY ChronoAssumption, BoundAssumption DEF Task

LEMMA MinIs ==
  ASSUME NEW a \in Int, NEW b \in Int
  PROVE  Min({a, b}) = IF a <= b THEN a ELSE b
<1> DEFINE m == IF a <= b THEN a ELSE b
<1>1. m \in {a, b} /\ \A y \in {a, b} : m =< y
  BY SMT
<1>2. \A x \in {a, b} : (\A y \in {a, b} : x =< y) => x = m
  BY SMT
<1> HIDE DEF m
<1>3. Min({a, b}) = m
  BY <1>1, <1>2 DEF Min
<1>4. QED
  BY <1>3 DEF m

LEMMA MaxIs ==
  ASSUME NEW a \in Int, NEW b \in Int
  PROVE  Max({a, b}) = IF a >= b THEN a ELSE b
<1> DEFINE m == IF a >= b THEN a ELSE b
<1>1. m \in {a, b} /\ \A y \in {a, b} : m >= y
  BY SMT
<1>2. \A x \in {a, b} : (\A y \in {a, b} : x >= y) => x = m
  BY SMT
<1> HIDE DEF m
<1>3. Max({a, b}) = m
  BY <1>1, <1>2 DEF Max
<1>4. QED
  BY <1>3 DEF m

(* A quotient of what is positive is no greater.                                      *)
LEMMA QuotientBound ==
  ASSUME NEW n \in Nat, NEW r \in Nat \ {0} PROVE n \div r \in Int /\ n \div r <= n
<1> DEFINE q == n \div r
<1>1. q \in Int /\ n = r * q + (n % r) /\ n % r >= 0
  BY Division
<1> HIDE DEF q
<1>2. q >= 1 => r * q >= q
  BY <1>1, SMT
<1>3. q <= n
  BY <1>1, <1>2, SMT
<1>4. QED
  BY <1>1, <1>3 DEF q

LEMMA TypedInit == Init => Typed
<1> SUFFICES ASSUME Init PROVE Typed
  OBVIOUS
<1>1. Lefts /\ Sinces
  BY Bounds DEF Init, Lefts, Sinces, Since
<1>2. Clocks /\ Books
  BY Bounds DEF Init, Clocks, Books, Phase
<1>3. Flags
  BY DEF Init, Flags, NoRun
<1>4. Waits
  BY Bounds DEF Init, Waits
<1>5. QED
  BY <1>1, <1>2, <1>3, <1>4 DEF Typed

LEMMA MovesTyped ==
  ASSUME Typed, NEW T, NEW d \in Int, Moves(T, d)
  PROVE  /\ Lefts' /\ Sinces' /\ phase' \in [Every -> 0..(Period - 1)]
         /\ moved' \in Int /\ moved' <= MaxLeft
<1>1. Lefts'
  <2>1. \A t \in Task : t \notin T => left'[t] = left[t]
    BY DEF Moves
  <2>2. \A t \in Task : left'[t] \in (-MaxLate)..MaxLeft
    BY <2>1 DEF Moves, Typed, Lefts
  <2>3. left' = [t \in Task |-> left'[t]]
    BY DEF Moves
  <2>4. QED
    BY <2>2, <2>3 DEF Lefts
<1>2. Sinces'
  <2>1. ASSUME NEW k \in Datum
        PROVE  since'[k] \in Since
    <3>1. since[k] \in Int /\ since[k] >= Period - MaxLeft /\ since[k] <= Period + 1
      BY Bounds DEF Typed, Sinces, Since
    <3>2. since'[k] = IF k \in store THEN Min({since[k] + d, Period + 1}) ELSE since[k]
      BY DEF Moves
    <3>3. CASE k \notin store
      BY <3>1, <3>2, <3>3, Bounds DEF Since
    <3>4. CASE k \in store
      <4>1. d < 0 => since[k] + d >= Period - MaxLeft
        BY <3>4 DEF Moves
      <4>2. since[k] + d \in Int /\ Period + 1 \in Int
        BY <3>1, Bounds
      <4>3. Min({since[k] + d, Period + 1}) = IF since[k] + d <= Period + 1 THEN since[k] + d ELSE Period + 1
        BY <4>2, MinIs
      <4>4. QED
        BY <3>1, <3>2, <3>4, <4>1, <4>3, Bounds DEF Since
    <3>5. QED
      BY <3>3, <3>4
  <2>2. since' = [k \in Datum |-> since'[k]]
    BY DEF Moves
  <2>3. QED
    BY <2>1, <2>2 DEF Sinces
<1>3. phase' \in [Every -> 0..(Period - 1)]
  <2>1. ASSUME NEW t \in Every
        PROVE  phase[t] \in 0..(Period - 1) /\ (phase[t] + d) % Period \in 0..(Period - 1)
    <3>1. phase[t] \in 0..(Period - 1)
      BY DEF Typed, Clocks
    <3>2. phase[t] + d \in Int
      BY <3>1
    <3>3. QED
      BY <3>1, <3>2, Bounds, Division
  <2>2. QED
    BY <2>1 DEF Moves
<1>4. moved' \in Int /\ moved' <= MaxLeft
  <2>1. moved \in Int /\ moved <= MaxLeft /\ MaxLeft \in Int /\ moved + d \in Int
    BY Bounds DEF Typed, Waits
  <2>2. Min({moved + d, MaxLeft}) = IF moved + d <= MaxLeft THEN moved + d ELSE MaxLeft
    BY <2>1, MinIs
  <2>3. moved' = IF pc = "paused" THEN Min({moved + d, MaxLeft}) ELSE 0
    BY DEF Moves
  <2>4. QED
    BY <2>1, <2>2, <2>3, Bounds
<1>5. QED
  BY <1>1, <1>2, <1>3, <1>4

LEMMA TickTyped == ASSUME Inv, Typed, Tick PROVE Typed'
<1>1. rtf \in Int /\ alarm \in 0..MaxLeft
  BY Bounds DEF Typed, Clocks, Waits
<1>2. /\ Lefts' /\ Sinces' /\ phase' \in [Every -> 0..(Period - 1)]
      /\ moved' \in Int /\ moved' <= MaxLeft
  BY <1>1, MovesTyped DEF Tick
<1>3. alarm' \in 0..MaxLeft
  <2>1. alarm' = Max({0, alarm - 1})
    BY DEF Tick
  <2>2. Max({0, alarm - 1}) = IF 0 >= alarm - 1 THEN 0 ELSE alarm - 1
    BY <1>1, MaxIs
  <2>3. QED
    BY <1>1, <2>1, <2>2, Bounds
<1>4. Waits'
  BY <1>2, <1>3 DEF Waits
<1>5. Clocks'
  BY <1>2 DEF Typed, Clocks, Tick
<1>6. Books' /\ Flags'
  BY DEF Typed, Books, Flags, Tick, NoRun, book
<1>7. QED
  BY <1>2, <1>4, <1>5, <1>6 DEF Typed

LEMMA TravelTyped ==
  ASSUME Inv, Typed, NEW action \in Action, NEW d \in Jumps, NEW rate \in Rates,
         TimeTravel(action, d, rate)
  PROVE  Typed'
<1> DEFINE T == Staying(action)
           by == IF action = "NEAREST" THEN Nearest(d) ELSE d
<1>1. by \in Int
  <2>1. d \in Int
    BY Bounds
  <2>2. QED
    BY <2>1, NearestIsTime DEF Inv
<1>2. Moves(T, by) /\ rtf' = rate
  BY DEF TimeTravel, SetClock
<1> HIDE DEF T, by
<1>3. /\ Lefts' /\ Sinces' /\ phase' \in [Every -> 0..(Period - 1)]
      /\ moved' \in Int /\ moved' <= MaxLeft
  BY <1>1, <1>2, MovesTyped
<1>4. Waits'
  BY <1>3 DEF Typed, Waits, TimeTravel
<1>5. Clocks'
  <2>1. travels' \in 0..MaxTravels
    BY Bounds DEF Typed, Clocks, TimeTravel
  <2>2. QED
    BY <1>2, <1>3, <2>1 DEF Clocks
<1>6. Books' /\ Flags'
  BY DEF Typed, Books, Flags, TimeTravel, NoRun, book, Notified
<1>7. QED
  BY <1>3, <1>4, <1>5, <1>6 DEF Typed

LEMMA AddTyped == ASSUME Typed, NEW t \in Task, NEW delay, Add(t, delay) PROVE Typed'
<1>1. delay \in (-MaxLate)..MaxLeft
  <2>1. delay \in 0..MaxLeft
    BY Bounds DEF Add, Ahead
  <2>2. QED
    BY <2>1, Bounds
<1>2. Lefts'
  BY <1>1 DEF Typed, Lefts, Add
<1>3. Books'
  BY DEF Typed, Books, Add, Phase
<1>4. Flags'
  BY DEF Typed, Flags, Add, NoRun, Notified
<1>5. Sinces' /\ Clocks' /\ Waits'
  BY DEF Typed, Sinces, Since, Clocks, Waits, Add, clock
<1>6. QED
  BY <1>2, <1>3, <1>4, <1>5 DEF Typed

LEMMA UnbindTyped == ASSUME Typed, NEW t \in Task, Unbind(t) PROVE Typed'
<1>1. Lefts'
  BY Bounds DEF Typed, Lefts, Unbind
<1>2. Books'
  BY DEF Typed, Books, Unbind, Phase
<1>3. Flags'
  BY DEF Typed, Flags, Unbind, NoRun, Notified
<1>4. Sinces' /\ Clocks' /\ Waits'
  BY DEF Typed, Sinces, Since, Clocks, Waits, Unbind, clock
<1>5. QED
  BY <1>1, <1>2, <1>3, <1>4 DEF Typed

LEMMA StoreTyped ==
  ASSUME Typed, NEW w \in Watchdog, InitStore(w) \/ Forget(w) PROVE Typed'
<1>1. Watched[w] \in Datum /\ w \in Task
  BY Bounds
<1>2. Sinces'
  BY <1>1, Bounds DEF Typed, Sinces, Since, InitStore, Forget
<1>3. Books'
  BY <1>1 DEF Typed, Books, InitStore, Forget, Phase
<1>4. Flags'
  <2>1. UNCHANGED <<running, told, pc, woken>> /\ ran' = NoRun
    BY DEF InitStore, Forget, ctrl
  <2>2. QED
    BY <2>1 DEF Typed, Flags, NoRun
<1>5. Lefts' /\ Clocks' /\ Waits'
  BY DEF Typed, Lefts, Clocks, Waits, InitStore, Forget, clock, ctrl
<1>6. QED
  BY <1>2, <1>3, <1>4, <1>5 DEF Typed

LEMMA ServiceTyped == ASSUME Typed, NEW k \in Datum, Service(k) PROVE Typed'
<1>1. Sinces'
  BY Bounds DEF Typed, Sinces, Since, Service
<1>2. Flags'
  BY DEF Typed, Flags, Service, NoRun, ctrl
<1>3. Lefts' /\ Books' /\ Clocks' /\ Waits'
  BY DEF Typed, Lefts, Books, Clocks, Waits, Service, clock, ctrl, book
<1>4. QED
  BY <1>1, <1>2, <1>3 DEF Typed

(* A task that was due is put back no farther ahead than MaxLeft: a period from when it    *)
(* was due, or a period from the service that its watchdog got.                         *)
LEMMA RunTyped == ASSUME Typed, NEW t \in Task, Run(t) PROVE Typed'
<1>1. left[t] \in (-MaxLate)..MaxLeft /\ left[t] <= 0
  BY DEF Typed, Lefts, Run
<1>2. NextTime(t) \in (-MaxLate)..MaxLeft
  BY <1>1, Bounds DEF NextTime
<1>3. CASE t \in Watchdog
  <2> DEFINE k == Watched[t]
             y == IF k \notin store THEN left[t] ELSE IF TimedOut(k) THEN NextTime(t) ELSE NextCheck(k)
  <2>1. since[k] \in Since
    BY <1>3, Bounds DEF Typed, Sinces
  <2>2. ~TimedOut(k) => NextCheck(k) \in (-MaxLate)..MaxLeft
    BY <2>1, Bounds DEF TimedOut, NextCheck, Since
  <2>3. y \in (-MaxLate)..MaxLeft
    BY <1>1, <1>2, <2>2
  <2>4. left' = [left EXCEPT ![t] = y] /\ tasks' = tasks
    BY <1>3 DEF Run
  <2>5. ran' \in [task : Task \union {None}, submitted : BOOLEAN]
    <3> DEFINE a == IF k \in store THEN t ELSE None
               b == k \in store /\ TimedOut(k)
    <3>1. ran' = [task |-> a, submitted |-> b]
      BY <1>3 DEF Run
    <3>2. a \in Task \union {None} /\ b \in BOOLEAN
      OBVIOUS
    <3> HIDE DEF a, b
    <3>3. QED
      BY <3>1, <3>2
  <2> HIDE DEF y
  <2>6. Lefts'
    BY <2>3, <2>4 DEF Typed, Lefts
  <2>7. Flags'
    <3>1. UNCHANGED <<running, told, woken>> /\ pc' = "top"
      BY DEF Run
    <3>2. QED
      BY <2>5, <3>1 DEF Typed, Flags
  <2>8. Sinces' /\ Clocks' /\ Books' /\ Waits'
    BY <2>4 DEF Typed, Sinces, Since, Clocks, Books, Waits, Run, clock, book
  <2>9. QED
    BY <2>6, <2>7, <2>8 DEF Typed
<1>4. CASE t \notin Watchdog
  <2>1. Lefts'
    <3> DEFINE y == IF t \in Every THEN NextTime(t) ELSE 0
    <3>1. y \in (-MaxLate)..MaxLeft
      BY <1>2, Bounds
    <3>2. left' = [left EXCEPT ![t] = y]
      BY <1>4 DEF Run
    <3> HIDE DEF y
    <3>3. QED
      BY <3>1, <3>2 DEF Typed, Lefts
  <2>2. Flags'
    <3>1. UNCHANGED <<running, told, woken>> /\ pc' = "top" /\ ran' = [task |-> t, submitted |-> TRUE]
      BY <1>4 DEF Run
    <3>2. QED
      BY <3>1 DEF Typed, Flags
  <2>3. Books'
    BY <1>4 DEF Typed, Books, Run, book
  <2>4. Sinces' /\ Clocks' /\ Waits'
    BY DEF Typed, Sinces, Since, Clocks, Waits, Run, clock
  <2>5. QED
    BY <2>1, <2>2, <2>3, <2>4 DEF Typed
<1>5. QED
  BY <1>3, <1>4

LEMMA WaitTyped == ASSUME Typed, WaitFor PROVE Typed'
<1>1. alarm' \in 0..MaxLeft
  <2> DEFINE L == {left[t] : t \in tasks}
             until == Min(L) \div rtf
  <2>1. alarm' = 0 \/ (tasks # {} /\ rtf # 0 /\ alarm' \in 1..until)
    BY DEF WaitFor
  <2>2. CASE alarm' = 0
    BY <2>2, Bounds
  <2>3. CASE tasks # {} /\ rtf # 0 /\ alarm' \in 1..until
    <3>1. \A t \in tasks : left[t] \in (-MaxLate)..MaxLeft /\ left[t] > 0
      BY DEF Typed, Books, Lefts, WaitFor
    <3>2. L \subseteq Int /\ L # {} /\ \A x \in L : x >= 1 /\ x <= MaxLeft
      BY <2>3, <3>1, Bounds
    <3> HIDE DEF L
    <3>3. Min(L) \in L
      <4>1. 1 \in Int /\ \A x \in L : x >= 1
        BY <3>2
      <4>2. QED
        BY <3>2, <4>1, Earliest
    <3>4. Min(L) \in Nat /\ Min(L) <= MaxLeft
      <4>1. PICK m : m = Min(L)
        OBVIOUS
      <4>2. m \in Int /\ m >= 1 /\ m <= MaxLeft
        BY <3>2, <3>3, <4>1
      <4>3. m \in Nat /\ m <= MaxLeft
        BY <4>2
      <4>4. QED
        BY <4>1, <4>3
    <3>5. rtf \in Nat \ {0}
      BY <2>3, Bounds DEF Typed, Clocks
    <3>6. until \in Int /\ until <= Min(L)
      BY <3>4, <3>5, QuotientBound
    <3> HIDE DEF until
    <3>7. QED
      BY <2>3, <3>4, <3>6, Bounds
  <2>4. QED
    BY <2>1, <2>2, <2>3
<1>2. Waits'
  BY <1>1, Bounds DEF Waits, WaitFor
<1>3. Flags'
  BY DEF Typed, Flags, WaitFor, NoRun
<1>4. Lefts' /\ Sinces' /\ Clocks' /\ Books'
  BY DEF Typed, Lefts, Sinces, Since, Clocks, Books, WaitFor, clock, book
<1>5. QED
  BY <1>2, <1>3, <1>4 DEF Typed

LEMMA LoopTyped == ASSUME Typed, Top \/ Wake \/ TimeOver PROVE Typed'
<1>1. Waits'
  BY Bounds DEF Typed, Waits, Top, Wake, TimeOver
<1>2. Flags'
  <2>1. UNCHANGED <<running, told>> /\ ran' = NoRun /\ (woken' = woken \/ woken' = FALSE)
    BY DEF Top, Wake, TimeOver
  <2>2. pc' \in {"top", "lock", "ended"} \/ pc' = pc
    BY DEF Top, Wake, TimeOver
  <2>3. QED
    BY <2>1, <2>2 DEF Typed, Flags, NoRun
<1>3. Lefts' /\ Sinces' /\ Clocks' /\ Books'
  BY DEF Typed, Lefts, Sinces, Since, Clocks, Books, Top, Wake, TimeOver, clock, book
<1>4. QED
  BY <1>1, <1>2, <1>3 DEF Typed

LEMMA ShutdownTyped == ASSUME Typed, Shutdown \/ NotifyShutdown PROVE Typed'
<1>1. Flags'
  <2>1. CASE Shutdown
    <3>1. UNCHANGED <<told, pc, woken>> /\ running' = FALSE /\ ran' = NoRun
      BY <2>1 DEF Shutdown, ctrl
    <3>2. QED
      BY <3>1 DEF Typed, Flags, NoRun
  <2>2. CASE NotifyShutdown
    <3>1. UNCHANGED <<running, pc>> /\ told' = TRUE /\ woken' = Notified /\ ran' = NoRun
      BY <2>2 DEF NotifyShutdown
    <3>2. Notified \in BOOLEAN
      BY DEF Typed, Flags, Notified
    <3>3. QED
      BY <3>1, <3>2 DEF Typed, Flags, NoRun
  <2>3. QED
    BY <2>1, <2>2
<1>2. Lefts' /\ Sinces' /\ Clocks' /\ Books' /\ Waits'
  BY DEF Typed, Lefts, Sinces, Since, Clocks, Books, Waits, Shutdown, NotifyShutdown, clock, book, ctrl
<1>3. QED
  BY <1>1, <1>2 DEF Typed

LEMMA NextTyped == Inv /\ Typed /\ [Next]_vars => Typed'
<1> SUFFICES ASSUME Inv, Typed, [Next]_vars PROVE Typed'
  OBVIOUS
<1>1. CASE UNCHANGED vars
  <2>1. Lefts' /\ Sinces' /\ Clocks' /\ Books' /\ Waits'
    BY <1>1 DEF Typed, Lefts, Sinces, Since, Clocks, Books, Waits, vars, clock, book, ctrl
  <2>2. Flags'
    BY <1>1 DEF Typed, Flags, vars, ctrl
  <2>3. QED
    BY <2>1, <2>2 DEF Typed
<1>2. ASSUME NEW action \in Action, NEW d \in Jumps, NEW rate \in Rates, TimeTravel(action, d, rate)
      PROVE Typed'
  BY <1>2, TravelTyped
<1>3. ASSUME NEW t \in Task, NEW delay, Add(t, delay) PROVE Typed'
  BY <1>3, AddTyped
<1>4. ASSUME NEW t \in Task, Unbind(t) \/ Run(t) PROVE Typed'
  BY <1>4, UnbindTyped, RunTyped
<1>5. ASSUME NEW w \in Watchdog, InitStore(w) \/ Forget(w) PROVE Typed'
  BY <1>5, StoreTyped
<1>6. ASSUME NEW k \in Datum, Service(k) PROVE Typed'
  BY <1>6, ServiceTyped
<1>7. CASE Tick
  BY <1>7, TickTyped
<1>8. CASE Shutdown \/ NotifyShutdown
  BY <1>8, ShutdownTyped
<1>9. CASE WaitFor
  BY <1>9, WaitTyped
<1>10. CASE Top \/ Wake \/ TimeOver
  BY <1>10, LoopTyped
<1>11. QED
  BY <1>1, <1>2, <1>3, <1>4, <1>5, <1>6, <1>7, <1>8, <1>9, <1>10 DEF Next, Controller

(* Every variable keeps its type, and the bounds on times are kept although nothing guards   *)
(* them where a task is put back: what the controller computes (ChronoController.cpp:124-197,   *)
(* Watchdog.hpp:265-284) is never farther ahead than what it started from.                *)
THEOREM TimesKeepTheirTypes == Spec => []TypeOK
<1>1. Typed => TypeOK
  <2> SUFFICES ASSUME Typed PROVE TypeOK
    OBVIOUS
  <2>1. /\ tasks \subseteq Task /\ left \in [Task -> (-MaxLate)..MaxLeft]
        /\ bound \in [Task -> {"new", "initialised", "bound", "forgotten", "unbound"}]
        /\ store \subseteq Datum /\ since \in [Datum -> (Period - MaxLeft)..(Period + 1)]
    BY DEF Typed, Lefts, Books, Phase, Sinces, Since
  <2>2. rtf \in Rates \union {1} /\ travels \in 0..MaxTravels /\ phase \in [Every -> 0..(Period - 1)]
    BY DEF Typed, Clocks
  <2>3. {running, told, woken} \subseteq BOOLEAN
    BY DEF Typed, Flags
  <2>4. /\ pc \in {"top", "lock", "idle", "paused", "wait", "sleep", "spin", "ended"}
        /\ ran \in [task : Task \union {None}, submitted : BOOLEAN]
        /\ alarm \in 0..MaxLeft /\ moved \in Int /\ moved <= MaxLeft
    BY DEF Typed, Flags, Waits
  <2>5. QED
    BY <2>1, <2>2, <2>3, <2>4 DEF TypeOK
<1>2. QED
  BY <1>1, InitInv, NextInv, TypedInit, NextTyped, PTL DEF Spec
=============================================================================
