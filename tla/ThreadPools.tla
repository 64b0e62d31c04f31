---------------------------- MODULE ThreadPools ----------------------------
(* The scheduler of a PowerPlant (src/nuclear/src/threading/scheduler): pools of *)
(* threads that take tasks from sorted queues, the groups that limit them, the   *)
(* idle tasks, start and stop.                                                   *)
(*                                                                               *)
(* A step is what a thread does between two points where another may act: one    *)
(* critical section of a pool's or a group's mutex, or one operation on an       *)
(* atomic.  ops[t] is the rest of the calls that thread t is in: the next step of *)
(* each call, which when it is taken is replaced by the one after it.             *)
EXTENDS TaskGroups, Sequences, SequencesExt, FiniteSetsExt

CONSTANTS
    Pool, Group, Thread,
    MainThread,      \* the thread that calls PowerPlant::start()
    Home,            \* Home[t]: the pool thread t belongs to
    None,            \* no thread
    Concurrency,     \* of each group
    Groups,          \* Groups[h]: the groups of task h in the order of its std::set
    Target,          \* Target[h]: its pool
    Inline,          \* the tasks that run inline if they can
    Initial,         \* the tasks emitted before start()
    Children,        \* Children[h]: the tasks that task h may emit
    Stoppers,        \* the tasks that may call shutdown()
    Binders,         \* the tasks that may bind and unbind idle tasks
    OnShutdown,      \* the tasks that Shutdown triggers
    Idlers,          \* the idle tasks
    IdlePool,        \* IdlePool[h]: the pool whose idleness runs h, or None: all pools
    CountsForIdle,   \* the pools that count for idle
    Persistent,      \* the pools that outlast a normal stop
    Forces           \* the arguments of shutdown() that may occur

VARIABLES
    group,           \* the state of each group
    pool,            \* the members of each Pool
    activePools,     \* Scheduler::active_pools
    globalIdle,      \* Scheduler::idle_tasks
    made,            \* the keys of Scheduler::pools
    started, running, \* of the Scheduler
    threadIdle,      \* threadIdle[t]: thread_idle holds a lock for t
    pc, stack, ops,  \* where each thread is, the tasks it is in, the rest of its call
    status,          \* history: what became of each task
    terminated       \* an exception left a noexcept function

vars == <<group, pool, activePools, globalIdle, made, started, running, threadIdle,
          pc, stack, ops, status, terminated>>
shared == <<globalIdle, made, started, running, terminated>>

MainPool == Home[MainThread]
Threads(p) == {t \in Thread : Home[t] = p}

ASSUME PoolAssumption ==
    /\ MainThread \in Thread /\ Home \in [Thread -> Pool] /\ None \notin Thread \union Pool
    /\ IsFiniteSet(Thread) /\ Threads(MainPool) = {MainThread}
    /\ Concurrency \in [Group -> Nat \ {0}] /\ Groups \in [Task -> Seq(Group)]
    /\ \A h \in Task : IsInjective(Groups[h])
    /\ Target \in [Task -> Pool] /\ Children \in [Task -> SUBSET Task]
    /\ Idlers \subseteq Task \ Inline /\ OnShutdown \subseteq Task \ Inline

Init ==
    /\ group = [g \in Group |-> NewGroup(Concurrency[g])]
    /\ pool = [p \in Pool |-> [queue |-> {}, live |-> TRUE, accept |-> TRUE,
                               running |-> TRUE, idle |-> p = MainPool /\ p \in CountsForIdle,
                               active |-> 0, owner |-> None, idleTasks |-> {}]]
    /\ activePools = 0 /\ globalIdle = {} /\ made = {MainPool}
    /\ started = FALSE /\ running = TRUE /\ terminated = FALSE
    /\ threadIdle = [t \in Thread |-> FALSE]
    /\ pc = [t \in Thread |-> IF t = MainThread THEN "setup" ELSE "unborn"]
    /\ stack = [t \in Thread |-> <<>>] /\ ops = [t \in Thread |-> <<>>]
    /\ status = [h \in Task |-> "new"]
-----------------------------------------------------------------------------
First(S) == CHOOSE h \in S : \A k \in S \ {h} : Before(h, k)
Sorted(S) == CHOOSE s \in [1..Cardinality(S) -> S] :
                IsInjective(s) /\ \A i, j \in DOMAIN s : i < j => Before(s[i], s[j])
ForEach(s, Do(_)) == [i \in DOMAIN s |-> Do(s[i])]

(* CombinedLock::lock(): the groups s of h that are still to be locked, one after   *)
(* the other, and what is done when all are.                                     *)
\* Mutant of Locks: the first group only.
LocksMutant(h, s, last) == IF Len(s) < Len(Groups[h]) \/ s = <<>> THEN [op |-> last, task |-> h]
                           ELSE [op |-> "lock", task |-> h, groups |-> s, last |-> last]
Locks(h, s, last) == IF s = <<>> THEN [op |-> last, task |-> h]
                     ELSE [op |-> "lock", task |-> h, groups |-> s, last |-> last]

(* The locks of a task that is destroyed, of its groups s.                        *)
Releases(h, s) == IF s = <<>> THEN <<>> ELSE <<[op |-> "release", task |-> h, groups |-> s]>>

(* What get_task() does with one task of the queue.                              *)
Attempt(h) == Locks(h, Groups[h], "take")

(* The last part of submit(): into the queue of the pool.                        *)
Enqueue(h) == [op |-> "ask", next |-> [op |-> "submit", task |-> h, clear |-> TRUE]]

(* Scheduler::submit(), and its part from the handles for the groups s on.         *)
SubmitCall(h) == [op |-> "getpool", task |-> h]
Submission(h, s) == IF s # <<>> THEN [op |-> "insert", task |-> h, groups |-> s]
                    ELSE IF h \in Inline THEN Locks(h, Groups[h], "inline") ELSE Enqueue(h)

(* The notify function of a handle.                                              *)
NotifyCall(h) == [op |-> "ask", next |-> [op |-> "notify", pool |-> Target[h], clear |-> TRUE]]

Op(t, name) == ops[t] # <<>> /\ Head(ops[t]).op = name
Then(t, s) == ops' = [ops EXCEPT ![t] = s \o Tail(@)]

Unlocked(p) == pool[p].owner = None
Waiting(p, at) == {t \in Threads(p) : at[t] = "wait"}

\* Mutants of WakeOne and of WakeAll: nobody is woken.
WakeOneMutant(p, at) == {at}
WakeAllMutant(p, at) == at
(* condition.notify_one() and notify_all(): the program counters after it.        *)
WakeOne(p, at) == IF Waiting(p, at) = {} THEN {at}
                  ELSE {[at EXCEPT ![t] = "woken"] : t \in Waiting(p, at)}
WakeAll(p, at) == [t \in Thread |-> IF t \in Waiting(p, at) THEN "woken" ELSE at[t]]

\* Mutants: the lock is not undone; the last but one is last.
ClearedMutant(P, clear) == 0
IsLastMutant(n) == n <= 1
(* pool_idle = nullptr, if clear: the CountingLock it held is undone.            *)
ClearIdle(P, clear) == [P EXCEPT !.idle = @ /\ ~clear]
Cleared(P, clear) == IF P.idle /\ clear THEN 1 ELSE 0

(* CountingLock::lock(), when its constructor left n in the counter.              *)
IsLast(n) == n = 0
-----------------------------------------------------------------------------
(* Scheduler::get_pool(): a pool that does not exist is made, and started if the  *)
(* scheduler is.  Once it is stopping this throws, out of the noexcept submit().  *)
GetPool(t) ==
    /\ Op(t, "getpool")
    /\ LET h == Head(ops[t]).task
           p == Target[h]
       IN
       /\ Then(t, <<Submission(h, Groups[h])>>)
       /\ \/ p \in made /\ UNCHANGED <<made, pool, pc, terminated>>
          \/ /\ p \notin made /\ ~running
             /\ terminated' = TRUE /\ UNCHANGED <<made, pool, pc>>
          \/ /\ p \notin made /\ running
             /\ made' = made \union {p}
             /\ pool' = [pool EXCEPT ![p].idle = p \in CountsForIdle,
                             ![p].active = IF started /\ p \in CountsForIdle
                                           THEN Cardinality(Threads(p)) ELSE 0]
             /\ pc' = [x \in Thread |-> IF started /\ Home[x] = p THEN "top" ELSE pc[x]]
             /\ UNCHANGED terminated
    /\ UNCHANGED <<group, activePools, globalIdle, started, running, threadIdle, stack, status>>

(* get_groups_lock(): one handle in the queue of each group of the task.         *)
InsertHandle(t) ==
    /\ Op(t, "insert")
    /\ LET o == Head(ops[t]) IN
       /\ group' = [group EXCEPT ![Head(o.groups)] = Insert(@, o.task)]
       /\ Then(t, <<Submission(o.task, Tail(o.groups))>>)
    /\ UNCHANGED <<pool, activePools, shared, threadIdle, pc, stack, status>>

(* One group of CombinedLock::lock().  If it fails the tokens of those before it   *)
(* are kept; submit() queues the task, and get_task() goes on to the next in the   *)
(* queue, whose mutex it holds.                                                  *)
LockGroup(t) ==
    /\ Op(t, "lock")
    /\ LET o == Head(ops[t])
           later == {h \in pool[Home[t]].queue : Before(o.task, h)}
           g == Head(o.groups)
       IN IF Lockable(group[g], o.task)
          THEN /\ group' = [group EXCEPT ![g] = Lock(@, o.task)]
               /\ Then(t, <<Locks(o.task, Tail(o.groups), o.last)>>)
          ELSE /\ Then(t, <<IF o.last = "inline" THEN Enqueue(o.task)
                           ELSE IF later # {} THEN Attempt(First(later)) ELSE [op |-> "idle"]>>)
               /\ UNCHANGED group
    /\ UNCHANGED <<pool, activePools, shared, threadIdle, pc, stack, status>>

(* The end of submit() for a task that got its locks and runs inline.            *)
RunInline(t) ==
    /\ Op(t, "inline") /\ Then(t, <<>>)
    /\ LET h == Head(ops[t]).task IN
       /\ stack' = [stack EXCEPT ![t] = <<h>> \o @]
       /\ status' = [status EXCEPT ![h] = "running"]
    /\ UNCHANGED <<group, pool, activePools, shared, threadIdle, pc>>

(* Pool::current()->is_idle(): what follows clears the other pool's idle state     *)
(* unless this pool is idle.                                                     *)
AskIdle(t) ==
    /\ Op(t, "ask") /\ Unlocked(Home[t])
    /\ Then(t, <<[Head(ops[t]).next EXCEPT !.clear = ~pool[Home[t]].idle]>>)
    /\ UNCHANGED <<group, pool, activePools, shared, threadIdle, pc, stack, status>>

(* Pool::submit(); a task that is not accepted is destroyed with its locks.       *)
SubmitToPool(t) ==
    /\ Op(t, "submit")
    /\ LET o == Head(ops[t])
           p == Target[o.task]
       IN /\ Unlocked(p)
          /\ IF pool[p].accept
             THEN /\ pool' = [pool EXCEPT ![p] = [ClearIdle(pool[p], o.clear) EXCEPT
                                  !.queue = @ \union {o.task}, !.live = TRUE]]
                  /\ activePools' = activePools + Cleared(pool[p], o.clear)
                  /\ pc' \in WakeOne(p, pc)
                  /\ status' = [status EXCEPT ![o.task] = "queued"]
                  /\ Then(t, <<>>)
             ELSE /\ status' = [status EXCEPT ![o.task] = "dropped"]
                  /\ Then(t, Releases(o.task, Groups[o.task]))
                  /\ UNCHANGED <<pool, activePools, pc>>
    /\ UNCHANGED <<group, shared, threadIdle, stack>>

(* ~GroupLock(): the handles that may lock now are notified one after the other.   *)
ReleaseGroup(t) ==
    /\ Op(t, "release")
    /\ LET o == Head(ops[t])
           g == Head(o.groups)
           told == Sorted(Told(Unlock(group[g], o.task)))
       IN /\ group' = [group EXCEPT ![g] = Release(@, o.task)]
          /\ Then(t, ForEach(told, NotifyCall) \o Releases(o.task, Tail(o.groups)))
    /\ UNCHANGED <<pool, activePools, shared, threadIdle, pc, stack, status>>

(* Pool::notify().                                                               *)
Notify(t) ==
    /\ Op(t, "notify") /\ Then(t, <<>>)
    /\ LET o == Head(ops[t]) IN
       /\ Unlocked(o.pool)
       /\ pool' = [pool EXCEPT ![o.pool] = [ClearIdle(pool[o.pool], o.clear) EXCEPT !.live = TRUE]]
       /\ activePools' = activePools + Cleared(pool[o.pool], o.clear)
       /\ pc' \in WakeOne(o.pool, pc)
    /\ UNCHANGED <<group, shared, threadIdle, stack, status>>
-----------------------------------------------------------------------------
(* The head of the loop of get_task(), reached from run() or, after a wake-up      *)
(* whose condition holds, from the wait.  The thread takes the mutex to go through *)
(* the queue, or leaves; the main thread then stops and joins the pools, those     *)
(* that are persistent last.                                                       *)
FinalStops == ForEach(SetToSeq(made \ Persistent) \o SetToSeq(made \intersect Persistent),
                      LAMBDA p : [op |-> "stop", pool |-> p, type |-> "FINAL"])

GetTask(t) ==
    LET p == Home[t]
        P == pool[p]
    IN
    /\ pc[t] \in {"top", "woken"} /\ stack[t] = <<>> /\ ops[t] = <<>> /\ Unlocked(p)
    /\ IF pc[t] = "woken" /\ ~P.live /\ (P.running \/ P.queue # {})
       THEN pc' = [pc EXCEPT ![t] = "wait"] /\ UNCHANGED <<pool, ops>>
       ELSE IF P.running \/ P.queue # {}
       THEN /\ pc' = [pc EXCEPT ![t] = "top"]
            /\ pool' = [pool EXCEPT ![p].owner = t]
            /\ ops' = [ops EXCEPT ![t] = <<IF P.live /\ P.queue # {} THEN Attempt(First(P.queue))
                                           ELSE [op |-> "idle"]>>]
       ELSE /\ pc' = WakeAll(p, [pc EXCEPT ![t] = "exited"])
            /\ ops' = [ops EXCEPT ![t] = IF t = MainThread THEN FinalStops ELSE <<>>]
            /\ UNCHANGED pool
    /\ UNCHANGED <<group, activePools, shared, threadIdle, stack, status>>

(* get_task() returns a task whose locks it got: thread and pool are idle no more. *)
TakeTask(t) ==
    /\ Op(t, "take") /\ Then(t, <<>>)
    /\ LET h == Head(ops[t]).task
           p == Home[t]
       IN /\ pool' = [pool EXCEPT ![p] = [ClearIdle(pool[p], TRUE) EXCEPT !.queue = @ \ {h},
                          !.owner = None, !.active = @ + IF threadIdle[t] THEN 1 ELSE 0]]
          /\ activePools' = activePools + Cleared(pool[p], TRUE)
          /\ threadIdle' = [threadIdle EXCEPT ![t] = FALSE]
          /\ stack' = [stack EXCEPT ![t] = <<h>>]
          /\ status' = [status EXCEPT ![h] = "running"]
    /\ UNCHANGED <<group, shared, pc>>

(* get_idle_task() and the wait: the last thread of a pool to become idle gets the  *)
(* pool's idle tasks, the last pool the global ones.  (Bound: an idle task that     *)
(* was submitted before is not submitted again.)                                   *)
BecomeIdle(t) ==
    LET p == Home[t]
        P == pool[p]
        counts == P.running /\ p \in CountsForIdle
        thread == counts /\ ~threadIdle[t]
        active == P.active - IF thread THEN 1 ELSE 0
        all == counts /\ ~P.idle /\ active = 0
        pools == activePools - IF all THEN 1 ELSE 0
        tasks == (IF thread /\ IsLast(active) THEN P.idleTasks ELSE {})
                 \union (IF all /\ IsLast(pools) THEN globalIdle ELSE {})
        fresh == {h \in tasks : status[h] = "new"}
    IN
    /\ Op(t, "idle")
    /\ pool' = [pool EXCEPT ![p] = [P EXCEPT !.live = FALSE, !.active = active,
                                             !.idle = @ \/ all, !.owner = None]]
    /\ threadIdle' = [threadIdle EXCEPT ![t] = @ \/ thread]
    /\ activePools' = pools
    /\ pc' = [pc EXCEPT ![t] = IF tasks = {} THEN "wait" ELSE "top"]
    /\ Then(t, ForEach(Sorted(fresh), SubmitCall))
    /\ status' = [h \in Task |-> IF h \in fresh THEN "submitted" ELSE status[h]]
    /\ UNCHANGED <<group, shared, stack>>
-----------------------------------------------------------------------------
(* What a running task may do, as may the main thread before start().             *)
InBody(t) == ops[t] = <<>> /\ (stack[t] # <<>> \/ pc[t] = "setup")
BodyIn(t, S) == InBody(t) /\ (stack[t] # <<>> => Head(stack[t]) \in S)
MayEmit(t) == IF stack[t] = <<>> THEN Initial ELSE Children[Head(stack[t])]

Submit(t, h) ==
    /\ InBody(t) /\ h \in MayEmit(t) /\ status[h] = "new"
    /\ ops' = [ops EXCEPT ![t] = <<SubmitCall(h)>>]
    /\ status' = [status EXCEPT ![h] = "submitted"]
    /\ UNCHANGED <<group, pool, activePools, shared, threadIdle, pc, stack>>

(* The task ends and is destroyed, its locks first.                               *)
Finish(t) ==
    /\ stack[t] # <<>> /\ ops[t] = <<>>
    /\ ops' = [ops EXCEPT ![t] = Releases(Head(stack[t]), Groups[Head(stack[t])])]
    /\ stack' = [stack EXCEPT ![t] = Tail(@)]
    /\ status' = [status EXCEPT ![Head(stack[t])] = "done"]
    /\ UNCHANGED <<group, pool, activePools, shared, threadIdle, pc>>

(* add_idle_task() for all pools wakes the main pool; for one pool it wakes one of  *)
(* its threads, but does not set live.                                            *)
AddIdleTask(t, h) ==
    /\ BodyIn(t, Binders) /\ h \in Idlers /\ status[h] = "new"
    /\ IF IdlePool[h] = None
       THEN /\ h \notin globalIdle /\ globalIdle' = globalIdle \union {h}
            /\ ops' = [ops EXCEPT ![t] =
                         <<[op |-> "notify", pool |-> MainPool, clear |-> TRUE]>>]
            /\ UNCHANGED <<pool, pc>>
       ELSE LET p == IdlePool[h] IN
            /\ p \in made /\ Unlocked(p) /\ h \notin pool[p].idleTasks
            /\ pool' = [pool EXCEPT ![p].idleTasks = @ \union {h}]
            /\ IF pool[p].idleTasks = {} THEN pc' \in WakeOne(p, pc) ELSE UNCHANGED pc
            /\ UNCHANGED <<globalIdle, ops>>
    /\ UNCHANGED <<group, activePools, made, started, running, terminated, threadIdle, stack, status>>

(* (Bound: a reaction is bound as an idle task once.)                             *)
RemoveIdleTask(t, h) ==
    /\ BodyIn(t, Binders)
    /\ \/ /\ h \in globalIdle /\ globalIdle' = globalIdle \ {h} /\ UNCHANGED pool
       \/ \E p \in made : /\ Unlocked(p) /\ h \in pool[p].idleTasks
                          /\ pool' = [pool EXCEPT ![p].idleTasks = @ \ {h}]
                          /\ UNCHANGED globalIdle
    /\ status' = [status EXCEPT ![h] = IF @ = "new" THEN "dropped" ELSE @]
    /\ UNCHANGED <<group, activePools, made, started, running, terminated, threadIdle, pc,
                   stack, ops>>

(* Scheduler::start(): the other pools, then the main pool.                       *)
StartPools ==
    /\ pc[MainThread] = "setup" /\ stack[MainThread] = <<>> /\ ops[MainThread] = <<>>
    /\ started' = TRUE
    /\ pool' = [p \in Pool |-> IF p \in made /\ p \in CountsForIdle /\ p # MainPool
                               THEN [pool[p] EXCEPT !.active = Cardinality(Threads(p))]
                               ELSE pool[p]]
    /\ pc' = [t \in Thread |-> IF t = MainThread THEN "starting"
                               ELSE IF Home[t] \in made THEN "top" ELSE pc[t]]
    /\ UNCHANGED <<group, activePools, globalIdle, made, running, terminated, threadIdle,
                   stack, ops, status>>

StartMain ==
    /\ pc[MainThread] = "starting"
    /\ pool' = [pool EXCEPT ![MainPool].active = IF MainPool \in CountsForIdle THEN 1 ELSE 0]
    /\ pc' = [pc EXCEPT ![MainThread] = "top"]
    /\ UNCHANGED <<group, activePools, shared, threadIdle, stack, ops, status>>

(* PowerPlant::shutdown(): emit Shutdown, then Scheduler::stop() for each pool.    *)
Shutdown(t, force) ==
    /\ BodyIn(t, Stoppers) /\ running
    /\ ops' = [ops EXCEPT ![t] =
          ForEach(Sorted({h \in OnShutdown : status[h] = "new"}), SubmitCall)
          \o <<[op |-> "halt", type |-> IF force THEN "FORCE" ELSE "NORMAL"]>>]
    /\ status' = [h \in Task |-> IF h \in OnShutdown /\ status[h] = "new" THEN "submitted"
                                 ELSE status[h]]
    /\ UNCHANGED <<group, pool, activePools, shared, threadIdle, pc, stack>>

Halt(t) ==
    /\ Op(t, "halt") /\ running' = FALSE
    /\ Then(t, ForEach(SetToSeq(made), LAMBDA p : [op |-> "stop", pool |-> p,
                                                  type |-> Head(ops[t]).type]))
    /\ UNCHANGED <<group, pool, activePools, globalIdle, made, started, terminated, threadIdle,
                   pc, stack, status>>

(* Pool::stop(); a forced one destroys the queued tasks, and the locks they hold,   *)
(* before it lets its mutex go; the final one is followed by a join.               *)
StopPool(t) ==
    /\ Op(t, "stop")
    /\ LET o == Head(ops[t])
           p == o.pool
           force == o.type = "FORCE"
           queue == pool[p].queue
           locked == {h \in queue : Groups[h] # <<>>}
       IN /\ Unlocked(p)
          /\ pool' = [pool EXCEPT ![p] = [pool[p] EXCEPT !.live = TRUE, !.accept = p \in Persistent,
                          !.running = o.type = "NORMAL" /\ p \in Persistent,
                          !.queue = IF force THEN {} ELSE @,
                          !.owner = IF force THEN t ELSE None]]
          /\ pc' = IF force THEN pc ELSE WakeAll(p, pc)
          /\ Then(t, IF force THEN Append(ForEach(Sorted(locked), LAMBDA h :
                                             [op |-> "release", task |-> h, groups |-> Groups[h]]),
                                          [op |-> "unlock", pool |-> p])
                     ELSE IF o.type = "FINAL" THEN <<[op |-> "join", pool |-> p]>> ELSE <<>>)
          /\ status' = [h \in Task |-> IF force /\ h \in queue THEN "dropped" ELSE status[h]]
    /\ UNCHANGED <<group, activePools, shared, threadIdle, stack>>

LetGo(t) ==
    /\ Op(t, "unlock") /\ Then(t, <<>>)
    /\ LET p == Head(ops[t]).pool IN
       pool' = [pool EXCEPT ![p].owner = None] /\ pc' = WakeAll(p, pc)
    /\ UNCHANGED <<group, activePools, shared, threadIdle, stack, status>>

Join(t) ==
    /\ Op(t, "join") /\ Then(t, <<>>)
    /\ \A x \in Threads(Head(ops[t]).pool) : pc[x] \in {"exited", "unborn"}
    /\ UNCHANGED <<group, pool, activePools, shared, threadIdle, pc, stack, status>>
-----------------------------------------------------------------------------
(* A step that thread t takes sooner or later if it can.                          *)
Work(t) ==
    \/ GetPool(t) \/ InsertHandle(t) \/ LockGroup(t) \/ RunInline(t) \/ AskIdle(t)
    \/ SubmitToPool(t) \/ ReleaseGroup(t) \/ Notify(t) \/ GetTask(t) \/ TakeTask(t)
    \/ BecomeIdle(t) \/ Finish(t) \/ Halt(t) \/ StopPool(t) \/ LetGo(t) \/ Join(t)

Next ==
    /\ ~terminated
    /\ \/ \E t \in Thread : Work(t)
       \/ \E t \in Thread, h \in Task : Submit(t, h) \/ AddIdleTask(t, h) \/ RemoveIdleTask(t, h)
       \/ \E t \in Thread, force \in Forces : Shutdown(t, force)
       \/ StartPools \/ StartMain

Spec == Init /\ [][Next]_vars

FairSpec == Spec /\ WF_vars(~terminated /\ (StartPools \/ StartMain \/ \E t \in Thread : Work(t)))
-----------------------------------------------------------------------------
Active(h) == \E t \in Thread : Contains(stack[t], h)
Asleep(t) == pc[t] \in {"wait", "exited", "unborn"} /\ ops[t] = <<>>

TypeOK ==
    /\ group \in [Group -> GroupState]
    /\ pool \in [Pool -> [queue : SUBSET Task, live : BOOLEAN, accept : BOOLEAN,
                          running : BOOLEAN, idle : BOOLEAN, active : Nat,
                          owner : Thread \union {None}, idleTasks : SUBSET Idlers]]
    /\ activePools \in Nat /\ globalIdle \subseteq Idlers /\ made \subseteq Pool
    /\ {started, running, terminated} \subseteq BOOLEAN
    /\ threadIdle \in [Thread -> BOOLEAN]
    /\ pc \in [Thread -> {"setup", "starting", "unborn", "top", "wait", "woken", "exited"}]
    /\ stack \in [Thread -> Seq(Task)]
    /\ status \in [Task -> {"new", "submitted", "queued", "running", "done", "dropped"}]

(* No token of a group is lost or made: what is not free is held by a handle in    *)
(* its queue, whatever threads lock, release, submit and stop at the same time.    *)
TokensAddUp == \A g \in Group :
    /\ group[g].tokens >= 0
    /\ group[g].locked \subseteq group[g].queue
    /\ IsFiniteSet(group[g].queue)
    /\ group[g].tokens + Cardinality(group[g].locked) = Concurrency[g]

(* "Only N task(s) from the group will execute at a given time" (Group.hpp:38),     *)
(* whether they run inline or from a pool.                                        *)
GroupConcurrency == \A g \in Group :
    Cardinality({h \in Task : Active(h) /\ Contains(Groups[h], g)}) <= Concurrency[g]

(* Nothing is left behind: when every thread sleeps or has ended, no task is in a    *)
(* queue.  A notification that is lost, or goes to the wrong pool, breaks it, as    *)
(* does a thread that ends too early.  (A persistent pool whose threads a forced    *)
(* stop has ended keeps accepting tasks, which nobody runs.)                       *)
NothingLeft == started /\ ~terminated /\ (\A t \in Thread : Asleep(t)) =>
    \A h \in Task : status[h] = "queued" =>
        Target[h] \in Persistent /\ ~pool[Target[h]].running

(* When the idle tasks of all pools are submitted, nothing else is going on: no task *)
(* is in execution in any pool that counts for idle.                              *)
IdleMeansIdle == [][\A t \in Thread : \A h \in globalIdle :
    BecomeIdle(t) /\ status[h] = "new" /\ status'[h] = "submitted" =>
        \A p \in made \intersect CountsForIdle, k \in Task :
           Target[k] = p => ~(\E x \in Threads(p) : Contains(stack[x], k))]_vars

(* A thread waits for a mutex it holds itself.                                    *)
SelfLocked == \E t \in Thread :
    \/ Op(t, "ask") /\ pool[Home[t]].owner = t
    \/ Op(t, "notify") /\ pool[Head(ops[t]).pool].owner = t

(* A stop ends all threads, unless a forced one has locked itself out.              *)
StopEnds == ~running ~> \/ \A t \in Thread : pc[t] \in {"exited", "unborn"}
                        \/ terminated \/ SelfLocked

(* Idle tasks of all pools that are bound before the start are run some time, or the *)
(* system is stopped.                                                             *)
IdleTasksRun == \A h \in {k \in Idlers : IdlePool[k] = None} :
    h \in globalIdle ~> (status[h] # "new" \/ h \notin globalIdle \/ ~running)
=============================================================================
