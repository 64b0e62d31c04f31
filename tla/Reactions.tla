----------------------------- MODULE Reactions -----------------------------
(* Reactions and their tasks: how an emit, a network packet, or a reaction of        *)
(* on<Always> makes tasks (CallbackGenerator.hpp, Local.hpp, Inline.hpp,            *)
(* NetworkController.cpp), what data a task is given (CacheGet.hpp, Network.hpp,      *)
(* Last.hpp), when it is dropped (Buffer.hpp, check_data), and what happens when its  *)
(* callback returns or throws (Once.hpp, Always.hpp, TaskScope.hpp).                *)
(*                                                                               *)
(* Each thread has a stack of what it is doing: an emit offers its datum to one       *)
(* reaction after the other, a task that is inline runs on top of the emit, and its    *)
(* callback may emit again.  A thread takes a task of the highest priority in its pool;  *)
(* which of them is left open, and groups are in ThreadPools.                         *)
(* A datum is the number of the emit that made it, 0 stands for a null pointer.       *)
EXTENDS Integers, Sequences, FiniteSets, SequencesExt, Words

CONSTANTS
    Type,                 \* the types of data
    Installed,            \* the reactions, in the order they were bound
    Sentence,             \* the words of each
    Emits,                \* what its callback emits
    Scopes,               \* whether a type is emitted inline, or with Scope::LOCAL
    Throws, Handled,      \* whose callback may throw; which are disabled, enabled and unbound
    Thread, Outside,      \* the threads; those that emit without a task
    Default, Serves,      \* the default pool; the pool of a thread
    MaxEmits              \* Bound: the number of emits and packets

None == "none"
Reaction == Range(Installed)
Gives == [r \in Reaction |-> Gets(Sentence[r])]
Remote == {T \in Type : \E r \in Reaction : T \in Of(Sentence[r], {"Network"})}
AlwaysOn == {r \in Reaction : Find(Sentence[r], {"Always"}) # <<>>}

(* TypeBind, and NetworkListen for on<Network>: the reactions of a type.              *)
Bound(T) == SelectSeq(Installed, LAMBDA r : T \in Triggers(Sentence[r]))

ASSUME ReactionsAssumption ==
    /\ IsInjective(Installed) /\ MaxEmits \in Nat /\ Outside \subseteq Thread
    /\ \A r \in Reaction : Sensible(Sentence[r]) /\ Triggers(Sentence[r]) \subseteq Type
    /\ Emits \in [Reaction -> SUBSET Type] /\ Scopes \in [Type -> SUBSET BOOLEAN]
    /\ Throws \union Handled \subseteq Reaction
    \* With a Buffer an on<Always> would not go on, for its idle task is active too; one
    \* that is given data is left out.
    /\ \A r \in AlwaysOn : Gives[r] = <<>> /\ Of(Sentence[r], {"Buffer", "Once"}) = {}
    /\ \A r \in AlwaysOn : Cardinality({t \in Thread : Serves[t] = r}) = 1

(* What the compiler makes of the sentences: Buffer takes a number, a word that gives data *)
(* names a type of data, and Last a number; lists and post_run are put together from the  *)
(* reactions and the words that there are.                                         *)
ASSUME SentenceAssumption ==
    /\ None \notin Type /\ \A T \in Type : Bound(T) \in Seq(Reaction)
    /\ \A r \in Reaction :
          /\ Of(Sentence[r], {"Buffer", "Once"}) \subseteq Nat
          /\ PostRuns(Sentence[r]) \in Seq(Range(Sentence[r])) /\ Gives[r] \in Seq(Range(Sentence[r]))
          /\ \A i \in DOMAIN Gives[r] : LET give == Gives[r][i] IN
                give.keep \in Nat /\ give.of \in Type /\ (give.word = "Network" => give.of \in Remote)

VARIABLES
    list,      \* list[T]: the reactions that T triggers (TypeCallbackStore, or NetworkListen)
    enabled,
    active,    \* active_tasks
    store,     \* the newest datum of each type (DataStore)
    cell,      \* cell[t][T]: the datum thread t is emitting (ThreadStore)
    mem,       \* mem[r][i]: what r keeps of its i-th datum for the next task (transients)
    queue,     \* the tasks submitted to a pool
    stack,     \* what each thread is doing, innermost last
    current,   \* the frame of the current_task of a thread, or 0
    scope,     \* the frame of the task that set TaskScope, or 0
    holder,    \* who has the reaction_mutex of the NetworkController
    emits,     \* the number of emits so far
    crashed    \* an iterator was used after its vector changed

data == <<store, mem, emits>>
words == <<list, enabled>>
running == <<current, scope>>
vars == <<words, active, data, cell, queue, stack, running, holder, crashed>>

AlwaysTask(r, idle) == [r |-> r, seen |-> <<>>, type |-> None, datum |-> 0, idle |-> idle]

(* on<...>().then(): each reaction is put in the lists of its types, and on<Always>     *)
(* submits its task and its idle task.                                            *)
Init ==
    /\ list = [T \in Type |-> Bound(T)]
    /\ enabled = [r \in Reaction |-> TRUE]
    /\ active = [r \in Reaction |-> IF r \in AlwaysOn THEN 2 ELSE 0]
    /\ store = [T \in Type |-> 0] /\ cell = [t \in Thread |-> store]
    /\ mem = [r \in Reaction |-> [i \in DOMAIN Gives[r] |-> <<>>]]
    /\ queue = {AlwaysTask(r, idle) : r \in AlwaysOn, idle \in BOOLEAN}
    /\ stack = [t \in Thread |-> <<>>] /\ current = [t \in Thread |-> 0] /\ scope = current
    /\ holder = None /\ emits = 0 /\ crashed = FALSE
-----------------------------------------------------------------------------
Top(t) == Last(stack[t])
Doing(t, kind) == stack[t] # <<>> /\ Top(t).kind = kind
At(t, kind, stage) == Doing(t, kind) /\ Top(t).stage = stage
Push(t, f) == stack' = [stack EXCEPT ![t] = Append(@, f)]
Pop(t) == stack' = [stack EXCEPT ![t] = Front(@)]
Replace(t, f) == stack' = [stack EXCEPT ![t] = Append(Front(@), f)]

(* What a thread may emit: anything from outside, and in a callback what that emits.  *)
MayEmit(t, T) ==
    /\ emits < MaxEmits
    /\ \/ t \in Outside /\ stack[t] = <<>>
       \/ At(t, "run", "body") /\ ~Top(t).task.idle /\ T \in Emits[Top(t).task.r]

Loop(T, inline) ==
    [kind |-> "emit", type |-> T, datum |-> emits + 1, inline |-> inline, at |-> 1, end |-> Len(list[T])]
Making(r, inline, stage) == [kind |-> "make", r |-> r, inline |-> inline, stage |-> stage]

(* emit<Scope::LOCAL> and emit<Scope::INLINE>                                        *)
Emit(t, T, inline) ==
    /\ T \notin Remote /\ inline \in Scopes[T] /\ MayEmit(t, T) /\ Push(t, Loop(T, inline)) /\ emits' = emits + 1
    /\ UNCHANGED <<words, active, store, mem, cell, queue, running, holder, crashed>>

(* The packet callback: as an emit, with the mutex held.                            *)
Packet(t, T) ==
    /\ T \in Remote /\ t \in Outside /\ stack[t] = <<>> /\ emits < MaxEmits /\ holder = None
    /\ holder' = t /\ Push(t, Loop(T, FALSE)) /\ emits' = emits + 1
    /\ UNCHANGED <<words, active, store, mem, cell, queue, running, crashed>>

\* Mutant of Cell: the datum is put in the cell for the first reaction only.
CellMutant(t, f) == IF f.at = 1 THEN [cell EXCEPT ![t][f.type] = f.datum] ELSE cell
(* Set for each reaction: a task that ran inline may have emitted the same type.     *)
Cell(t, f) == [cell EXCEPT ![t][f.type] = f.datum]

(* The next reaction is offered the datum.  The loop walks the vector as it is now up *)
(* to the end that it had: past the new end there is no reaction any more.            *)
Offer(t) ==
    /\ Doing(t, "emit") /\ Top(t).at <= Top(t).end
    /\ LET f == Top(t) IN
       IF f.at > Len(list[f.type])
       THEN crashed' = TRUE /\ UNCHANGED <<cell, stack>>
       ELSE /\ cell' = Cell(t, f) /\ UNCHANGED crashed
            /\ stack' = [stack EXCEPT ![t] = Front(@) \o <<[f EXCEPT !.at = @ + 1],
                                                  Making(list[f.type][f.at], f.inline, "new")>>]
    /\ UNCHANGED <<words, active, data, queue, running, holder>>

(* All were offered it; it goes to the store, and a packet lets go of the mutex.       *)
EndEmit(t) ==
    /\ Doing(t, "emit") /\ Top(t).at > Top(t).end
    /\ LET f == Top(t) IN
       /\ cell' = [cell EXCEPT ![t][f.type] = 0]
       /\ store' = IF f.type \in Remote THEN store ELSE [store EXCEPT ![f.type] = f.datum]
       /\ holder' = IF f.type \in Remote THEN None ELSE holder
    /\ Pop(t) /\ UNCHANGED <<words, active, mem, emits, queue, running, crashed>>
-----------------------------------------------------------------------------
(* get_task(), and the constructor of the task.                                    *)
New(t) ==
    /\ At(t, "make", "new")
    /\ LET f == Top(t) IN
       IF enabled[f.r] THEN Replace(t, [f EXCEPT !.stage = "check"]) /\ active' = [active EXCEPT ![f.r] = @ + 1]
       ELSE Pop(t) /\ UNCHANGED active
    /\ UNCHANGED <<words, data, cell, queue, running, holder, crashed>>

\* Mutant of Precondition: the task that asks counts as one of the others.
PreconditionMutant(r) == Preconditions(Sentence[r], active[r] - 1)
(* The task that asks is counted.                                                  *)
Precondition(r) == Preconditions(Sentence[r], active[r])

Check(t) ==
    /\ At(t, "make", "check")
    /\ LET f == Top(t) IN
       IF Precondition(f.r) THEN Replace(t, [f EXCEPT !.stage = "get"]) /\ UNCHANGED active
       ELSE Pop(t) /\ active' = [active EXCEPT ![f.r] = @ - 1]
    /\ UNCHANGED <<words, data, cell, queue, running, holder, crashed>>

(* CacheGet: what this thread is emitting goes before what was emitted last.  Network: *)
(* the packet that this thread hands out, whatever the type it was sent as.           *)
Handing(t) == Max({0} \union {cell[t][T] : T \in Remote})
Cached(t, T) == IF cell[t][T] # 0 THEN cell[t][T] ELSE store[T]
Got(t, w) == IF w.word = "Network" THEN Handing(t) ELSE Cached(t, w.of)

(* merge_transients: Last keeps n data, also null ones, and Network one.              *)
Lasts(s, n) == SubSeq(s, Max({1, Len(s) - n + 1}), Len(s))
Merged(kept, got, w) ==
    IF w.keep > 0 THEN Lasts(Append(kept, got), w.keep)
    ELSE IF Transient(w) /\ got = 0 /\ kept # <<>> THEN kept ELSE <<got>>
Kept(seen, w) == IF Transient(w) THEN seen ELSE <<>>

(* An Optional says that it has a value also when that is a null pointer, and a Last       *)
(* when it has an element, whatever that is.                                        *)
Given(seen, w) == w.optional \/ w.keep > 0 \/ seen # <<0>>
Complete(r, seen) == \A i \in DOMAIN seen : Given(seen[i], Gives[r][i])

RunsInline(r, inline) ==
    RunInline(Sentence[r]) = "ALWAYS" \/ (RunInline(Sentence[r]) = "NEUTRAL" /\ inline)

(* TaskScope remembers the task, and which one it was before.                        *)
Entered(t, k, n) == [scope EXCEPT ![t] = IF Scoped(Sentence[k.r]) /\ ~k.idle THEN n ELSE @]
(* run() makes the task the current one of its thread, and its scope is entered.      *)
Runs(t, k, below) ==
    LET n == Len(below) + 1 IN
    /\ stack' = [stack EXCEPT ![t] = Append(below, [kind |-> "run", task |-> k, stage |-> "body", todo |-> <<>>,
                                                   current |-> current[t], scope |-> scope[t]])]
    /\ current' = [current EXCEPT ![t] = n]
    /\ scope' = Entered(t, k, n)

(* The data is there: the task runs here and now, or is queued.                      *)
Get(t) ==
    /\ At(t, "make", "get")
    /\ LET f == Top(t)  below == Front(stack[t])
           seen == [i \in DOMAIN Gives[f.r] |-> Merged(mem[f.r][i], Got(t, Gives[f.r][i]), Gives[f.r][i])]
           from == IF below # <<>> /\ Last(below).kind = "emit" THEN Last(below) ELSE [type |-> None, datum |-> 0]
           k == [r |-> f.r, seen |-> seen, type |-> from.type, datum |-> from.datum, idle |-> FALSE]
       IN
       /\ mem' = [mem EXCEPT ![f.r] = [i \in DOMAIN seen |-> Kept(seen[i], Gives[f.r][i])]]
       /\ \/ /\ ~Complete(f.r, seen) /\ active' = [active EXCEPT ![f.r] = @ - 1] /\ Pop(t)
             /\ UNCHANGED <<queue, running>>
          \/ /\ Complete(f.r, seen) /\ RunsInline(f.r, f.inline) /\ Runs(t, k, below)
             /\ UNCHANGED <<queue, active>>
          \/ /\ Complete(f.r, seen) /\ ~RunsInline(f.r, f.inline) /\ queue' = queue \union {k} /\ Pop(t)
             /\ UNCHANGED <<active, running>>
    /\ UNCHANGED <<words, store, emits, cell, holder, crashed>>

(* The pool of a task, and its priority: that of an idle task is one less.            *)
Waits(k, t) == Serves[t] = PoolOf(Sentence[k.r], k.r, Default)
TaskPriority(k) == PriorityOf(Sentence[k.r]) - (IF k.idle THEN 1 ELSE 0)

(* A thread of the pool takes a task.                                              *)
Take(t, k) ==
    /\ stack[t] = <<>> /\ k \in queue /\ Waits(k, t)
    /\ \A q \in queue : Waits(q, t) => TaskPriority(q) <= TaskPriority(k)
    /\ queue' = queue \ {k} /\ Runs(t, k, <<>>)
    /\ UNCHANGED <<words, active, data, cell, holder, crashed>>
-----------------------------------------------------------------------------
(* The callback returns, and post_run comes next; it throws, and nothing does.        *)
Stage(t, stage, todo) == Replace(t, [Top(t) EXCEPT !.stage = stage, !.todo = todo])
Return(t) ==
    /\ At(t, "run", "body") /\ ~Top(t).task.idle /\ Stage(t, "post", PostRuns(Sentence[Top(t).task.r]))
    /\ UNCHANGED <<words, active, data, cell, queue, running, holder, crashed>>
Throw(t) ==
    /\ At(t, "run", "body") /\ ~Top(t).task.idle /\ Top(t).task.r \in Throws /\ Stage(t, "post", <<>>)
    /\ UNCHANGED <<words, active, data, cell, queue, running, holder, crashed>>
Post(t, word) == At(t, "run", "post") /\ Top(t).todo # <<>> /\ Head(Top(t).todo).word = word

(* Reaction::unbind(): out of every list, in which it is once; that of network types is  *)
(* behind the mutex.                                                               *)
Erased(s, r) == IF Contains(s, r) THEN RemoveAt(s, CHOOSE i \in DOMAIN s : s[i] = r) ELSE s
Unlist(r) ==
    /\ Triggers(Sentence[r]) \intersect Remote # {} => holder = None
    /\ list' = [T \in Type |-> Erased(list[T], r)]
    /\ enabled' = [enabled EXCEPT ![r] = @ /\ r \notin AlwaysOn]

OnceUnbinds(t) ==
    /\ Post(t, "Once") /\ Unlist(Top(t).task.r) /\ Stage(t, "post", Tail(Top(t).todo))
    /\ UNCHANGED <<active, data, cell, queue, running, holder, crashed>>

(* The next task of on<Always>, from post_run of the last or from the idle task, ...   *)
Makes(t, f) == stack' = [stack EXCEPT ![t] = Front(@) \o <<f, Making(f.task.r, FALSE, "new")>>]
Resubmit(t) ==
    /\ \/ Post(t, "Always") /\ Makes(t, [Top(t) EXCEPT !.todo = Tail(@)])
       \/ At(t, "run", "body") /\ Top(t).task.idle /\ Makes(t, [Top(t) EXCEPT !.stage = "idle"])
    /\ UNCHANGED <<words, active, data, cell, queue, running, holder, crashed>>

\* Mutant of Idles: the idle task is there once.
IdlesMutant(r) == {}
(* ... which submits another idle task after it.                                    *)
Idles(r) == {AlwaysTask(r, TRUE)}
IdleAgain(t) ==
    /\ At(t, "run", "idle")
    /\ LET r == Top(t).task.r IN
       /\ queue' = queue \union Idles(r) /\ active' = [active EXCEPT ![r] = @ + Cardinality(Idles(r))]
    /\ Stage(t, "post", <<>>) /\ UNCHANGED <<words, data, cell, running, holder, crashed>>

(* The scope is left, run() restores the current task, and the task is destroyed.      *)
Done(t) ==
    /\ At(t, "run", "post") /\ Top(t).todo = <<>>
    /\ LET f == Top(t) IN
       /\ scope' = [scope EXCEPT ![t] = IF Scoped(Sentence[f.task.r]) /\ ~f.task.idle THEN f.scope ELSE @]
       /\ current' = [current EXCEPT ![t] = f.current]
       /\ active' = [active EXCEPT ![f.task.r] = @ - 1]
    /\ Pop(t) /\ UNCHANGED <<words, data, cell, queue, holder, crashed>>
-----------------------------------------------------------------------------
(* What holders of a ReactionHandle do.                                            *)
Switch(r) ==
    /\ r \in Handled /\ enabled' = [enabled EXCEPT ![r] = ~@]
    /\ UNCHANGED <<list, active, data, cell, queue, stack, running, holder, crashed>>
Unbind(r) ==
    /\ r \in Handled /\ Unlist(r)
    /\ UNCHANGED <<active, data, cell, queue, stack, running, holder, crashed>>

Step(t) ==
    \/ Offer(t) \/ EndEmit(t) \/ New(t) \/ Check(t) \/ Get(t)
    \/ Return(t) \/ Throw(t) \/ OnceUnbinds(t) \/ Resubmit(t) \/ IdleAgain(t) \/ Done(t)
    \/ \E k \in queue : Take(t, k)

Next ==
    /\ ~crashed
    /\ \/ \E t \in Thread : Step(t)
       \/ \E t \in Thread, T \in Type : Packet(t, T) \/ \E inline \in BOOLEAN : Emit(t, T, inline)
       \/ \E r \in Reaction : Switch(r) \/ Unbind(r)
Spec == Init /\ [][Next]_vars

(* Threads run, and callbacks return or throw in the end.                            *)
FairSpec == Spec /\ \A t \in Thread : WF_vars(~crashed /\ Step(t))
-----------------------------------------------------------------------------
Frames(t) == Range(stack[t])
Held == UNION {{t} \X DOMAIN stack[t] : t \in Thread}     \* the frames, by thread and depth
RunningOf(r) == {p \in Held : LET f == stack[p[1]][p[2]] IN f.kind = "run" /\ f.task.r = r /\ ~f.task.idle}
Queued(r) == {k \in queue : k.r = r /\ ~k.idle}

(* Of a reaction with Buffer<n> no more than n tasks wait or run, however many        *)
(* threads emit at a time (Buffer.hpp:33-40).                                       *)
BufferKept == \A r \in Reaction : \A n \in Of(Sentence[r], {"Buffer", "Once"}) :
    Cardinality(RunningOf(r)) + Cardinality(Queued(r)) <= n

(* A task is given the datum that triggered it, and not one that another thread, or a   *)
(* task that ran inline before it, emitted meanwhile; and what is in scope is always    *)
(* the task itself (ThreadStore.hpp:34-41, TaskScope.hpp:76-92).                    *)
InScope(t) == current[t] # 0 /\ current[t] = scope[t]
OwnContext ==
    /\ \A k \in queue \union {f.task : f \in UNION {{g \in Frames(t) : g.kind = "run"} : t \in Thread}} :
          \A i \in DOMAIN k.seen : Gives[k.r][i].of = k.type => Last(k.seen[i]) = k.datum
    /\ \A t \in Thread : Doing(t, "run") =>
          (InScope(t) <=> Scoped(Sentence[Top(t).task.r]) /\ ~Top(t).task.idle)

(* A reaction of on<Always> runs again and again while it is enabled, also after its    *)
(* callback threw and after it was disabled for a time (Always.hpp:44-48, 139-143).   *)
AlwaysGoesOn == \A r \in AlwaysOn :
    []<>(crashed \/ ~enabled[r] \/ \E t \in Thread : At(t, "run", "body") /\ Top(t).task = AlwaysTask(r, FALSE))
=============================================================================
