------------------------- MODULE ThreadPoolsProofs -------------------------
(* What is proved of the scheduler, for any number of threads, pools, groups and tasks:   *)
(*   TokensKept        the tokens of a group add up,                                *)
(*   GroupLimitKept    no group has more tasks in execution than it may,              *)
(*   TypesKept         the types, with counters that are never negative,              *)
(*   IdleTaskWhenIdle  the idle tasks of all pools start when no task is in execution, *)
(*   NothingLeftBehind no task is in a queue when all threads sleep, if none has two   *)
(*                     groups and no pool outlasts a stop.                         *)
(*                                                                               *)
(* First the tokens.  TokensAddUp says of each group what its three operations keep,  *)
(* each of them on its own: a handle is inserted, a handle that Lockable allows takes  *)
(* a token, and a handle that goes gives back what it has.  No other step of the       *)
(* scheduler touches a group.                                                     *)
EXTENDS ThreadPools, FiniteSetTheorems, SequenceTheorems, WellFoundedInduction, TLAPS

\* A group with tasks out of U.
GroupOf(U) == [tokens : Int, queue : SUBSET U, locked : SUBSET U, notified : SUBSET U]

\* The invariant of one group whose descriptor has concurrency n.
GroupInv(g, n) == /\ \E U : g \in GroupOf(U)
                  /\ g.tokens >= 0
                  /\ g.locked \subseteq g.queue
                  /\ IsFiniteSet(g.queue)
                  /\ g.tokens + Cardinality(g.locked) = n

GroupsInv == /\ group = [g \in Group |-> group[g]]
             /\ \A g \in Group : GroupInv(group[g], Concurrency[g])
-----------------------------------------------------------------------------
LEMMA NewGroupInv == ASSUME NEW n \in Nat PROVE GroupInv(NewGroup(n), n)
<1>1. NewGroup(n) \in GroupOf({})
  BY DEF NewGroup, GroupOf
<1>2. QED
  BY <1>1, FS_EmptySet DEF GroupInv, NewGroup

LEMMA InsertKeeps ==
  ASSUME NEW g, NEW n, NEW h, GroupInv(g, n) PROVE GroupInv(Insert(g, h), n)
<1>1. PICK U : g \in GroupOf(U)
  BY DEF GroupInv
<1> DEFINE V == U \union {h}
<1>2. g \in GroupOf(V) /\ h \in V
  BY <1>1 DEF GroupOf
<1> HIDE DEF V
<1>3. /\ Insert(g, h) \in GroupOf(V)
      /\ Insert(g, h).tokens = g.tokens /\ Insert(g, h).locked = g.locked
      /\ Insert(g, h).queue = g.queue \union {h}
  BY <1>2 DEF Insert, GroupOf
<1>4. IsFiniteSet(g.queue \union {h})
  BY FS_AddElement DEF GroupInv
<1>5. QED
  BY <1>3, <1>4 DEF GroupInv

LEMMA LockKeeps ==
  ASSUME NEW g, NEW n, NEW h, GroupInv(g, n), Lockable(g, h) PROVE GroupInv(Lock(g, h), n)
<1>1. CASE h \in g.locked
  BY <1>1 DEF Lock
<1>2. CASE h \notin g.locked
  <2>1. PICK U : g \in GroupOf(U)
    BY DEF GroupInv
  <2> DEFINE ahead == {s \in g.queue \ g.locked : (s = h) \/ Before(s, h)}
  <2>2. h \in g.queue /\ g.tokens - Cardinality(ahead) >= 0
    BY <1>2 DEF Lockable, Free
  <2>3. IsFiniteSet(ahead) /\ h \in ahead
    BY <1>2, <2>2, FS_Subset DEF GroupInv
  <2>4. Cardinality(ahead) \in Nat /\ Cardinality(ahead) # 0
    BY <2>3, FS_CardinalityType, FS_EmptySet
  <2>5. g.tokens \in Int /\ g.tokens >= 1
    BY <2>1, <2>2, <2>4 DEF GroupOf
  <2>6. IsFiniteSet(g.locked)
    BY FS_Subset DEF GroupInv
  <2>7. /\ Cardinality(g.locked \union {h}) = Cardinality(g.locked) + 1
        /\ Cardinality(g.locked) \in Nat
    BY <1>2, <2>6, FS_AddElement, FS_CardinalityType
  <2>8. Lock(g, h) = [tokens |-> g.tokens - 1, queue |-> g.queue,
                      locked |-> g.locked \union {h}, notified |-> g.notified]
    BY <1>2, <2>1 DEF Lock, GroupOf
  <2>9. Lock(g, h) \in GroupOf(U)
    BY <2>1, <2>2, <2>8 DEF GroupOf
  <2>10. QED
    BY <2>2, <2>5, <2>7, <2>8, <2>9 DEF GroupInv
<1>3. QED
  BY <1>1, <1>2

LEMMA UnlockMembers ==
  ASSUME NEW U, NEW g \in GroupOf(U), NEW h
  PROVE  /\ Unlock(g, h) \in GroupOf(U)
         /\ Unlock(g, h).tokens = IF h \in g.locked THEN g.tokens + 1 ELSE g.tokens
         /\ Unlock(g, h).locked = g.locked \ {h}
         /\ Unlock(g, h).queue = g.queue \ {h}
<1>1. ASSUME NEW i \in Int, NEW q \in SUBSET U, NEW l \in SUBSET U, NEW m \in SUBSET U
      PROVE  [g EXCEPT !.tokens = i, !.queue = q, !.locked = l, !.notified = m] \in GroupOf(U)
  BY DEF GroupOf
<1>2. /\ g.queue \ {h} \in SUBSET U /\ g.locked \ {h} \in SUBSET U
      /\ g.notified \ {h} \in SUBSET U
      /\ (IF h \in g.locked THEN g.tokens + 1 ELSE g.tokens) \in Int
  BY DEF GroupOf
<1>3. Unlock(g, h) \in GroupOf(U)
  BY <1>1, <1>2 DEF Unlock
<1>4. Unlock(g, h).tokens = IF h \in g.locked THEN g.tokens + 1 ELSE g.tokens
  BY DEF Unlock, GroupOf
<1>5. Unlock(g, h).locked = g.locked \ {h}
  BY DEF Unlock, GroupOf
<1>6. Unlock(g, h).queue = g.queue \ {h}
  BY DEF Unlock, GroupOf
<1>7. QED
  BY <1>3, <1>4, <1>5, <1>6

LEMMA ReleaseKeeps ==
  ASSUME NEW g, NEW n, NEW h, GroupInv(g, n) PROVE GroupInv(Release(g, h), n)
<1>1. PICK U : g \in GroupOf(U)
  BY DEF GroupInv
<1> DEFINE u == Unlock(g, h)
<1>2. /\ u \in GroupOf(U)
      /\ u.tokens = IF h \in g.locked THEN g.tokens + 1 ELSE g.tokens
      /\ u.locked = g.locked \ {h} /\ u.queue = g.queue \ {h}
  BY <1>1, UnlockMembers
<1>3. Told(u) \in SUBSET U
  BY <1>2 DEF Told, GroupOf
<1>4. Release(g, h) = [u EXCEPT !.notified = @ \union Told(u)]
  BY DEF Release
<1> HIDE DEF u
<1>5. /\ Release(g, h) \in GroupOf(U)
      /\ Release(g, h).tokens = u.tokens /\ Release(g, h).locked = u.locked
      /\ Release(g, h).queue = u.queue
  BY <1>1, <1>2, <1>3, <1>4 DEF GroupOf
<1>6. IsFiniteSet(g.locked) /\ IsFiniteSet(g.queue \ {h})
  BY FS_Subset DEF GroupInv
<1>7. /\ Cardinality(g.locked) \in Nat
      /\ Cardinality(g.locked \ {h}) = IF h \in g.locked THEN Cardinality(g.locked) - 1
                                       ELSE Cardinality(g.locked)
  BY <1>6, FS_CardinalityType, FS_RemoveElement
<1>8. g.tokens \in Int
  BY <1>1 DEF GroupOf
<1>9. QED
  BY <1>2, <1>5, <1>6, <1>7, <1>8 DEF GroupInv
-----------------------------------------------------------------------------
LEMMA GroupsInit == Init => GroupsInv
<1>1. ASSUME NEW g \in Group PROVE Concurrency[g] \in Nat
  BY PoolAssumption
<1>2. QED
  BY <1>1, NewGroupInv DEF Init, GroupsInv

\* One group changes, and keeps its invariant.
LEMMA OneGroup ==
  ASSUME GroupsInv, NEW g, NEW after,
         group' = [group EXCEPT ![g] = after],
         g \in Group => GroupInv(after, Concurrency[g])
  PROVE  GroupsInv'
  BY DEF GroupsInv

LEMMA InsertStep ==
  ASSUME GroupsInv, NEW t, InsertHandle(t) PROVE GroupsInv'
<1> DEFINE o == Head(ops[t])
<1>1. group' = [group EXCEPT ![Head(o.groups)] = Insert(group[Head(o.groups)], o.task)]
  BY DEF InsertHandle
<1>2. QED
  BY <1>1, InsertKeeps, OneGroup DEF GroupsInv

LEMMA LockStep ==
  ASSUME GroupsInv, NEW t, LockGroup(t) PROVE GroupsInv'
<1> DEFINE o == Head(ops[t])
           g == Head(o.groups)
<1>1. CASE Lockable(group[g], o.task)
  <2>1. group' = [group EXCEPT ![g] = Lock(group[g], o.task)]
    BY <1>1 DEF LockGroup
  <2>2. QED
    BY <1>1, <2>1, LockKeeps, OneGroup DEF GroupsInv
<1>2. CASE ~Lockable(group[g], o.task)
  BY <1>2 DEF LockGroup, GroupsInv
<1>3. QED
  BY <1>1, <1>2

LEMMA ReleaseStep ==
  ASSUME GroupsInv, NEW t, ReleaseGroup(t) PROVE GroupsInv'
<1> DEFINE o == Head(ops[t])
<1>1. group' = [group EXCEPT ![Head(o.groups)] = Release(group[Head(o.groups)], o.task)]
  BY DEF ReleaseGroup
<1>2. QED
  BY <1>1, ReleaseKeeps, OneGroup DEF GroupsInv

\* The other steps leave the groups alone.
LEMMA OtherWork ==
  ASSUME NEW t, \/ GetPool(t) \/ RunInline(t) \/ AskIdle(t) \/ SubmitToPool(t) \/ Notify(t)
                \/ GetTask(t) \/ TakeTask(t) \/ BecomeIdle(t) \/ Finish(t) \/ Halt(t)
                \/ StopPool(t) \/ LetGo(t) \/ Join(t)
  PROVE  group' = group
<1>1. CASE GetPool(t)
  BY <1>1, Zenon DEF GetPool
<1>2. CASE RunInline(t)
  BY <1>2, Zenon DEF RunInline
<1>3. CASE AskIdle(t)
  BY <1>3, Zenon DEF AskIdle
<1>4. CASE SubmitToPool(t)
  BY <1>4, Zenon DEF SubmitToPool
<1>5. CASE Notify(t)
  BY <1>5, Zenon DEF Notify
<1>6. CASE GetTask(t)
  BY <1>6, Zenon DEF GetTask
<1>7. CASE TakeTask(t)
  BY <1>7, Zenon DEF TakeTask
<1>8. CASE BecomeIdle(t)
  BY <1>8, Zenon DEF BecomeIdle
<1>9. CASE Finish(t)
  BY <1>9, Zenon DEF Finish
<1>10. CASE Halt(t)
  BY <1>10, Zenon DEF Halt
<1>11. CASE StopPool(t)
  BY <1>11, Zenon DEF StopPool
<1>12. CASE LetGo(t)
  BY <1>12, Zenon DEF LetGo
<1>13. CASE Join(t)
  BY <1>13, Zenon DEF Join
<1>14. QED
  BY <1>1, <1>2, <1>3, <1>4, <1>5, <1>6, <1>7, <1>8, <1>9, <1>10, <1>11, <1>12, <1>13

LEMMA GroupsNext == GroupsInv /\ [Next]_vars => GroupsInv'
<1> SUFFICES ASSUME GroupsInv, [Next]_vars PROVE GroupsInv'
  OBVIOUS
<1>1. ASSUME group' = group PROVE GroupsInv'
  BY <1>1 DEF GroupsInv
<1>2. ASSUME NEW t \in Thread, Work(t) PROVE GroupsInv'
  BY <1>1, <1>2, InsertStep, LockStep, ReleaseStep, OtherWork DEF Work
<1>3. ASSUME NEW t \in Thread, NEW h \in Task, Submit(t, h) PROVE GroupsInv'
  BY <1>1, <1>3 DEF Submit
<1>4. ASSUME NEW t \in Thread, NEW h \in Task, AddIdleTask(t, h) PROVE GroupsInv'
  BY <1>1, <1>4 DEF AddIdleTask
<1>5. ASSUME NEW t \in Thread, NEW h \in Task, RemoveIdleTask(t, h) PROVE GroupsInv'
  BY <1>1, <1>5 DEF RemoveIdleTask
<1>6. ASSUME NEW t \in Thread, NEW force \in Forces, Shutdown(t, force) PROVE GroupsInv'
  BY <1>1, <1>6, Zenon DEF Shutdown
<1>7. CASE StartPools
  BY <1>1, <1>7 DEF StartPools
<1>8. CASE StartMain
  BY <1>1, <1>8 DEF StartMain
<1>9. CASE UNCHANGED vars
  BY <1>1, <1>9 DEF vars
<1>10. QED
  BY <1>2, <1>3, <1>4, <1>5, <1>6, <1>7, <1>8, <1>9 DEF Next

\* What the tokens of a group and the handles that hold one add up to never changes
\* (Group.cpp:42-107): for every number of threads, pools, groups and tasks, and also
\* while a forced stop destroys queued tasks.
THEOREM TokensKept == Spec => []TokensAddUp
<1>1. GroupsInv => TokensAddUp
  BY DEF GroupsInv, GroupInv, TokensAddUp
<1>2. QED
  BY <1>1, GroupsInit, GroupsNext, PTL DEF Spec
-----------------------------------------------------------------------------
(* The order of the tasks is total, so that First, Sorted and SetToSeq are what their   *)
(* names say.                                                                     *)
Less == {ss \in Nat \X Nat : ss[1] < ss[2]}

LEMMA LeastOf ==
  ASSUME NEW S \in SUBSET Nat, S # {} PROVE \E n \in S : \A m \in S : n <= m
<1>1. IsWellFoundedOn(Less, Nat)
  BY NatLessThanWellFounded DEF OpToRel, Less
<1>2. \E n \in S : \A m \in S : ~ (<<m, n>> \in Less)
  BY <1>1, WFMin
<1>3. \A x, y \in Nat : ~ (<<y, x>> \in Less) => x <= y
  BY DEF Less
<1>4. QED
  BY <1>2, <1>3

\* The order of the queues is total.
LEMMA BeforeTotal ==
  ASSUME NEW h \in Task, NEW k \in Task
  PROVE  /\ ~Before(h, h)
         /\ h # k => Before(h, k) \/ Before(k, h)
         /\ \A j \in Task : Before(h, k) /\ Before(k, j) => Before(h, j)
<1>1. \A j \in Task : Priority[j] \in Int /\ Id[j] \in Nat
  BY TaskAssumption
<1>2. Id[h] = Id[k] => h = k
  BY TaskAssumption
<1>3. QED
  BY <1>1, <1>2 DEF Before

LEMMA FiniteTasks == ASSUME NEW S \in SUBSET Task
                     PROVE  IsFiniteSet(S) /\ Cardinality(S) \in Nat
  BY TaskAssumption, FS_Subset, FS_CardinalityType

LEMMA FirstOf ==
  ASSUME NEW S \in SUBSET Task, S # {}
  PROVE  First(S) \in S /\ \A k \in S \ {First(S)} : Before(First(S), k)
<1> DEFINE below(h) == {k \in S : Before(k, h)}
           ranks == {Cardinality(below(h)) : h \in S}
<1>1. \A h \in S : IsFiniteSet(below(h)) /\ Cardinality(below(h)) \in Nat
  <2> SUFFICES ASSUME NEW h \in S PROVE IsFiniteSet(below(h)) /\ Cardinality(below(h)) \in Nat
    OBVIOUS
  <2>1. below(h) \in SUBSET Task
    OBVIOUS
  <2>2. QED
    BY <2>1, FiniteTasks
<1>2. ranks \in SUBSET Nat /\ ranks # {}
  BY <1>1
<1>3. PICK n \in ranks : \A m \in ranks : n <= m
  BY <1>2, LeastOf
<1>4. PICK h \in S : n = Cardinality(below(h))
  BY <1>3
<1>5. ASSUME NEW k \in S \ {h}, ~Before(h, k) PROVE FALSE
  <2>1. Before(k, h)
    BY <1>5, BeforeTotal
  <2>2. below(k) \in SUBSET below(h) /\ k \in below(h) /\ k \notin below(k)
    BY <2>1, BeforeTotal
  <2>3. Cardinality(below(k)) <= Cardinality(below(h)) /\ Cardinality(below(h)) # Cardinality(below(k))
    BY <2>2, <1>1, FS_Subset
  <2>4. Cardinality(below(h)) <= Cardinality(below(k))
    BY <1>3, <1>4
  <2>5. QED
    BY <2>3, <2>4, <1>1
<1>6. \E x \in S : \A k \in S \ {x} : Before(x, k)
  BY <1>5
<1>7. QED
  BY <1>6 DEF First

Sorting(s, S) == /\ s \in [1..Cardinality(S) -> S] /\ IsInjective(s)
                  /\ \A i, j \in DOMAIN s : i < j => Before(s[i], s[j])

LEMMA SortedOf ==
  ASSUME NEW S \in SUBSET Task PROVE Sorting(Sorted(S), S)
<1> DEFINE bad == {T \in SUBSET Task : ~(\E s : Sorting(s, T))}
<1>1. ASSUME bad # {} PROVE FALSE
  <2> DEFINE sizes == {Cardinality(T) : T \in bad}
  <2>1. sizes \in SUBSET Nat /\ sizes # {}
    BY <1>1, FiniteTasks
  <2>2. PICK n \in sizes : \A m \in sizes : n <= m
    BY <2>1, LeastOf
  <2>3. PICK T \in bad : n = Cardinality(T)
    BY <2>2
  <2>4. CASE T = {}
    <3>1. Cardinality(T) = 0
      BY <2>4, FS_EmptySet
    <3>2. Sorting(<<>>, T)
      BY <3>1 DEF Sorting, IsInjective
    <3>3. QED
      BY <2>3, <3>2
  <2>5. CASE T # {}
    <3> DEFINE h == First(T)
               U == T \ {h}
    <3>1. h \in T /\ \A k \in U : Before(h, k)
      BY <2>5, FirstOf
    <3>2. Cardinality(U) = n - 1 /\ n \in Nat /\ n # 0 /\ U \in SUBSET Task
      BY <2>3, <3>1, FiniteTasks, FS_RemoveElement, FS_EmptySet
    <3>3. U \notin bad
      BY <2>2, <3>2
    <3>4. PICK u : Sorting(u, U)
      BY <3>2, <3>3
    <3> HIDE DEF h, U
    <3> DEFINE s == [i \in 1..n |-> IF i = 1 THEN h ELSE u[i - 1]]
    <3>5. u \in [1..(n - 1) -> U]
      BY <3>2, <3>4 DEF Sorting
    <3>6. \A i \in 2..n : i - 1 \in 1..(n - 1) /\ u[i - 1] \in U
      BY <3>2, <3>5
    <3>7. \A i \in 1..n : s[i] \in T
      BY <3>1, <3>6 DEF U
    <3>8. ASSUME NEW i \in 1..n, NEW j \in 1..n, i < j PROVE Before(s[i], s[j])
      <4>1. CASE i = 1
        BY <4>1, <3>1, <3>6, <3>8
      <4>2. CASE i # 1
        <5>1. i - 1 \in 1..(n - 1) /\ j - 1 \in 1..(n - 1) /\ i - 1 < j - 1
          BY <4>2, <3>2, <3>8
        <5>2. Before(u[i - 1], u[j - 1])
          BY <5>1, <3>4, <3>5 DEF Sorting
        <5>3. QED
          BY <5>2, <4>2, <3>8
      <4>3. QED
        BY <4>1, <4>2
    <3>9. ASSUME NEW i \in 1..n, NEW j \in 1..n, s[i] = s[j] PROVE i = j
      <4> DEFINE a == s[i]
      <4>1. a \in Task
        BY <3>7, <2>3
      <4>2. ~Before(a, a)
        BY <4>1, BeforeTotal
      <4>3. ~(i < j) /\ ~(j < i)
        BY <3>8, <3>9, <4>2
      <4>4. QED
        BY <4>3, <3>2
    <3>10. s \in [1..Cardinality(T) -> T]
      BY <3>7, <2>3
    <3>11. DOMAIN s = 1..n
      OBVIOUS
    <3> HIDE DEF s
    <3>12. Sorting(s, T)
      BY <3>8, <3>9, <3>10, <3>11 DEF Sorting, IsInjective
    <3>13. QED
      BY <3>12, <2>3
  <2>6. QED
    BY <2>4, <2>5
<1>2. \E s : Sorting(s, S)
  BY <1>1
<1>3. \E s \in [1..Cardinality(S) -> S] :
         IsInjective(s) /\ \A i, j \in DOMAIN s : i < j => Before(s[i], s[j])
  BY <1>2 DEF Sorting
<1>4. QED
  BY <1>3 DEF Sorted, Sorting

\* The elements of a set one after the other.
LEMMA SetToSeqOf ==
  ASSUME NEW S, IsFiniteSet(S)
  PROVE  SetToSeq(S) \in [1..Cardinality(S) -> S] /\ Cardinality(S) \in Nat
<1>1. Cardinality(S) \in Nat /\ ExistsBijection(1..Cardinality(S), S)
  BY FS_CardinalityType
<1>2. \E f \in [1..Cardinality(S) -> S] : IsInjective(f)
  BY <1>1 DEF ExistsBijection, Bijection, Injection, IsInjective
<1>3. QED
  BY <1>1, <1>2 DEF SetToSeq
-----------------------------------------------------------------------------
(* The types of the steps that the calls of the threads may hold.                      *)
\* The steps that may be in ops.
TaskOp == [op : {"getpool", "take"}, task : Task]
InlineOp == [op : {"inline"}, task : Task \intersect Inline]
GroupsOp == [op : {"insert", "release"}, task : Task, groups : Seq(Group) \ {<<>>}]
LockOp == [op : {"lock"}, task : Task, groups : Seq(Group) \ {<<>>}, last : {"take"}]
InlineLockOp == [op : {"lock"}, task : Task \intersect Inline, groups : Seq(Group) \ {<<>>},
                 last : {"inline"}]
SubmitOp == [op : {"submit"}, task : Task, clear : BOOLEAN]
NotifyOp == [op : {"notify"}, pool : Pool, clear : BOOLEAN]
AskOp == [op : {"ask"}, next : SubmitOp \union NotifyOp]
IdleOp == [op : {"idle"}]
StopOp == [op : {"stop"}, pool : Pool, type : {"NORMAL", "FORCE", "FINAL"}]
MutexOp == [op : {"join", "unlock"}, pool : Pool]
HaltOp == [op : {"halt"}, type : {"NORMAL", "FORCE"}]
OpSet == TaskOp \union InlineOp \union GroupsOp \union LockOp \union InlineLockOp
         \union SubmitOp \union NotifyOp \union AskOp \union IdleOp \union StopOp \union MutexOp \union HaltOp

OpTypes == ops \in [Thread -> Seq(OpSet)]

LEMMA Members ==
  ASSUME NEW o \in OpSet
  PROVE  /\ o.op \in {"getpool", "take"} => o \in TaskOp
         /\ o.op = "inline" => o \in InlineOp
         /\ o.op \in {"insert", "release"} => o \in GroupsOp
         /\ o.op = "lock" /\ o.last = "take" => o \in LockOp
         /\ o.op = "lock" /\ o.last # "take" => o \in InlineLockOp
         /\ o.op = "submit" => o \in SubmitOp
         /\ o.op = "notify" => o \in NotifyOp
         /\ o.op = "ask" => o \in AskOp
         /\ o.op = "stop" => o \in StopOp
         /\ o.op \in {"join", "unlock"} => o \in MutexOp
         /\ o.op = "halt" => o \in HaltOp
<1>1. /\ o \in TaskOp => o.op \in {"getpool", "take"}
      /\ o \in InlineOp => o.op = "inline"
      /\ o \in GroupsOp => o.op \in {"insert", "release"}
      /\ o \in LockOp => o.op = "lock" /\ o.last = "take"
      /\ o \in InlineLockOp => o.op = "lock" /\ o.last = "inline"
      /\ o \in SubmitOp => o.op = "submit"
      /\ o \in NotifyOp => o.op = "notify"
  BY DEF TaskOp, InlineOp, GroupsOp, LockOp, InlineLockOp, SubmitOp, NotifyOp
<1>2. /\ o \in AskOp => o.op = "ask"
      /\ o \in IdleOp => o.op = "idle"
      /\ o \in StopOp => o.op = "stop"
      /\ o \in MutexOp => o.op \in {"join", "unlock"}
      /\ o \in HaltOp => o.op = "halt"
  BY DEF AskOp, IdleOp, StopOp, MutexOp, HaltOp
<1>3. QED
  BY <1>1, <1>2 DEF OpSet

Rest(t) == IF ops[t] = <<>> THEN <<>> ELSE Tail(ops[t])
Pushes(t, s) == s \in Seq(OpSet) /\ ops' = [ops EXCEPT ![t] = s \o Rest(t)]

LEMMA RestType == ASSUME OpTypes, NEW t \in Thread PROVE Rest(t) \in Seq(OpSet)
  BY DEF OpTypes, Rest

LEMMA ThenPushes ==
  ASSUME NEW t, NEW name, Op(t, name), NEW s \in Seq(OpSet), Then(t, s)
  PROVE  Pushes(t, s)
  BY DEF Pushes, Rest, Then, Op

LEMMA SetPushes ==
  ASSUME NEW t, ops[t] = <<>>, NEW s \in Seq(OpSet), ops' = [ops EXCEPT ![t] = s]
  PROVE  Pushes(t, s)
<1>1. s \o <<>> = s
  BY ConcatEmptySeq
<1>2. QED
  BY <1>1 DEF Pushes, Rest

LEMMA PushTypes ==
  ASSUME OpTypes, NEW t \in Thread, NEW s, Pushes(t, s) PROVE OpTypes'
<1>1. s \o Rest(t) \in Seq(OpSet)
  BY RestType, ConcatProperties DEF Pushes
<1> DEFINE r == s \o Rest(t)
<1>2. ops' = [ops EXCEPT ![t] = r] /\ r \in Seq(OpSet)
  BY <1>1 DEF Pushes
<1> HIDE DEF r
<1>3. QED
  BY <1>2 DEF OpTypes

LEMMA HeadType == ASSUME OpTypes, NEW t \in Thread, ops[t] # <<>> PROVE Head(ops[t]) \in OpSet
  BY DEF OpTypes

LEMMA OneSeq == ASSUME NEW S, NEW x \in S PROVE <<x>> \in Seq(S) /\ Len(<<x>>) = 1 /\ <<x>>[1] = x
  OBVIOUS

LEMMA TaskFacts ==
  ASSUME NEW h \in Task
  PROVE  Groups[h] \in Seq(Group) /\ Target[h] \in Pool /\ IsInjective(Groups[h])
  BY PoolAssumption

LEMMA LocksType ==
  ASSUME NEW h \in Task, NEW s \in Seq(Group), NEW last \in {"inline", "take"},
         last = "inline" => h \in Inline
  PROVE  Locks(h, s, last) \in OpSet
<1>1. CASE s = <<>>
  <2>1. Locks(h, s, last) \in TaskOp \union InlineOp
    BY <1>1 DEF Locks, TaskOp, InlineOp
  <2>2. QED
    BY <2>1 DEF OpSet
<1>2. CASE s # <<>>
  <2>1. Locks(h, s, last) \in LockOp \union InlineLockOp
    BY <1>2 DEF Locks, LockOp, InlineLockOp
  <2>2. QED
    BY <2>1 DEF OpSet
<1>3. QED
  BY <1>1, <1>2

LEMMA EnqueueType ==
  ASSUME NEW h \in Task PROVE Enqueue(h) \in OpSet
<1>1. [op |-> "submit", task |-> h, clear |-> TRUE] \in SubmitOp
  BY DEF SubmitOp
<1>2. Enqueue(h) \in AskOp
  BY <1>1 DEF Enqueue, AskOp
<1>3. QED
  BY <1>2 DEF OpSet

LEMMA NotifyType ==
  ASSUME NEW p \in Pool PROVE [op |-> "notify", pool |-> p, clear |-> TRUE] \in NotifyOp
  BY DEF NotifyOp

LEMMA CallTypes ==
  ASSUME NEW h \in Task
  PROVE  Attempt(h) \in OpSet /\ SubmitCall(h) \in OpSet /\ NotifyCall(h) \in OpSet
<1>1. Attempt(h) \in OpSet
  BY LocksType, TaskFacts DEF Attempt
<1>2. SubmitCall(h) \in OpSet
  BY DEF SubmitCall, TaskOp, OpSet
<1>3. [op |-> "notify", pool |-> Target[h], clear |-> TRUE] \in NotifyOp
  BY NotifyType, TaskFacts
<1>4. NotifyCall(h) \in AskOp
  BY <1>3 DEF NotifyCall, AskOp
<1>5. QED
  BY <1>1, <1>2, <1>4 DEF OpSet

LEMMA SubmissionType ==
  ASSUME NEW h \in Task, NEW s \in Seq(Group) PROVE Submission(h, s) \in OpSet
<1>1. ASSUME s # <<>> PROVE [op |-> "insert", task |-> h, groups |-> s] \in OpSet
  BY <1>1 DEF GroupsOp, OpSet
<1>2. (h \in Inline => Locks(h, Groups[h], "inline") \in OpSet) /\ Enqueue(h) \in OpSet
  BY LocksType, EnqueueType, TaskFacts
<1>3. QED
  BY <1>1, <1>2 DEF Submission

LEMMA ReleasesType ==
  ASSUME NEW h \in Task, NEW s \in Seq(Group)
  PROVE  /\ Releases(h, s) \in Seq(OpSet)
         /\ \A i \in 1..Len(Releases(h, s)) :
               Releases(h, s)[i].op = "release" /\ Releases(h, s)[i].task = h
<1>1. ASSUME s # <<>> PROVE [op |-> "release", task |-> h, groups |-> s] \in OpSet
  BY <1>1 DEF GroupsOp, OpSet
<1> DEFINE r == [op |-> "release", task |-> h, groups |-> s]
<1>2. CASE s = <<>>
  BY <1>2 DEF Releases
<1>3. CASE s # <<>>
  <2>1. Releases(h, s) = <<r>>
    BY <1>3 DEF Releases
  <2>2. r \in OpSet /\ r.op = "release" /\ r.task = h
    BY <1>1, <1>3
  <2> HIDE DEF r
  <2>3. QED
    BY <2>1, <2>2
<1>4. QED
  BY <1>2, <1>3

LEMMA SubmitCalls ==
  ASSUME NEW S \in SUBSET Task
  PROVE  /\ ForEach(Sorted(S), SubmitCall) \in Seq(OpSet)
         /\ \A i \in 1..Len(ForEach(Sorted(S), SubmitCall)) :
               ForEach(Sorted(S), SubmitCall)[i] = SubmitCall(Sorted(S)[i]) /\ Sorted(S)[i] \in S
         /\ \A i, j \in 1..Len(ForEach(Sorted(S), SubmitCall)) :
               Sorted(S)[i] = Sorted(S)[j] => i = j
<1> DEFINE s == Sorted(S)
           n == Cardinality(S)
           f == ForEach(s, SubmitCall)
<1>1. s \in [1..n -> S] /\ IsInjective(s) /\ n \in Nat
  BY SortedOf, FiniteTasks DEF Sorting
<1>2. f = [i \in 1..n |-> SubmitCall(s[i])]
  BY <1>1 DEF ForEach
<1>3. \A i \in 1..n : s[i] \in S /\ SubmitCall(s[i]) \in OpSet
  BY <1>1, CallTypes
<1>4. f \in [1..n -> OpSet]
  BY <1>2, <1>3
<1>5. f \in Seq(OpSet) /\ Len(f) = n
  BY <1>1, <1>4
<1>6. \A i, j \in 1..n : s[i] = s[j] => i = j
  BY <1>1 DEF IsInjective
<1>7. \A i \in 1..n : f[i] = SubmitCall(s[i])
  BY <1>2
<1> HIDE DEF s, n, f
<1>8. QED
  BY <1>3, <1>5, <1>6, <1>7 DEF s, f

\* Steps that claim nothing.
Quiet(o) == o.op \in {"notify", "release", "stop", "join", "halt"}
            \/ (o.op = "ask" /\ o.next.op = "notify")

LEMMA NotifyCalls ==
  ASSUME NEW S \in SUBSET Task
  PROVE  /\ ForEach(Sorted(S), NotifyCall) \in Seq(OpSet)
         /\ \A i \in 1..Len(ForEach(Sorted(S), NotifyCall)) :
               /\ ForEach(Sorted(S), NotifyCall)[i].op = "ask"
               /\ ForEach(Sorted(S), NotifyCall)[i].next.op = "notify"
<1> DEFINE s == Sorted(S)
           n == Cardinality(S)
           f == ForEach(s, NotifyCall)
<1>1. s \in [1..n -> S] /\ n \in Nat
  BY SortedOf, FiniteTasks DEF Sorting
<1>2. f = [i \in 1..n |-> NotifyCall(s[i])]
  BY <1>1 DEF ForEach
<1>3. \A h \in Task : NotifyCall(h).op = "ask" /\ NotifyCall(h).next.op = "notify"
  BY DEF NotifyCall
<1>4. \A i \in 1..n : NotifyCall(s[i]) \in OpSet /\ s[i] \in Task
  BY <1>1, CallTypes
<1>5. f \in [1..n -> OpSet] /\ \A i \in 1..n : f[i].op = "ask" /\ f[i].next.op = "notify"
  BY <1>2, <1>3, <1>4
<1> HIDE DEF s, n, f
<1>6. f \in Seq(OpSet) /\ Len(f) = n
  BY <1>1, <1>5
<1>7. QED
  BY <1>5, <1>6 DEF s, f

LEMMA Stops ==
  ASSUME NEW q \in Seq(Pool), NEW type \in {"NORMAL", "FORCE", "FINAL"},
         NEW f, f = [i \in DOMAIN q |-> [op |-> "stop", pool |-> q[i], type |-> type]]
  PROVE  f \in Seq(OpSet) /\ \A i \in 1..Len(f) : f[i].op = "stop"
<1> DEFINE n == Len(q)
<1>1. n \in Nat /\ DOMAIN q = 1..n /\ \A i \in 1..n : q[i] \in Pool
  BY LenProperties
<1>2. \A p \in Pool : [op |-> "stop", pool |-> p, type |-> type] \in OpSet
  BY DEF StopOp, OpSet
<1> HIDE DEF n
<1>3. f \in [1..n -> OpSet] /\ \A i \in 1..n : f[i].op = "stop"
  BY <1>1, <1>2
<1>4. f \in Seq(OpSet) /\ Len(f) = n
  BY <1>1, <1>3
<1>5. QED
  BY <1>3, <1>4

LEMMA SetToSeqType ==
  ASSUME NEW S \in SUBSET Pool, IsFiniteSet(S) PROVE SetToSeq(S) \in Seq(Pool)
<1>1. SetToSeq(S) \in [1..Cardinality(S) -> S] /\ Cardinality(S) \in Nat
  BY SetToSeqOf
<1>2. SetToSeq(S) \in [1..Cardinality(S) -> Pool]
  BY <1>1
<1>3. QED
  BY <1>1, <1>2

LEMMA FinalStopsType ==
  ASSUME made \in SUBSET Pool, IsFiniteSet(made)
  PROVE  FinalStops \in Seq(OpSet) /\ \A i \in 1..Len(FinalStops) : FinalStops[i].op = "stop"
<1> DEFINE q == SetToSeq(made \ Persistent) \o SetToSeq(made \intersect Persistent)
<1>1. /\ made \ Persistent \in SUBSET Pool /\ made \intersect Persistent \in SUBSET Pool
      /\ IsFiniteSet(made \ Persistent) /\ IsFiniteSet(made \intersect Persistent)
  BY FS_Subset
<1>2. q \in Seq(Pool)
  BY <1>1, SetToSeqType, ConcatProperties
<1>3. FinalStops = [i \in DOMAIN q |-> [op |-> "stop", pool |-> q[i], type |-> "FINAL"]]
  BY DEF FinalStops, ForEach
<1> HIDE DEF q
<1>4. QED
  BY <1>2, <1>3, Stops

\* What a forced stop of pool p leaves to do: the locks of the tasks S go, then the mutex.
ForcedOps(S, p) == Append([i \in DOMAIN Sorted(S) |->
                             [op |-> "release", task |-> Sorted(S)[i], groups |-> Groups[Sorted(S)[i]]]],
                          [op |-> "unlock", pool |-> p])

LEMMA ForcedType ==
  ASSUME NEW S \in SUBSET {h \in Task : Groups[h] # <<>>}, NEW p \in Pool
  PROVE  /\ ForcedOps(S, p) \in Seq(OpSet)
         /\ Len(ForcedOps(S, p)) = Cardinality(S) + 1 /\ Cardinality(S) \in Nat
         /\ \A i \in 1..Cardinality(S) :
               ForcedOps(S, p)[i].op = "release" /\ ForcedOps(S, p)[i].task \in S
         /\ ForcedOps(S, p)[Cardinality(S) + 1] = [op |-> "unlock", pool |-> p]
<1> DEFINE s == Sorted(S)
           n == Cardinality(S)
           g == [i \in 1..n |-> [op |-> "release", task |-> s[i], groups |-> Groups[s[i]]]]
           u == [op |-> "unlock", pool |-> p]
           f == ForcedOps(S, p)
<1>1. s \in [1..n -> S] /\ n \in Nat
  BY SortedOf, FiniteTasks DEF Sorting
<1>2. \A h \in S : [op |-> "release", task |-> h, groups |-> Groups[h]] \in GroupsOp
  BY TaskFacts DEF GroupsOp
<1>3. g \in [1..n -> OpSet] /\ \A i \in 1..n : g[i].op = "release" /\ g[i].task \in S
  BY <1>1, <1>2 DEF OpSet
<1>4. u \in OpSet
  BY DEF MutexOp, OpSet
<1>5. f = Append(g, u)
  BY <1>1 DEF ForcedOps
<1> HIDE DEF s, n, g, u, f
<1>6. g \in Seq(OpSet) /\ Len(g) = n
  BY <1>1, <1>3
<1>7. /\ f \in Seq(OpSet) /\ Len(f) = n + 1 /\ f[n + 1] = u
      /\ \A i \in 1..n : f[i] = g[i]
  <2>1. /\ Append(g, u) \in Seq(OpSet) /\ Len(Append(g, u)) = Len(g) + 1
        /\ \A i \in 1..Len(g) : Append(g, u)[i] = g[i]
        /\ Append(g, u)[Len(g) + 1] = u
    BY <1>4, <1>6, AppendProperties
  <2>2. QED
    BY <2>1, <1>5, <1>6, Zenon
<1>8. \A i \in 1..n : f[i].op = "release" /\ f[i].task \in S
  BY <1>3, <1>7
<1>9. n \in Nat
  BY <1>1
<1>10. QED
  BY <1>7, <1>8, <1>9, Zenon DEF n, u, f
-----------------------------------------------------------------------------
(* The invariant of GroupLimitKept.  A task is in one place at a time: one call submits  *)
(* it (Sole), or one queue has it (QueueInv), or it is once in one stack (StackInv); the  *)
(* history variable status tells which.  So nobody gives back the tokens of a task but    *)
(* who finishes or destroys it, and Got, that it holds the token of each group it went    *)
(* through, lasts from the lock to the end of the task.  A thread that goes through the   *)
(* queue of its pool has the mutex of the pool and is in no other call (Alone, OpInv),    *)
(* so the task it finds is still in the queue when it takes it.                           *)
PoolState == [queue : SUBSET Task, live : BOOLEAN, accept : BOOLEAN, running : BOOLEAN,
              idle : BOOLEAN, active : Int, owner : Thread \union {None},
              idleTasks : SUBSET Idlers]
Pcs == {"setup", "starting", "unborn", "top", "wait", "woken", "exited"}

GroupTypes == group \in [Group -> GroupState]
PoolTypes == pool \in [Pool -> PoolState]
MadeTypes == /\ activePools \in Int /\ globalIdle \subseteq Idlers
             /\ made \subseteq Pool /\ IsFiniteSet(made)
             /\ {started, running, terminated} \subseteq BOOLEAN
ThreadTypes == /\ threadIdle \in [Thread -> BOOLEAN]
               /\ pc \in [Thread -> Pcs]
               /\ stack \in [Thread -> Seq(Task)]
StatusTypes == status \in [Task -> {"new", "submitted", "queued", "running", "done", "dropped"}]

BaseTypes == OpTypes /\ GroupTypes /\ PoolTypes /\ MadeTypes /\ ThreadTypes /\ StatusTypes

Submits(o, h) == \/ o.op \in {"getpool", "insert", "submit", "inline"} /\ o.task = h
                 \/ o.op = "lock" /\ o.last = "inline" /\ o.task = h
                 \/ o.op = "ask" /\ o.next.op = "submit" /\ o.next.task = h
Unlocks(o, p) == o.op = "unlock" /\ o.pool = p
AtPool(o) == o.op \in {"idle", "take"} \/ (o.op = "lock" /\ o.last = "take")

Apart(o, k) == /\ \A h \in Task : ~(Submits(o, h) /\ Submits(k, h))
               /\ \A p \in Pool : ~(Unlocks(o, p) /\ Unlocks(k, p))

Doing(t, o) == \E i \in 1..Len(ops[t]) : ops[t][i] = o

\* h holds a token of each of its groups but those in s.
Got(h, s) == \A i \in 1..Len(Groups[h]) :
                \/ h \in group[Groups[h][i]].locked
                \/ \E j \in 1..Len(s) : s[j] = Groups[h][i]

Sole == \A t, u \in Thread : \A i \in 1..Len(ops[t]), j \in 1..Len(ops[u]) :
           t # u \/ i # j => Apart(ops[t][i], ops[u][j])
Alone == \A t \in Thread : \A i \in 1..Len(ops[t]) : AtPool(ops[t][i]) => Len(ops[t]) = 1

OpInv(t, o) ==
    /\ \A h \in Task : Submits(o, h) => status[h] = "submitted"
    /\ AtPool(o) => pool[Home[t]].owner = t
    /\ AtPool(o) /\ o.op # "idle" => o.task \in pool[Home[t]].queue
    /\ \A p \in Pool : Unlocks(o, p) => pool[p].owner = t
    /\ o.op = "release" => status[o.task] \in {"done", "dropped"}
    /\ o.op = "lock" => Got(o.task, o.groups)
    /\ o.op \in {"inline", "take"} => Got(o.task, <<>>)

OpsInv == \A t \in Thread, o \in OpSet : Doing(t, o) => OpInv(t, o)
QueueInv == \A p \in Pool : \A h \in pool[p].queue : status[h] = "queued" /\ Target[h] = p
StackInv == \A t \in Thread : \A i \in 1..Len(stack[t]) :
    /\ status[stack[t][i]] = "running"
    /\ \A u \in Thread : \A j \in 1..Len(stack[u]) : t # u \/ i # j => stack[t][i] # stack[u][j]
RunInv == \A h \in Task : status[h] = "running" => Got(h, <<>>)

TaskInv == Sole /\ Alone /\ OpsInv /\ QueueInv /\ StackInv /\ RunInv
-----------------------------------------------------------------------------
(* What the calls of the threads hold after a step.                                    *)
\* After a push, a step in the calls of a thread is new, or was there already and is not
\* the head that was taken.
LEMMA PushedAt ==
  ASSUME OpTypes, NEW t \in Thread, NEW s, Pushes(t, s),
         NEW u \in Thread, NEW i \in 1..Len(ops'[u])
  PROVE  \/ u = t /\ i \in 1..Len(s) /\ ops'[u][i] = s[i]
         \/ u = t /\ i > Len(s) /\ ops[t] # <<>> /\ (i - Len(s) + 1) \in 2..Len(ops[t])
                  /\ ops'[u][i] = ops[t][i - Len(s) + 1]
         \/ u # t /\ i \in 1..Len(ops[u]) /\ ops'[u][i] = ops[u][i]
<1> DEFINE r == Rest(t)
           n == Len(s)
<1>1. r \in Seq(OpSet) /\ s \in Seq(OpSet) /\ n \in Nat
  BY RestType, LenProperties DEF Pushes
<1>2. /\ Len(s \o r) = n + Len(r)
      /\ \A k \in 1..(n + Len(r)) : (s \o r)[k] = IF k <= n THEN s[k] ELSE r[k - n]
  BY <1>1, ConcatProperties
<1>3. ops' = [ops EXCEPT ![t] = s \o r] /\ ops \in [Thread -> Seq(OpSet)]
  BY DEF Pushes, OpTypes
<1>4. CASE u # t
  BY <1>3, <1>4
<1>5. CASE u = t
  <2>1. ops'[u] = s \o r
    BY <1>3, <1>5
  <2>2. i \in 1..(n + Len(r)) /\ ops'[u][i] = IF i <= n THEN s[i] ELSE r[i - n]
    BY <2>1, <1>2
  <2>3. CASE i <= n
    BY <2>2, <2>3, <1>5, <1>1
  <2>4. CASE i > n
    <3>1. Len(r) \in Nat /\ Len(r) >= 1
      BY <2>2, <2>4, <1>1, LenProperties
    <3>2. ops[t] # <<>> /\ ops[t] \in Seq(OpSet) /\ r = Tail(ops[t])
      BY <3>1, <1>3 DEF Rest
    <3>3. /\ Len(ops[t]) \in Nat /\ Len(r) = Len(ops[t]) - 1
          /\ \A k \in 1..Len(r) : r[k] = ops[t][k + 1]
      BY <3>2, HeadTailProperties, LenProperties
    <3>4. i - n \in 1..Len(r) /\ i - n + 1 \in 2..Len(ops[t])
      BY <2>2, <2>4, <3>3, <1>1
    <3>5. ops'[u][i] = ops[t][i - n + 1]
      BY <2>2, <2>4, <3>3, <3>4, <1>1
    <3>6. QED
      BY <3>2, <3>4, <3>5, <2>4, <1>5
  <2>5. QED
    BY <2>2, <2>3, <2>4, <1>1
<1>6. QED
  BY <1>4, <1>5

\* o is still there in the calls of u after t took the head of its own.
Stays(t, u, o) == /\ Doing(u, o)
                  /\ ops[t] # <<>> => Apart(o, Head(ops[t]))
                  /\ u = t => Len(ops[t]) > 1

LEMMA PushDoing ==
  ASSUME OpTypes, Sole, NEW t \in Thread, NEW s, Pushes(t, s),
         NEW u \in Thread, NEW o, Doing(u, o)'
  PROVE  \/ u = t /\ \E i \in 1..Len(s) : o = s[i]
         \/ Stays(t, u, o)
<1>1. PICK i \in 1..Len(ops'[u]) : ops'[u][i] = o
  BY DEF Doing
<1>2. CASE u = t /\ i \in 1..Len(s) /\ ops'[u][i] = s[i]
  BY <1>1, <1>2
<1>3. CASE /\ u = t /\ i > Len(s) /\ ops[t] # <<>> /\ (i - Len(s) + 1) \in 2..Len(ops[t])
           /\ ops'[u][i] = ops[t][i - Len(s) + 1]
  <2> DEFINE j == i - Len(s) + 1
  <2>1. j \in 2..Len(ops[t]) /\ ops[t][j] = o /\ ops[t] \in Seq(OpSet) /\ ops[t] # <<>>
    BY <1>1, <1>3 DEF OpTypes
  <2> HIDE DEF j
  <2>2. /\ Len(ops[t]) \in Nat /\ j \in 1..Len(ops[t]) /\ 1 \in 1..Len(ops[t]) /\ j # 1
        /\ Len(ops[t]) > 1
    BY <2>1, LenProperties
  <2>3. Apart(ops[t][j], ops[t][1])
    BY <2>2 DEF Sole
  <2>4. Head(ops[t]) = ops[t][1]
    BY <2>1
  <2>5. Doing(u, o)
    BY <2>1, <2>2, <1>3 DEF Doing
  <2>6. QED
    BY <2>1, <2>2, <2>3, <2>4, <2>5 DEF Stays
<1>4. CASE u # t /\ i \in 1..Len(ops[u]) /\ ops'[u][i] = ops[u][i]
  <2>1. Doing(u, o)
    BY <1>1, <1>4 DEF Doing
  <2>2. ASSUME ops[t] # <<>> PROVE Apart(o, Head(ops[t]))
    <3>1. ops[t] \in Seq(OpSet)
      BY DEF OpTypes
    <3>2. 1 \in 1..Len(ops[t]) /\ Head(ops[t]) = ops[t][1]
      BY <3>1, <2>2, LenProperties
    <3>3. Apart(ops[u][i], ops[t][1])
      BY <3>2, <1>4 DEF Sole
    <3>4. QED
      BY <3>2, <3>3, <1>1, <1>4
  <2>3. QED
    BY <2>1, <2>2, <1>4 DEF Stays
<1>5. \/ u = t /\ i \in 1..Len(s) /\ ops'[u][i] = s[i]
      \/ u = t /\ i > Len(s) /\ ops[t] # <<>> /\ (i - Len(s) + 1) \in 2..Len(ops[t])
               /\ ops'[u][i] = ops[t][i - Len(s) + 1]
      \/ u # t /\ i \in 1..Len(ops[u]) /\ ops'[u][i] = ops[u][i]
  BY PushedAt
<1>6. QED
  BY <1>2, <1>3, <1>4, <1>5, Zenon

\* What may be pushed: each new step submits a task that is new, or that the head
\* submitted, and lets a mutex go only if nobody had it.
Brings(t, s) ==
    /\ \A i, j \in 1..Len(s) : i # j => Apart(s[i], s[j])
    /\ \A i \in 1..Len(s) :
          /\ \A h \in Task : Submits(s[i], h) =>
                status[h] = "new" \/ (ops[t] # <<>> /\ Submits(Head(ops[t]), h))
          /\ \A p \in Pool : Unlocks(s[i], p) => pool[p].owner = None

LEMMA DoingAt ==
  ASSUME OpTypes, NEW u \in Thread, NEW j \in 1..Len(ops[u]) PROVE Doing(u, ops[u][j]) /\ ops[u][j] \in OpSet
<1>1. ops[u] \in Seq(OpSet)
  BY DEF OpTypes
<1>2. QED
  BY <1>1, ElementOfSeq DEF Doing

LEMMA OldApart ==
  ASSUME OpTypes, Sole, OpsInv, NEW t \in Thread, NEW s, Brings(t, s),
         NEW i \in 1..Len(s), NEW u \in Thread, NEW j \in 1..Len(ops[u]), u = t => j # 1
  PROVE  Apart(s[i], ops[u][j]) /\ Apart(ops[u][j], s[i])
<1> DEFINE k == ops[u][j]
<1>1. Doing(u, k) /\ k \in OpSet
  BY DoingAt
<1>2. OpInv(u, k)
  BY <1>1 DEF OpsInv
<1>3. ASSUME NEW h \in Task, Submits(s[i], h), Submits(k, h) PROVE FALSE
  <2>1. status[h] = "submitted"
    BY <1>2, <1>3 DEF OpInv
  <2>2. ops[t] # <<>> /\ Submits(Head(ops[t]), h)
    BY <2>1, <1>3 DEF Brings
  <2>3. ops[t] \in Seq(OpSet)
    BY DEF OpTypes
  <2>4. 1 \in 1..Len(ops[t]) /\ Head(ops[t]) = ops[t][1]
    BY <2>2, <2>3, LenProperties
  <2>5. Apart(k, ops[t][1])
    BY <2>4 DEF Sole
  <2>6. QED
    BY <2>2, <2>4, <2>5, <1>3 DEF Apart
<1>4. ASSUME NEW p \in Pool, Unlocks(s[i], p), Unlocks(k, p) PROVE FALSE
  <2>1. pool[p].owner = u
    BY <1>2, <1>4 DEF OpInv
  <2>2. pool[p].owner = None
    BY <1>4 DEF Brings
  <2>3. QED
    BY <2>1, <2>2, PoolAssumption
<1> HIDE DEF k
<1>5. QED
  BY <1>3, <1>4 DEF Apart, k

LEMMA SoleNext ==
  ASSUME OpTypes, Sole, OpsInv, NEW t \in Thread, NEW s, Pushes(t, s), Brings(t, s)
  PROVE  Sole'
<1> SUFFICES ASSUME NEW u \in Thread, NEW v \in Thread,
                    NEW i \in 1..Len(ops'[u]), NEW j \in 1..Len(ops'[v]), u # v \/ i # j
             PROVE  Apart(ops'[u][i], ops'[v][j])
  BY DEF Sole
<1> DEFINE At(x, y, k) == /\ k \in 1..Len(ops[x]) /\ ops'[x][y] = ops[x][k]
                          /\ (x = t => k # 1 /\ k = y - Len(s) + 1)
                          /\ (x # t => k = y)
<1>0. Len(s) \in Nat
  BY LenProperties DEF Pushes
<1>1. ASSUME NEW x \in Thread, NEW y \in 1..Len(ops'[x])
      PROVE \/ x = t /\ y \in 1..Len(s) /\ ops'[x][y] = s[y]
            \/ \E k \in Nat : At(x, y, k)
  <2>1. CASE x = t /\ y > Len(s) /\ ops[t] # <<>> /\ (y - Len(s) + 1) \in 2..Len(ops[t])
             /\ ops'[x][y] = ops[t][y - Len(s) + 1]
    <3> DEFINE k == y - Len(s) + 1
    <3>1. k \in 2..Len(ops[t]) /\ ops'[x][y] = ops[t][k]
      BY <2>1
    <3>2. k \in Nat /\ k \in 1..Len(ops[t]) /\ k # 1
      BY <3>1
    <3> QED
      BY <3>1, <3>2, <2>1
  <2>2. CASE x # t /\ y \in 1..Len(ops[x]) /\ ops'[x][y] = ops[x][y]
    BY <2>2
  <2>3. QED
    BY <2>1, <2>2, PushedAt
<1>2. CASE /\ u = t /\ i \in 1..Len(s) /\ ops'[u][i] = s[i]
           /\ v = t /\ j \in 1..Len(s) /\ ops'[v][j] = s[j]
  BY <1>2 DEF Brings
<1>3. ASSUME u = t /\ i \in 1..Len(s) /\ ops'[u][i] = s[i], NEW k \in Nat, At(v, j, k)
      PROVE  Apart(ops'[u][i], ops'[v][j])
  BY <1>3, OldApart
<1>4. ASSUME NEW k \in Nat, At(u, i, k), v = t /\ j \in 1..Len(s) /\ ops'[v][j] = s[j]
      PROVE  Apart(ops'[u][i], ops'[v][j])
  BY <1>4, OldApart
<1>5. ASSUME NEW k \in Nat, At(u, i, k), NEW l \in Nat, At(v, j, l)
      PROVE  Apart(ops'[u][i], ops'[v][j])
  <2>1. u # v \/ k # l
    BY <1>5, <1>0
  <2>2. Apart(ops[u][k], ops[v][l])
    BY <2>1, <1>5 DEF Sole
  <2>3. QED
    BY <2>2, <1>5
<1> HIDE DEF At
<1>6. QED
  BY <1>1, <1>2, <1>3, <1>4, <1>5

LEMMA AloneNext ==
  ASSUME OpTypes, Alone, NEW t \in Thread, NEW s, Pushes(t, s),
         \/ \A i \in 1..Len(s) : ~AtPool(s[i])
         \/ Len(s) = 1 /\ (ops[t] = <<>> \/ AtPool(Head(ops[t])))
  PROVE  Alone'
<1> SUFFICES ASSUME NEW u \in Thread, NEW i \in 1..Len(ops'[u]), AtPool(ops'[u][i])
             PROVE  Len(ops'[u]) = 1
  BY DEF Alone
<1>0. s \in Seq(OpSet) /\ Len(s) \in Nat /\ ops[t] \in Seq(OpSet) /\ Len(ops[t]) \in Nat
  BY LenProperties DEF Pushes, OpTypes
<1>1. CASE u # t
  <2>1. ops'[u] = ops[u]
    BY <1>1 DEF Pushes, OpTypes
  <2>2. QED
    BY <2>1 DEF Alone
<1>2. CASE u = t /\ i \in 1..Len(s) /\ ops'[u][i] = s[i]
  <2>1. Len(s) = 1 /\ (ops[t] = <<>> \/ AtPool(Head(ops[t])))
    BY <1>2
  <2>2. Rest(t) = <<>>
    <3>1. CASE ops[t] = <<>>
      BY <3>1 DEF Rest
    <3>2. CASE ops[t] # <<>> /\ AtPool(Head(ops[t]))
      <4>1. 1 \in 1..Len(ops[t]) /\ Head(ops[t]) = ops[t][1]
        BY <3>2, <1>0
      <4>2. Len(ops[t]) = 1
        BY <4>1, <3>2 DEF Alone
      <4>3. Tail(ops[t]) \in Seq(OpSet) /\ Len(Tail(ops[t])) = 0
        BY <4>2, <3>2, <1>0, HeadTailProperties
      <4>4. QED
        BY <4>3, <3>2, EmptySeq DEF Rest
    <3>3. QED
      BY <2>1, <3>1, <3>2
  <2>3. ops'[u] = s \o <<>>
    BY <2>2, <1>2 DEF Pushes, OpTypes
  <2>4. QED
    BY <2>1, <2>3, <1>0, ConcatEmptySeq
<1>3. CASE u = t /\ i > Len(s) /\ ops[t] # <<>> /\ (i - Len(s) + 1) \in 2..Len(ops[t])
           /\ ops'[u][i] = ops[t][i - Len(s) + 1]
  <2> DEFINE k == i - Len(s) + 1
  <2>1. k \in 2..Len(ops[t]) /\ AtPool(ops[t][k])
    BY <1>3
  <2> HIDE DEF k
  <2>2. k \in 1..Len(ops[t]) /\ Len(ops[t]) # 1
    BY <2>1, <1>0
  <2>3. QED
    BY <2>1, <2>2 DEF Alone
<1>4. QED
  BY <1>1, <1>2, <1>3, PushedAt

\* A thread that goes through the queue of its pool does nothing else.
LEMMA StaysAlone ==
  ASSUME OpTypes, Alone, NEW t \in Thread, NEW o, Stays(t, t, o) PROVE ~AtPool(o)
<1> SUFFICES ASSUME AtPool(o) PROVE FALSE
  OBVIOUS
<1>1. PICK i \in 1..Len(ops[t]) : ops[t][i] = o
  BY DEF Stays, Doing
<1>2. Len(ops[t]) = 1
  BY <1>1 DEF Alone
<1>3. Len(ops[t]) > 1
  BY DEF Stays
<1>4. QED
  BY <1>2, <1>3

LEMMA HeadInv ==
  ASSUME OpTypes, OpsInv, NEW t \in Thread, ops[t] # <<>>
  PROVE  Doing(t, Head(ops[t])) /\ OpInv(t, Head(ops[t])) /\ Head(ops[t]) \in OpSet
<1>1. ops[t] \in Seq(OpSet)
  BY DEF OpTypes
<1>2. 1 \in 1..Len(ops[t]) /\ Head(ops[t]) = ops[t][1]
  BY <1>1, LenProperties
<1>3. Doing(t, Head(ops[t])) /\ Head(ops[t]) \in OpSet
  BY <1>2, DoingAt
<1>4. QED
  BY <1>3 DEF OpsInv
-----------------------------------------------------------------------------
\* What the pushed steps claim.
LEMMA QuietClaims ==
  ASSUME NEW o, Quiet(o)
  PROVE  /\ \A h \in Task : ~Submits(o, h)
         /\ \A p \in Pool : ~Unlocks(o, p)
         /\ ~AtPool(o)
  BY DEF Quiet, Submits, Unlocks, AtPool

LEMMA QuietInv ==
  ASSUME NEW t, NEW o, Quiet(o), o.op = "release" => status'[o.task] \in {"done", "dropped"}
  PROVE  OpInv(t, o)'
  BY QuietClaims DEF OpInv, Quiet

LEMMA QuietBrings ==
  ASSUME NEW t, NEW s, \A i \in 1..Len(s) : Quiet(s[i])
  PROVE  Brings(t, s) /\ \A i \in 1..Len(s) : ~AtPool(s[i])
  BY QuietClaims DEF Brings, Apart

LEMMA OneBrings ==
  ASSUME NEW t, NEW k, ops[t] # <<>>,
         \A h \in Task : Submits(k, h) => Submits(Head(ops[t]), h),
         \A p \in Pool : ~Unlocks(k, p)
  PROVE  Brings(t, <<k>>) /\ Len(<<k>>) = 1
<1> DEFINE s == <<k>>
<1>1. Len(s) = 1 /\ s[1] = k
  OBVIOUS
<1> HIDE DEF s
<1>2. \A i \in 1..Len(s) : i = 1
  BY <1>1
<1>3. Brings(t, s)
  BY <1>1, <1>2 DEF Brings
<1>4. QED
  BY <1>1, <1>3 DEF s

LEMMA SubmitCallFacts ==
  ASSUME NEW h
  PROVE  /\ SubmitCall(h).op = "getpool" /\ SubmitCall(h).task = h
         /\ \A k : Submits(SubmitCall(h), k) => k = h
         /\ \A p : ~Unlocks(SubmitCall(h), p)
         /\ ~AtPool(SubmitCall(h))
  BY DEF SubmitCall, Submits, Unlocks, AtPool

\* Calls of submit() for new tasks.
LEMMA CallsBring ==
  ASSUME NEW t, NEW S \in SUBSET Task, \A h \in S : status[h] = "new"
  PROVE  LET s == ForEach(Sorted(S), SubmitCall) IN
         Brings(t, s) /\ \A i \in 1..Len(s) : ~AtPool(s[i])
<1> DEFINE s == ForEach(Sorted(S), SubmitCall)
           q == Sorted(S)
<1>1. /\ \A i \in 1..Len(s) : s[i] = SubmitCall(q[i]) /\ q[i] \in S
      /\ \A i, j \in 1..Len(s) : q[i] = q[j] => i = j
  BY SubmitCalls
<1> HIDE DEF s, q
<1>2. ASSUME NEW i \in 1..Len(s), NEW h, Submits(s[i], h) PROVE h = q[i] /\ status[h] = "new"
  BY <1>1, <1>2, SubmitCallFacts
<1>3. ASSUME NEW i \in 1..Len(s) PROVE ~AtPool(s[i]) /\ \A p : ~Unlocks(s[i], p)
  BY <1>1, SubmitCallFacts
<1>4. ASSUME NEW i \in 1..Len(s), NEW j \in 1..Len(s), i # j PROVE Apart(s[i], s[j])
  BY <1>1, <1>2, <1>3, <1>4 DEF Apart
<1>5. Brings(t, s)
  BY <1>2, <1>3, <1>4 DEF Brings
<1>6. QED
  BY <1>3, <1>5 DEF s

LEMMA EnqueueFacts ==
  ASSUME NEW h
  PROVE  /\ Enqueue(h).op = "ask" /\ Enqueue(h).next.op = "submit" /\ Enqueue(h).next.task = h
         /\ \A k : Submits(Enqueue(h), k) => k = h
         /\ \A p : ~Unlocks(Enqueue(h), p)
         /\ ~AtPool(Enqueue(h))
<1>1. Enqueue(h).op = "ask" /\ Enqueue(h).next.op = "submit" /\ Enqueue(h).next.task = h
  BY DEF Enqueue
<1>2. QED
  BY <1>1 DEF Submits, Unlocks, AtPool

LEMMA LocksFacts ==
  ASSUME NEW h, NEW s, NEW last \in {"inline", "take"}
  PROVE  LET o == Locks(h, s, last) IN
         /\ o.task = h /\ o.op \in {"lock", last}
         /\ o.op = "lock" => o.groups = s /\ o.last = last
         /\ o.op = last => s = <<>>
         /\ \A p : ~Unlocks(o, p)
         /\ last = "inline" => ~AtPool(o) /\ \A k : Submits(o, k) => k = h
         /\ last = "take" => AtPool(o) /\ o.op # "idle" /\ \A k : ~Submits(o, k)
<1> DEFINE o == Locks(h, s, last)
<1>1. /\ o.task = h /\ o.op \in {"lock", last}
      /\ o.op = "lock" => o.groups = s /\ o.last = last
      /\ o.op = last => s = <<>>
  BY DEF Locks
<1> HIDE DEF o
<1>2. /\ \A p : ~Unlocks(o, p)
      /\ last = "inline" => ~AtPool(o) /\ \A k : Submits(o, k) => k = h
      /\ last = "take" => AtPool(o) /\ o.op # "idle" /\ \A k : ~Submits(o, k)
  BY <1>1 DEF Submits, Unlocks, AtPool
<1>3. QED
  BY <1>1, <1>2 DEF o

LEMMA SubmissionFacts ==
  ASSUME NEW h, NEW s
  PROVE  LET o == Submission(h, s) IN
         /\ \A k : Submits(o, k) => k = h
         /\ \A p : ~Unlocks(o, p)
         /\ ~AtPool(o) /\ o.op \in {"insert", "lock", "inline", "ask"}
         /\ o.op = "lock" => o.task = h /\ o.groups = Groups[h]
         /\ o.op = "inline" => o.task = h /\ Groups[h] = <<>>
<1> DEFINE o == Submission(h, s)
<1>1. CASE s # <<>>
  <2>1. o.op = "insert" /\ o.task = h
    BY <1>1 DEF Submission
  <2> HIDE DEF o
  <2>2. QED
    BY <2>1 DEF o, Submits, Unlocks, AtPool
<1>2. CASE s = <<>> /\ h \in Inline
  <2>1. o = Locks(h, Groups[h], "inline")
    BY <1>2 DEF Submission
  <2>2. QED
    BY <2>1, LocksFacts
<1>3. CASE s = <<>> /\ h \notin Inline
  <2>1. o = Enqueue(h)
    BY <1>3 DEF Submission
  <2>2. QED
    BY <2>1, EnqueueFacts
<1>4. QED
  BY <1>1, <1>2, <1>3
-----------------------------------------------------------------------------
(* What each action puts in the place of the step it takes.                            *)
LEMMA TailType ==
  ASSUME NEW s \in Seq(Group) \ {<<>>} PROVE Head(s) \in Group /\ Tail(s) \in Seq(Group)
  BY HeadTailProperties

\* What the steps of a call put in the place of the head.
LEMMA GetPoolOps ==
  ASSUME BaseTypes, NEW t \in Thread, GetPool(t)
  PROVE  LET h == Head(ops[t]).task IN
         /\ h \in Task /\ Target[h] \in Pool
         /\ ops[t] # <<>> /\ Head(ops[t]) \in OpSet /\ Head(ops[t]).op = "getpool"
         /\ Pushes(t, <<Submission(h, Groups[h])>>)
<1> DEFINE h == Head(ops[t]).task
<1>1. Op(t, "getpool") /\ Then(t, <<Submission(h, Groups[h])>>)
  BY DEF GetPool
<1>2. ops[t] # <<>> /\ Head(ops[t]) \in OpSet /\ Head(ops[t]).op = "getpool"
  BY <1>1, HeadType DEF Op, BaseTypes
<1>3. h \in Task
  BY <1>2, Members DEF TaskOp
<1>4. Submission(h, Groups[h]) \in OpSet /\ Target[h] \in Pool
  BY <1>3, TaskFacts, SubmissionType
<1> HIDE DEF h
<1>5. Pushes(t, <<Submission(h, Groups[h])>>)
  BY <1>1, <1>4, OneSeq, ThenPushes
<1>6. QED
  BY <1>2, <1>3, <1>4, <1>5 DEF h

LEMMA InsertHandleOps ==
  ASSUME BaseTypes, NEW t \in Thread, InsertHandle(t)
  PROVE  LET o == Head(ops[t]) IN
         /\ ops[t] # <<>> /\ o \in OpSet /\ o \in GroupsOp /\ o.op = "insert" /\ Head(o.groups) \in Group
         /\ Pushes(t, <<Submission(o.task, Tail(o.groups))>>)
<1> DEFINE o == Head(ops[t])
<1>1. Op(t, "insert") /\ Then(t, <<Submission(o.task, Tail(o.groups))>>)
  BY DEF InsertHandle
<1>2. ops[t] # <<>> /\ o \in OpSet /\ o.op = "insert"
  BY <1>1, HeadType DEF Op, BaseTypes
<1>3. o \in GroupsOp
  BY <1>2, Members
<1>4. o.task \in Task /\ Tail(o.groups) \in Seq(Group) /\ Head(o.groups) \in Group
  BY <1>3, TailType DEF GroupsOp
<1> HIDE DEF o
<1>5. Submission(o.task, Tail(o.groups)) \in OpSet
  BY <1>4, SubmissionType
<1>6. Pushes(t, <<Submission(o.task, Tail(o.groups))>>)
  BY <1>1, <1>5, OneSeq, ThenPushes
<1>7. QED
  BY <1>2, <1>3, <1>4, <1>6 DEF o

LEMMA LockGroupOps ==
  ASSUME BaseTypes, NEW t \in Thread, LockGroup(t)
  PROVE  LET o == Head(ops[t])
             later == {h \in pool[Home[t]].queue : Before(o.task, h)}
             next == IF Lockable(group[Head(o.groups)], o.task)
                     THEN Locks(o.task, Tail(o.groups), o.last)
                     ELSE IF o.last = "inline" THEN Enqueue(o.task)
                     ELSE IF later # {} THEN Attempt(First(later)) ELSE [op |-> "idle"]
         IN
         /\ ops[t] # <<>> /\ o \in OpSet /\ o.op = "lock" /\ o.task \in Task
         /\ o.groups \in Seq(Group) /\ o.groups # <<>> /\ Head(o.groups) \in Group
         /\ o.last \in {"inline", "take"} /\ (o.last = "inline" => o.task \in Inline)
         /\ later # {} => First(later) \in later
         /\ next \in OpSet /\ Pushes(t, <<next>>)
<1> DEFINE o == Head(ops[t])
           later == {h \in pool[Home[t]].queue : Before(o.task, h)}
           ok == Lockable(group[Head(o.groups)], o.task)
           next == IF ok THEN Locks(o.task, Tail(o.groups), o.last)
                   ELSE IF o.last = "inline" THEN Enqueue(o.task)
                   ELSE IF later # {} THEN Attempt(First(later)) ELSE [op |-> "idle"]
<1>1. Op(t, "lock") /\ Then(t, <<next>>)
  BY DEF LockGroup
<1>2. ops[t] # <<>> /\ o \in OpSet /\ o.op = "lock"
  BY <1>1, HeadType DEF Op, BaseTypes
<1>3. /\ o.task \in Task /\ o.groups \in Seq(Group) \ {<<>>} /\ o.last \in {"inline", "take"}
      /\ o.last = "inline" => o.task \in Inline
  <2>1. o \in LockOp \/ o \in InlineLockOp
    BY <1>2, Members
  <2>2. CASE o \in LockOp
    BY <2>2 DEF LockOp
  <2>3. CASE o \in InlineLockOp
    BY <2>3 DEF InlineLockOp
  <2>4. QED
    BY <2>1, <2>2, <2>3
<1>4. Tail(o.groups) \in Seq(Group) /\ Head(o.groups) \in Group
  BY <1>3, TailType
<1>5. later \in SUBSET Task
  <2>1. Home[t] \in Pool
    BY PoolAssumption
  <2>2. QED
    BY <2>1 DEF BaseTypes, PoolTypes, PoolState
<1> HIDE DEF o, later, ok
<1>6. later # {} => First(later) \in later /\ First(later) \in Task
  BY <1>5, FirstOf
<1>7. /\ Locks(o.task, Tail(o.groups), o.last) \in OpSet /\ Enqueue(o.task) \in OpSet
      /\ later # {} => Attempt(First(later)) \in OpSet
      /\ [op |-> "idle"] \in OpSet
  <2>1. [op |-> "idle"] \in OpSet
    BY DEF IdleOp, OpSet
  <2>2. QED
    BY <2>1, <1>3, <1>4, <1>6, LocksType, EnqueueType, CallTypes
<1>8. next \in OpSet
  BY <1>7
<1> HIDE DEF next
<1>9. Pushes(t, <<next>>)
  BY <1>1, <1>8, OneSeq, ThenPushes
<1>10. QED
  BY <1>2, <1>3, <1>4, <1>6, <1>8, <1>9 DEF o, later, ok, next

LEMMA RunInlineOps ==
  ASSUME BaseTypes, NEW t \in Thread, RunInline(t)
  PROVE  LET o == Head(ops[t]) IN
         /\ ops[t] # <<>> /\ o \in OpSet /\ o.op = "inline" /\ o.task \in Task /\ o.task \in Inline
         /\ Pushes(t, <<>>)
<1> DEFINE o == Head(ops[t])
<1>1. Op(t, "inline") /\ Then(t, <<>>)
  BY DEF RunInline
<1>2. ops[t] # <<>> /\ o \in OpSet /\ o.op = "inline"
  BY <1>1, HeadType DEF Op, BaseTypes
<1>3. o.task \in Task /\ o.task \in Inline
  BY <1>2, Members DEF InlineOp
<1>4. Pushes(t, <<>>)
  BY <1>1, EmptySeq, ThenPushes
<1>5. QED
  BY <1>2, <1>3, <1>4

LEMMA AskIdleOps ==
  ASSUME BaseTypes, NEW t \in Thread, AskIdle(t)
  PROVE  LET o == Head(ops[t])
             next == [o.next EXCEPT !.clear = ~pool[Home[t]].idle]
         IN
         /\ ops[t] # <<>> /\ o \in OpSet /\ o.op = "ask" /\ o.next \in SubmitOp \union NotifyOp
         /\ next \in SubmitOp \union NotifyOp /\ next.op = o.next.op
         /\ o.next \in SubmitOp => next.task = o.next.task
         /\ Pushes(t, <<next>>)
<1> DEFINE o == Head(ops[t])
           next == [o.next EXCEPT !.clear = ~pool[Home[t]].idle]
<1>1. Op(t, "ask") /\ Then(t, <<next>>)
  BY DEF AskIdle
<1>2. ops[t] # <<>> /\ o \in OpSet /\ o.op = "ask"
  BY <1>1, HeadType DEF Op, BaseTypes
<1>3. o.next \in SubmitOp \union NotifyOp
  BY <1>2, Members DEF AskOp
<1>4. /\ next \in SubmitOp \union NotifyOp /\ next.op = o.next.op
      /\ o.next \in SubmitOp => next.task = o.next.task
  <2> DEFINE b == ~pool[Home[t]].idle
  <2>1. b \in BOOLEAN
    OBVIOUS
  <2> HIDE DEF b, o
  <2>2. CASE o.next \in SubmitOp
    BY <2>1, <2>2 DEF SubmitOp
  <2>3. CASE o.next \in NotifyOp
    BY <2>1, <2>3 DEF NotifyOp, SubmitOp
  <2>4. QED
    BY <1>3, <2>2, <2>3
<1> HIDE DEF o, next
<1>5. Pushes(t, <<next>>)
  <2>1. next \in OpSet
    BY <1>4 DEF OpSet
  <2>2. QED
    BY <1>1, <2>1, OneSeq, ThenPushes
<1>6. QED
  BY <1>2, <1>3, <1>4, <1>5 DEF o, next

LEMMA SubmitToPoolOps ==
  ASSUME BaseTypes, NEW t \in Thread, SubmitToPool(t)
  PROVE  LET o == Head(ops[t])
             p == Target[o.task]
             s == IF pool[p].accept THEN <<>> ELSE Releases(o.task, Groups[o.task])
         IN
         /\ ops[t] # <<>> /\ o \in OpSet /\ o.op = "submit" /\ o.task \in Task /\ p \in Pool
         /\ o.clear \in BOOLEAN
         /\ Pushes(t, s) /\ \A i \in 1..Len(s) : s[i].op = "release" /\ s[i].task = o.task
<1> DEFINE o == Head(ops[t])
           p == Target[o.task]
           r == Releases(o.task, Groups[o.task])
           s == IF pool[p].accept THEN <<>> ELSE r
<1>1. Op(t, "submit") /\ Then(t, s)
  BY DEF SubmitToPool
<1>2. ops[t] # <<>> /\ o \in OpSet /\ o.op = "submit"
  BY <1>1, HeadType DEF Op, BaseTypes
<1>3. o.task \in Task /\ o.clear \in BOOLEAN
  BY <1>2, Members DEF SubmitOp
<1>4. p \in Pool /\ Groups[o.task] \in Seq(Group)
  BY <1>3, TaskFacts
<1>5. r \in Seq(OpSet) /\ \A i \in 1..Len(r) : r[i].op = "release" /\ r[i].task = o.task
  BY <1>3, <1>4, ReleasesType
<1> HIDE DEF o, p, r
<1>6. s \in Seq(OpSet) /\ \A i \in 1..Len(s) : s[i].op = "release" /\ s[i].task = o.task
  BY <1>5
<1> HIDE DEF s
<1>7. Pushes(t, s)
  BY <1>1, <1>6, ThenPushes
<1>8. QED
  BY <1>2, <1>3, <1>4, <1>6, <1>7 DEF o, p, r, s

LEMMA ReleaseGroupOps ==
  ASSUME BaseTypes, NEW t \in Thread, ReleaseGroup(t)
  PROVE  LET o == Head(ops[t])
             told == Sorted(Told(Unlock(group[Head(o.groups)], o.task)))
             s == ForEach(told, NotifyCall) \o Releases(o.task, Tail(o.groups))
         IN
         /\ ops[t] # <<>> /\ o \in OpSet /\ o.op = "release" /\ o.task \in Task
         /\ Head(o.groups) \in Group
         /\ Pushes(t, s)
         /\ \A i \in 1..Len(s) : \/ s[i].op = "ask" /\ s[i].next.op = "notify"
                                 \/ s[i].op = "release" /\ s[i].task = o.task
<1> DEFINE o == Head(ops[t])
           g == group[Head(o.groups)]
           T == Told(Unlock(g, o.task))
           a == ForEach(Sorted(T), NotifyCall)
           r == Releases(o.task, Tail(o.groups))
           s == a \o r
<1>1. Op(t, "release") /\ Then(t, s)
  BY DEF ReleaseGroup
<1>2. ops[t] # <<>> /\ o \in OpSet /\ o.op = "release"
  BY <1>1, HeadType DEF Op, BaseTypes
<1>3. o.task \in Task /\ o.groups \in Seq(Group) \ {<<>>}
  BY <1>2, Members DEF GroupsOp
<1>4. Head(o.groups) \in Group /\ Tail(o.groups) \in Seq(Group)
  BY <1>3, TailType
<1>5. T \in SUBSET Task
  <2>1. g \in GroupOf(Task)
    BY <1>4 DEF BaseTypes, GroupTypes, GroupState, GroupOf
  <2>2. Unlock(g, o.task) \in GroupOf(Task)
    BY <2>1, UnlockMembers
  <2>3. QED
    BY <2>2 DEF Told, GroupOf
<1> HIDE DEF g, T, o
<1>6. a \in Seq(OpSet) /\ \A i \in 1..Len(a) : a[i].op = "ask" /\ a[i].next.op = "notify"
  BY <1>5, NotifyCalls
<1>7. r \in Seq(OpSet) /\ \A i \in 1..Len(r) : r[i].op = "release" /\ r[i].task = o.task
  BY <1>3, <1>4, ReleasesType
<1> HIDE DEF a, r
<1>8. /\ s \in Seq(OpSet) /\ Len(s) = Len(a) + Len(r) /\ Len(a) \in Nat /\ Len(r) \in Nat
      /\ \A i \in 1..(Len(a) + Len(r)) : s[i] = IF i <= Len(a) THEN a[i] ELSE r[i - Len(a)]
  BY <1>6, <1>7, ConcatProperties, LenProperties
<1>9. ASSUME NEW i \in 1..Len(s)
      PROVE \/ s[i].op = "ask" /\ s[i].next.op = "notify"
            \/ s[i].op = "release" /\ s[i].task = o.task
  <2>1. CASE i <= Len(a)
    BY <2>1, <1>6, <1>8
  <2>2. CASE ~(i <= Len(a))
    <3>1. i - Len(a) \in 1..Len(r) /\ s[i] = r[i - Len(a)]
      BY <2>2, <1>8
    <3>2. QED
      BY <3>1, <1>7
  <2>3. QED
    BY <2>1, <2>2
<1> HIDE DEF s
<1>10. Pushes(t, s)
  BY <1>1, <1>8, ThenPushes
<1>11. QED
  BY <1>2, <1>3, <1>4, <1>9, <1>10 DEF o, g, T, a, r, s

LEMMA NotifyOps ==
  ASSUME BaseTypes, NEW t \in Thread, Notify(t)
  PROVE  LET o == Head(ops[t]) IN
         /\ ops[t] # <<>> /\ o \in OpSet /\ o.op = "notify" /\ o.pool \in Pool
         /\ o.clear \in BOOLEAN /\ Pushes(t, <<>>)
<1> DEFINE o == Head(ops[t])
<1>1. Op(t, "notify") /\ Then(t, <<>>)
  BY DEF Notify
<1>2. ops[t] # <<>> /\ o \in OpSet /\ o.op = "notify"
  BY <1>1, HeadType DEF Op, BaseTypes
<1>3. o.pool \in Pool /\ o.clear \in BOOLEAN
  BY <1>2, Members DEF NotifyOp
<1>4. Pushes(t, <<>>)
  BY <1>1, EmptySeq, ThenPushes
<1>5. QED
  BY <1>2, <1>3, <1>4

LEMMA TakeTaskOps ==
  ASSUME BaseTypes, NEW t \in Thread, TakeTask(t)
  PROVE  LET o == Head(ops[t]) IN
         /\ ops[t] # <<>> /\ o \in OpSet /\ o.op = "take" /\ o.task \in Task
         /\ Home[t] \in Pool /\ Pushes(t, <<>>)
<1> DEFINE o == Head(ops[t])
<1>1. Op(t, "take") /\ Then(t, <<>>)
  BY DEF TakeTask
<1>2. ops[t] # <<>> /\ o \in OpSet /\ o.op = "take"
  BY <1>1, HeadType DEF Op, BaseTypes
<1>3. o.task \in Task
  BY <1>2, Members DEF TaskOp
<1>4. Pushes(t, <<>>) /\ Home[t] \in Pool
  BY <1>1, EmptySeq, ThenPushes, PoolAssumption
<1>5. QED
  BY <1>2, <1>3, <1>4

LEMMA PoolFacts ==
  ASSUME BaseTypes, NEW p \in Pool
  PROVE  /\ pool[p] \in PoolState
         /\ pool[p].queue \in SUBSET Task /\ pool[p].idleTasks \in SUBSET Idlers
         /\ pool[p].active \in Int /\ pool[p].idleTasks \in SUBSET Task
         /\ pool[p].owner \in Thread \union {None}
<1>1. Idlers \subseteq Task
  BY PoolAssumption
<1>2. pool[p] \in PoolState
  BY DEF BaseTypes, PoolTypes
<1>3. QED
  BY <1>1, <1>2 DEF PoolState

\* The idle tasks that BecomeIdle submits.
Fresh(t) == LET p == Home[t]
                P == pool[p]
                counts == P.running /\ p \in CountsForIdle
                thread == counts /\ ~threadIdle[t]
                active == P.active - IF thread THEN 1 ELSE 0
                all == counts /\ ~P.idle /\ active = 0
                pools == activePools - IF all THEN 1 ELSE 0
                tasks == (IF thread /\ IsLast(active) THEN P.idleTasks ELSE {})
                         \union (IF all /\ IsLast(pools) THEN globalIdle ELSE {})
            IN {h \in tasks : status[h] = "new"}

LEMMA FreshType ==
  ASSUME BaseTypes, NEW t \in Thread
  PROVE  /\ Fresh(t) \in SUBSET Idlers /\ Fresh(t) \in SUBSET Task
         /\ \A h \in Fresh(t) : status[h] = "new" /\ h \notin Inline
<1>1. Home[t] \in Pool /\ Idlers \subseteq Task \ Inline
  BY PoolAssumption
<1>2. pool[Home[t]].idleTasks \in SUBSET Idlers /\ globalIdle \in SUBSET Idlers
  BY <1>1, PoolFacts DEF BaseTypes, MadeTypes
<1>3. Fresh(t) \in SUBSET Idlers /\ \A h \in Fresh(t) : status[h] = "new"
  BY <1>2 DEF Fresh
<1>4. QED
  BY <1>1, <1>3

LEMMA BecomeIdleOps ==
  ASSUME BaseTypes, NEW t \in Thread, BecomeIdle(t)
  PROVE  LET o == Head(ops[t]) IN
         /\ ops[t] # <<>> /\ o \in OpSet /\ o.op = "idle"
         /\ Home[t] \in Pool
         /\ Pushes(t, ForEach(Sorted(Fresh(t)), SubmitCall))
         /\ status' = [h \in Task |-> IF h \in Fresh(t) THEN "submitted" ELSE status[h]]
<1>1. Op(t, "idle") /\ Then(t, ForEach(Sorted(Fresh(t)), SubmitCall))
  BY DEF BecomeIdle, Fresh
<1>2. status' = [h \in Task |-> IF h \in Fresh(t) THEN "submitted" ELSE status[h]]
  BY DEF BecomeIdle, Fresh
<1>3. ops[t] # <<>> /\ Head(ops[t]) \in OpSet /\ Head(ops[t]).op = "idle"
  BY <1>1, HeadType DEF Op, BaseTypes
<1>4. ForEach(Sorted(Fresh(t)), SubmitCall) \in Seq(OpSet)
  BY FreshType, SubmitCalls
<1> DEFINE s == ForEach(Sorted(Fresh(t)), SubmitCall)
<1>5. s \in Seq(OpSet) /\ Then(t, s)
  BY <1>1, <1>4
<1> HIDE DEF s
<1>6. Pushes(t, s)
  BY <1>1, <1>5, ThenPushes
<1>7. QED
  BY <1>2, <1>3, <1>6, PoolAssumption DEF s

LEMMA FinishOps ==
  ASSUME BaseTypes, NEW t \in Thread, Finish(t)
  PROVE  LET h == Head(stack[t])
             s == Releases(h, Groups[h])
         IN /\ ops[t] = <<>> /\ stack[t] # <<>> /\ h \in Task
            /\ Pushes(t, s) /\ \A i \in 1..Len(s) : s[i].op = "release" /\ s[i].task = h
<1> DEFINE h == Head(stack[t])
           s == Releases(h, Groups[h])
<1>1. stack[t] # <<>> /\ ops[t] = <<>> /\ ops' = [ops EXCEPT ![t] = s]
  BY DEF Finish
<1>2. h \in Task
  BY <1>1 DEF BaseTypes, ThreadTypes
<1>3. Groups[h] \in Seq(Group)
  BY <1>2, TaskFacts
<1> HIDE DEF h
<1>4. s \in Seq(OpSet) /\ \A i \in 1..Len(s) : s[i].op = "release" /\ s[i].task = h
  BY <1>2, <1>3, ReleasesType
<1> HIDE DEF s
<1>5. Pushes(t, s)
  BY <1>1, <1>4, SetPushes
<1>6. QED
  BY <1>1, <1>2, <1>4, <1>5 DEF h, s

LEMMA SubmitOps ==
  ASSUME BaseTypes, NEW t \in Thread, NEW h \in Task, Submit(t, h)
  PROVE  ops[t] = <<>> /\ Pushes(t, <<SubmitCall(h)>>)
<1>1. ops[t] = <<>> /\ ops' = [ops EXCEPT ![t] = <<SubmitCall(h)>>]
  BY DEF Submit, InBody
<1>2. <<SubmitCall(h)>> \in Seq(OpSet)
  BY CallTypes, OneSeq
<1>3. QED
  BY <1>1, <1>2, SetPushes

LEMMA AddIdleTaskOps ==
  ASSUME BaseTypes, NEW t \in Thread, NEW h \in Task, AddIdleTask(t, h)
  PROVE  /\ ops[t] = <<>>
         /\ \/ Pushes(t, <<[op |-> "notify", pool |-> MainPool, clear |-> TRUE]>>)
            \/ ops' = ops
<1> DEFINE s == <<[op |-> "notify", pool |-> MainPool, clear |-> TRUE]>>
<1>1. ops[t] = <<>>
  BY DEF AddIdleTask, BodyIn, InBody
<1>2. MainPool \in Pool
  BY PoolAssumption DEF MainPool
<1>3. s \in Seq(OpSet)
  <2>1. [op |-> "notify", pool |-> MainPool, clear |-> TRUE] \in OpSet
    BY <1>2, NotifyType DEF OpSet
  <2>2. QED
    BY <2>1
<1>4. ops' = [ops EXCEPT ![t] = s] \/ ops' = ops
  <2>1. CASE IdlePool[h] = None
    BY <2>1 DEF AddIdleTask
  <2>2. CASE IdlePool[h] # None
    BY <2>2 DEF AddIdleTask
  <2>3. QED
    BY <2>1, <2>2
<1> HIDE DEF s
<1>5. ASSUME ops' = [ops EXCEPT ![t] = s] PROVE Pushes(t, s)
  BY <1>1, <1>3, <1>5, SetPushes
<1>6. QED
  BY <1>1, <1>4, <1>5 DEF s

\* The tasks that Shutdown submits.
OnStop == {h \in OnShutdown : status[h] = "new"}

LEMMA ShutdownOps ==
  ASSUME BaseTypes, NEW t \in Thread, NEW force, Shutdown(t, force)
  PROVE  LET c == ForEach(Sorted(OnStop), SubmitCall)
             s == c \o <<[op |-> "halt", type |-> IF force THEN "FORCE" ELSE "NORMAL"]>>
         IN /\ ops[t] = <<>> /\ OnStop \in SUBSET Task
            /\ Pushes(t, s) /\ Len(s) = Len(c) + 1 /\ Len(c) \in Nat
            /\ \A i \in 1..Len(c) : s[i] = c[i]
            /\ s[Len(c) + 1].op = "halt"
<1> DEFINE c == ForEach(Sorted(OnStop), SubmitCall)
           k == [op |-> "halt", type |-> IF force THEN "FORCE" ELSE "NORMAL"]
           s == c \o <<k>>
<1>1. OnStop \in SUBSET Task
  BY PoolAssumption DEF OnStop
<1>2. c \in Seq(OpSet)
  BY <1>1, SubmitCalls
<1>3. k \in OpSet /\ k.op = "halt"
  BY DEF HaltOp, OpSet
<1>4. ops[t] = <<>> /\ ops' = [ops EXCEPT ![t] = s]
  BY DEF Shutdown, OnStop, BodyIn, InBody
<1> HIDE DEF c, k
<1>5. <<k>> \in Seq(OpSet) /\ Len(<<k>>) = 1 /\ <<k>>[1] = k
  BY <1>3, OneSeq
<1>6. /\ s \in Seq(OpSet) /\ Len(s) = Len(c) + 1 /\ Len(c) \in Nat
      /\ \A i \in 1..(Len(c) + 1) : s[i] = IF i <= Len(c) THEN c[i] ELSE <<k>>[i - Len(c)]
  BY <1>2, <1>5, ConcatProperties, LenProperties
<1>7. s[Len(c) + 1] = k /\ \A i \in 1..Len(c) : s[i] = c[i]
  <2> DEFINE n == Len(c)
  <2>1. n \in Nat /\ n + 1 \in 1..(n + 1) /\ (n + 1) - n = 1 /\ ~(n + 1 <= n)
    BY <1>6
  <2>2. s[n + 1] = k
    BY <1>6, <1>5, <2>1
  <2>3. QED
    BY <2>2, <1>6
<1> HIDE DEF s
<1>8. Pushes(t, s)
  BY <1>4, <1>6, SetPushes
<1>9. QED
  BY <1>1, <1>3, <1>4, <1>6, <1>7, <1>8 DEF c, k, s

LEMMA HaltOps ==
  ASSUME BaseTypes, NEW t \in Thread, Halt(t)
  PROVE  LET o == Head(ops[t])
             s == ForEach(SetToSeq(made), LAMBDA p : [op |-> "stop", pool |-> p, type |-> o.type])
         IN /\ ops[t] # <<>> /\ o \in OpSet /\ o.op = "halt"
            /\ Pushes(t, s) /\ \A i \in 1..Len(s) : s[i].op = "stop"
<1> DEFINE o == Head(ops[t])
           s == ForEach(SetToSeq(made), LAMBDA p : [op |-> "stop", pool |-> p, type |-> o.type])
<1>1. Op(t, "halt") /\ Then(t, s)
  BY DEF Halt
<1>2. ops[t] # <<>> /\ o \in OpSet /\ o.op = "halt"
  BY <1>1, HeadType DEF Op, BaseTypes
<1>3. o.type \in {"NORMAL", "FORCE", "FINAL"}
  BY <1>2, Members DEF HaltOp
<1>4. SetToSeq(made) \in Seq(Pool)
  BY SetToSeqType DEF BaseTypes, MadeTypes
<1>5. s = [i \in DOMAIN SetToSeq(made) |->
             [op |-> "stop", pool |-> SetToSeq(made)[i], type |-> o.type]]
  BY DEF ForEach
<1> HIDE DEF s, o
<1>6. s \in Seq(OpSet) /\ \A i \in 1..Len(s) : s[i].op = "stop"
  BY <1>3, <1>4, <1>5, Stops
<1>7. Pushes(t, s)
  BY <1>1, <1>6, ThenPushes
<1>8. QED
  BY <1>2, <1>6, <1>7 DEF o, s

LEMMA MutexOps ==
  ASSUME BaseTypes, NEW t \in Thread, LetGo(t) \/ Join(t)
  PROVE  LET o == Head(ops[t]) IN
         /\ ops[t] # <<>> /\ o \in OpSet /\ o.op = IF LetGo(t) THEN "unlock" ELSE "join"
         /\ o.pool \in Pool /\ Pushes(t, <<>>)
<1> DEFINE o == Head(ops[t])
           name == IF LetGo(t) THEN "unlock" ELSE "join"
<1>1. Op(t, name) /\ Then(t, <<>>)
  BY DEF LetGo, Join
<1> HIDE DEF name
<1>2. ops[t] # <<>> /\ o \in OpSet /\ o.op = name
  BY <1>1, HeadType DEF Op, BaseTypes
<1>3. o.pool \in Pool
  BY <1>2, Members DEF MutexOp, name
<1>4. Pushes(t, <<>>)
  BY <1>1, EmptySeq, ThenPushes
<1>5. QED
  BY <1>2, <1>3, <1>4 DEF name

\* The three outcomes of GetTask: the thread waits again, goes through the queue, or leaves.
Waits(t) == /\ pc' = [pc EXCEPT ![t] = "wait"] /\ UNCHANGED <<pool, ops>>
Looks(t) == /\ pc' = [pc EXCEPT ![t] = "top"] /\ pool' = [pool EXCEPT ![Home[t]].owner = t]
            /\ LET k == IF pool[Home[t]].live /\ pool[Home[t]].queue # {}
                        THEN Attempt(First(pool[Home[t]].queue)) ELSE [op |-> "idle"]
               IN  k \in OpSet /\ Pushes(t, <<k>>)
Leaves(t) == /\ pc' = WakeAll(Home[t], [pc EXCEPT ![t] = "exited"]) /\ UNCHANGED pool
             /\ \E s : Pushes(t, s) /\ \A i \in 1..Len(s) : s[i].op = "stop"

LEMMA GetTaskOps ==
  ASSUME BaseTypes, NEW t \in Thread, GetTask(t)
  PROVE  /\ Home[t] \in Pool /\ pool[Home[t]].owner = None
         /\ pc[t] \in {"top", "woken"} /\ stack[t] = <<>> /\ ops[t] = <<>>
         /\ pool[Home[t]].queue # {} => First(pool[Home[t]].queue) \in pool[Home[t]].queue
         /\ Waits(t) \/ Looks(t) \/ Leaves(t)
<1> DEFINE p == Home[t]
           P == pool[p]
           k == IF P.live /\ P.queue # {} THEN Attempt(First(P.queue)) ELSE [op |-> "idle"]
           s == IF t = MainThread THEN FinalStops ELSE <<>>
<1>1. p \in Pool /\ P.queue \in SUBSET Task
  BY PoolFacts, PoolAssumption
<1>2. /\ P.owner = None /\ pc[t] \in {"top", "woken"} /\ stack[t] = <<>> /\ ops[t] = <<>>
  BY DEF GetTask, Unlocked
<1>3. P.queue # {} => First(P.queue) \in P.queue
  BY <1>1, FirstOf
<1>4. k \in OpSet
  <2>1. [op |-> "idle"] \in OpSet
    BY DEF IdleOp, OpSet
  <2>2. QED
    BY <2>1, <1>1, <1>3, CallTypes
<1>5. s \in Seq(OpSet) /\ \A i \in 1..Len(s) : s[i].op = "stop"
  <2>1. FinalStops \in Seq(OpSet) /\ \A i \in 1..Len(FinalStops) : FinalStops[i].op = "stop"
    BY FinalStopsType DEF BaseTypes, MadeTypes
  <2>2. QED
    BY <2>1
<1>6. CASE pc[t] = "woken" /\ ~P.live /\ (P.running \/ P.queue # {})
  <2>1. Waits(t)
    BY <1>6 DEF GetTask, Waits
  <2>2. QED
    BY <1>1, <1>2, <1>3, <2>1
<1>7. CASE ~(pc[t] = "woken" /\ ~P.live /\ (P.running \/ P.queue # {})) /\ (P.running \/ P.queue # {})
  <2>1. /\ pc' = [pc EXCEPT ![t] = "top"] /\ pool' = [pool EXCEPT ![p].owner = t]
        /\ ops' = [ops EXCEPT ![t] = <<k>>]
    BY <1>7 DEF GetTask
  <2> HIDE DEF k
  <2>2. Pushes(t, <<k>>)
    BY <2>1, <1>2, <1>4, OneSeq, SetPushes
  <2>3. Looks(t)
    BY <2>1, <2>2, <1>4 DEF Looks, k
  <2>4. QED
    BY <1>1, <1>2, <1>3, <2>3
<1>8. CASE ~(P.running \/ P.queue # {})
  <2>1. /\ pc' = WakeAll(p, [pc EXCEPT ![t] = "exited"]) /\ UNCHANGED pool
        /\ ops' = [ops EXCEPT ![t] = s]
    BY <1>8 DEF GetTask
  <2> HIDE DEF s
  <2>2. Pushes(t, s)
    BY <2>1, <1>2, <1>5, SetPushes
  <2>3. Leaves(t)
    BY <2>1, <2>2, <1>5 DEF Leaves
  <2>4. QED
    BY <1>1, <1>2, <1>3, <2>3
<1>9. QED
  BY <1>6, <1>7, <1>8

LEMMA StopPoolOps ==
  ASSUME BaseTypes, NEW t \in Thread, StopPool(t)
  PROVE  LET o == Head(ops[t])
             p == o.pool
             force == o.type = "FORCE"
         IN /\ ops[t] # <<>> /\ o \in OpSet /\ o.op = "stop" /\ p \in Pool
            /\ pool[p].owner = None
            /\ pool[p].queue \in SUBSET Task
            /\ IF force
               THEN \E s : /\ Pushes(t, s)
                           /\ \A i \in 1..Len(s) :
                                 \/ s[i].op = "release" /\ s[i].task \in pool[p].queue
                                 \/ i = Len(s) /\ s[i] = [op |-> "unlock", pool |-> p]
               ELSE \E s : Pushes(t, s) /\ \A i \in 1..Len(s) : s[i].op = "join"
<1> DEFINE o == Head(ops[t])
           p == o.pool
           force == o.type = "FORCE"
           locked == {h \in pool[p].queue : Groups[h] # <<>>}
           f == Append(ForEach(Sorted(locked), LAMBDA h :
                           [op |-> "release", task |-> h, groups |-> Groups[h]]),
                       [op |-> "unlock", pool |-> p])
           j == IF o.type = "FINAL" THEN <<[op |-> "join", pool |-> p]>> ELSE <<>>
<1>1. Op(t, "stop") /\ Then(t, IF force THEN f ELSE j) /\ pool[p].owner = None
  BY DEF StopPool, Unlocked
<1>2. ops[t] # <<>> /\ o \in OpSet /\ o.op = "stop"
  BY <1>1, HeadType DEF Op, BaseTypes
<1>3. p \in Pool
  BY <1>2, Members DEF StopOp
<1>4. pool[p].queue \in SUBSET Task /\ locked \in SUBSET {h \in Task : Groups[h] # <<>>}
  BY <1>3, PoolFacts
<1>5. f = ForcedOps(locked, p)
  BY DEF ForEach, ForcedOps
<1>6. locked \subseteq pool[p].queue
  OBVIOUS
<1> HIDE DEF f, p, locked
<1>7. /\ f \in Seq(OpSet) /\ Len(f) = Cardinality(locked) + 1 /\ Cardinality(locked) \in Nat
      /\ \A i \in 1..Cardinality(locked) : f[i].op = "release" /\ f[i].task \in locked
      /\ f[Cardinality(locked) + 1] = [op |-> "unlock", pool |-> p]
  BY <1>3, <1>4, <1>5, ForcedType
<1>8. \A i \in 1..Len(f) : \/ f[i].op = "release" /\ f[i].task \in pool[p].queue
                           \/ i = Len(f) /\ f[i] = [op |-> "unlock", pool |-> p]
  <2> DEFINE n == Cardinality(locked)
  <2>1. n \in Nat /\ Len(f) = n + 1
    BY <1>7
  <2>2. \A i \in 1..(n + 1) : i \in 1..n \/ i = n + 1
    BY <2>1
  <2>3. QED
    BY <2>1, <2>2, <1>6, <1>7
<1>9. j \in Seq(OpSet) /\ \A i \in 1..Len(j) : j[i].op = "join"
  <2>1. [op |-> "join", pool |-> p] \in OpSet
    BY <1>3 DEF MutexOp, OpSet
  <2>2. QED
    BY <2>1
<1> HIDE DEF j, force
<1>10. CASE force
  <2>1. Pushes(t, f)
    BY <1>1, <1>7, <1>10, ThenPushes
  <2>2. \E s : /\ Pushes(t, s)
               /\ \A i \in 1..Len(s) :
                     \/ s[i].op = "release" /\ s[i].task \in pool[p].queue
                     \/ i = Len(s) /\ s[i] = [op |-> "unlock", pool |-> p]
    BY <2>1, <1>8
  <2>3. QED
    BY <1>1, <1>2, <1>3, <1>4, <1>10, <2>2 DEF p, force
<1>11. CASE ~force
  <2>1. Pushes(t, j)
    BY <1>1, <1>9, <1>11, ThenPushes
  <2>2. \E s : Pushes(t, s) /\ \A i \in 1..Len(s) : s[i].op = "join"
    BY <2>1, <1>9
  <2>3. QED
    BY <1>1, <1>2, <1>3, <1>4, <1>11, <2>2 DEF p, force
<1>12. QED
  BY <1>10, <1>11
-----------------------------------------------------------------------------
(* Each action keeps the types of the calls and TaskInv.                               *)
LEMMA TaskStep ==
  ASSUME BaseTypes, Sole, Alone, OpsInv, NEW t \in Thread, NEW s, Pushes(t, s), Brings(t, s),
         \/ \A i \in 1..Len(s) : ~AtPool(s[i])
         \/ Len(s) = 1 /\ (ops[t] = <<>> \/ AtPool(Head(ops[t]))),
         \A u \in Thread, o \in OpSet : Stays(t, u, o) /\ OpInv(u, o) => OpInv(u, o)',
         \A o \in OpSet : (\E i \in 1..Len(s) : o = s[i]) => OpInv(t, o)'
  PROVE  OpTypes' /\ Sole' /\ Alone' /\ OpsInv'
<1>1. OpTypes
  BY DEF BaseTypes
<1>2. OpTypes'
  BY <1>1, PushTypes
<1>3. Sole'
  BY <1>1, SoleNext
<1>4. Alone'
  BY <1>1, AloneNext
<1>5. ASSUME NEW u \in Thread, NEW o \in OpSet, Doing(u, o)' PROVE OpInv(u, o)'
  <2>1. CASE u = t /\ \E i \in 1..Len(s) : o = s[i]
    BY <2>1
  <2>2. CASE Stays(t, u, o)
    <3>1. Doing(u, o)
      BY <2>2 DEF Stays
    <3>2. OpInv(u, o)
      BY <3>1 DEF OpsInv
    <3>3. QED
      BY <3>2, <2>2
  <2>3. QED
    BY <1>1, <1>5, <2>1, <2>2, PushDoing
<1>6. OpsInv'
  BY <1>5 DEF OpsInv
<1>7. QED
  BY <1>2, <1>3, <1>4, <1>6

LEMMA SameOps ==
  ASSUME OpTypes, Sole, Alone, OpsInv, ops' = ops,
         \A u \in Thread, o \in OpSet : OpInv(u, o) => OpInv(u, o)'
  PROVE  OpTypes' /\ Sole' /\ Alone' /\ OpsInv'
<1>1. OpTypes' /\ Sole' /\ Alone'
  BY DEF OpTypes, Sole, Alone
<1>2. \A u, o : Doing(u, o)' <=> Doing(u, o)
  BY DEF Doing
<1>3. QED
  BY <1>1, <1>2 DEF OpsInv

\* What most steps do to what the invariant speaks of: a lock may be taken and a new task
\* submitted or dropped; and a mutex that nobody has may be taken.
Calm ==
    /\ \A g \in Group : group[g].locked \subseteq group'[g].locked
    /\ stack' = stack
    /\ \A h \in Task : \/ status'[h] = status[h]
                       \/ status[h] = "new" /\ status'[h] \in {"submitted", "dropped"}
    /\ \A p \in Pool : pool'[p].queue = pool[p].queue
Mild ==
    /\ Calm
    /\ \A p \in Pool : pool'[p].owner = pool[p].owner \/ pool[p].owner = None

LEMMA GotKept ==
  ASSUME NEW h \in Task, NEW s, Got(h, s),
         \A g \in Group : h \in group[g].locked => h \in group'[g].locked
  PROVE  Got(h, s)'
<1>1. \A i \in 1..Len(Groups[h]) : Groups[h][i] \in Group
  BY TaskFacts, ElementOfSeq
<1>2. QED
  BY <1>1 DEF Got

LEMMA OpTask ==
  ASSUME NEW o \in OpSet
  PROVE  /\ o.op \in {"getpool", "insert", "submit", "inline", "take", "lock", "release"} => o.task \in Task
         /\ o.op = "ask" /\ o.next.op = "submit" => o.next.task \in Task
<1>1. CASE o.op \in {"getpool", "take"}
  BY <1>1, Members DEF TaskOp
<1>2. CASE o.op = "inline"
  BY <1>2, Members DEF InlineOp
<1>3. CASE o.op \in {"insert", "release"}
  BY <1>3, Members DEF GroupsOp
<1>4. CASE o.op = "submit"
  BY <1>4, Members DEF SubmitOp
<1>5. CASE o.op = "lock"
  BY <1>5, Members DEF LockOp, InlineLockOp
<1>6. CASE o.op = "ask"
  BY <1>6, Members DEF AskOp, SubmitOp, NotifyOp
<1>7. QED
  BY <1>1, <1>2, <1>3, <1>4, <1>5, <1>6

LEMMA OpKept ==
  ASSUME NEW u \in Thread, NEW o \in OpSet, OpInv(u, o),
         \A h \in Task : Submits(o, h) => status'[h] = "submitted",
         o.op = "release" => status'[o.task] \in {"done", "dropped"},
         AtPool(o) => pool'[Home[u]].owner = u,
         AtPool(o) /\ o.op # "idle" => o.task \in pool'[Home[u]].queue,
         \A p \in Pool : Unlocks(o, p) => pool'[p].owner = u,
         o.op \in {"lock", "inline", "take"} =>
            \A g \in Group : o.task \in group[g].locked => o.task \in group'[g].locked
  PROVE  OpInv(u, o)'
<1>1. ASSUME o.op = "lock" PROVE Got(o.task, o.groups)'
  <2>1. o.task \in Task /\ Got(o.task, o.groups)
    BY <1>1, OpTask DEF OpInv
  <2>2. QED
    BY <1>1, <2>1, GotKept
<1>2. ASSUME o.op \in {"inline", "take"} PROVE Got(o.task, <<>>)'
  <2>1. o.task \in Task /\ Got(o.task, <<>>)
    BY <1>2, OpTask DEF OpInv
  <2>2. QED
    BY <1>2, <2>1, GotKept
<1>3. QED
  BY <1>1, <1>2 DEF OpInv

LEMMA MildOps ==
  ASSUME Mild, NEW u \in Thread, NEW o \in OpSet, OpInv(u, o) PROVE OpInv(u, o)'
<1>1. ASSUME NEW h \in Task, Submits(o, h) PROVE status'[h] = "submitted"
  BY <1>1 DEF Mild, Calm, OpInv
<1>2. ASSUME o.op = "release" PROVE status'[o.task] \in {"done", "dropped"}
  BY <1>2, OpTask DEF Mild, Calm, OpInv
<1>3. None \notin Thread /\ Home[u] \in Pool
  BY PoolAssumption
<1>4. ASSUME AtPool(o) PROVE /\ pool'[Home[u]].owner = u
                             /\ o.op # "idle" => o.task \in pool'[Home[u]].queue
  <2>1. pool[Home[u]].owner = u /\ (o.op # "idle" => o.task \in pool[Home[u]].queue)
    BY <1>4 DEF OpInv
  <2>2. QED
    BY <1>3, <2>1 DEF Mild, Calm
<1>5. ASSUME NEW p \in Pool, Unlocks(o, p) PROVE pool'[p].owner = u
  <2>1. pool[p].owner = u
    BY <1>5 DEF OpInv
  <2>2. QED
    BY <1>3, <2>1 DEF Mild, Calm
<1>6. \A g \in Group : o.task \in group[g].locked => o.task \in group'[g].locked
  BY DEF Mild, Calm
<1>7. QED
  BY <1>1, <1>2, <1>4, <1>5, <1>6, OpKept

LEMMA CalmRest ==
  ASSUME BaseTypes, QueueInv, StackInv, RunInv, Calm PROVE QueueInv' /\ StackInv' /\ RunInv'
<1>1. QueueInv'
  <2> SUFFICES ASSUME NEW p \in Pool, NEW h \in pool'[p].queue
               PROVE  status'[h] = "queued" /\ Target[h] = p
    BY DEF QueueInv
  <2>1. h \in pool[p].queue /\ h \in Task
    BY PoolFacts DEF Mild, Calm
  <2>2. status[h] = "queued" /\ Target[h] = p
    BY <2>1 DEF QueueInv
  <2>3. QED
    BY <2>1, <2>2 DEF Mild, Calm
<1>2. StackInv'
  <2>1. \A t \in Thread : \A i \in 1..Len(stack[t]) : stack[t][i] \in Task
    BY ElementOfSeq DEF BaseTypes, ThreadTypes
  <2>2. \A t \in Thread : \A i \in 1..Len(stack[t]) : status'[stack[t][i]] = "running"
    BY <2>1 DEF StackInv, Calm
  <2>3. stack' = stack
    BY DEF Mild, Calm
  <2>4. QED
    BY <2>2, <2>3 DEF StackInv
<1>3. RunInv'
  <2> SUFFICES ASSUME NEW h \in Task, status'[h] = "running" PROVE Got(h, <<>>)'
    BY DEF RunInv
  <2>1. status[h] = "running"
    BY DEF Mild, Calm
  <2>2. QED
    BY <2>1, GotKept DEF RunInv, Calm
<1>4. QED
  BY <1>1, <1>2, <1>3

LEMMA MildStep ==
  ASSUME BaseTypes, TaskInv, Mild, NEW t \in Thread, NEW s, Pushes(t, s), Brings(t, s),
         \/ \A i \in 1..Len(s) : ~AtPool(s[i])
         \/ Len(s) = 1 /\ (ops[t] = <<>> \/ AtPool(Head(ops[t]))),
         \A o \in OpSet : (\E i \in 1..Len(s) : o = s[i]) => OpInv(t, o)'
  PROVE  OpTypes' /\ TaskInv'
<1>1. \A u \in Thread, o \in OpSet : Stays(t, u, o) /\ OpInv(u, o) => OpInv(u, o)'
  BY MildOps
<1>2. OpTypes' /\ Sole' /\ Alone' /\ OpsInv'
  BY <1>1, TaskStep DEF TaskInv
<1>3. QED
  BY <1>2, CalmRest DEF TaskInv, Mild

LEMMA MildSame ==
  ASSUME BaseTypes, TaskInv, Mild, ops' = ops PROVE OpTypes' /\ TaskInv'
<1>1. \A u \in Thread, o \in OpSet : OpInv(u, o) => OpInv(u, o)'
  BY MildOps
<1>2. OpTypes' /\ Sole' /\ Alone' /\ OpsInv'
  BY <1>1, SameOps DEF TaskInv, BaseTypes
<1>3. QED
  BY <1>2, CalmRest DEF TaskInv, Mild

\* A step that pushes only quiet steps, none of them a release of a task that may be needed.
LEMMA MildQuiet ==
  ASSUME BaseTypes, TaskInv, Mild, NEW t \in Thread, NEW s, Pushes(t, s),
         \A i \in 1..Len(s) : Quiet(s[i]) /\ s[i].op # "release"
  PROVE  OpTypes' /\ TaskInv'
<1>1. Brings(t, s) /\ \A i \in 1..Len(s) : ~AtPool(s[i])
  BY QuietBrings
<1>2. ASSUME NEW o \in OpSet, NEW i \in 1..Len(s), o = s[i] PROVE OpInv(t, o)'
  BY <1>2, QuietInv
<1>3. QED
  BY <1>1, <1>2, MildStep

LEMMA MildOne ==
  ASSUME BaseTypes, TaskInv, Mild, NEW t \in Thread, NEW k, Pushes(t, <<k>>),
         ops[t] # <<>>,
         \A h \in Task : Submits(k, h) => Submits(Head(ops[t]), h),
         \A p \in Pool : ~Unlocks(k, p),
         AtPool(k) => AtPool(Head(ops[t])),
         \A o \in OpSet : o = k => OpInv(t, o)'
  PROVE  OpTypes' /\ TaskInv'
<1> DEFINE s == <<k>>
<1>1. Len(s) = 1 /\ s[1] = k /\ \A i \in 1..Len(s) : i = 1
  OBVIOUS
<1>2. Brings(t, s)
  BY OneBrings
<1> HIDE DEF s
<1>3. \/ \A i \in 1..Len(s) : ~AtPool(s[i])
      \/ Len(s) = 1 /\ (ops[t] = <<>> \/ AtPool(Head(ops[t])))
  BY <1>1
<1>4. \A o \in OpSet : (\E i \in 1..Len(s) : o = s[i]) => OpInv(t, o)'
  BY <1>1
<1>5. Pushes(t, s)
  BY DEF s
<1>6. QED
  BY <1>2, <1>3, <1>4, <1>5, MildStep

\* A step that takes the head and pushes only quiet steps.
LEMMA QuietStep ==
  ASSUME BaseTypes, Sole, Alone, OpsInv, NEW t \in Thread, NEW s, Pushes(t, s),
         \A i \in 1..Len(s) :
            Quiet(s[i]) /\ (s[i].op = "release" => status'[s[i].task] \in {"done", "dropped"}),
         \A u \in Thread, o \in OpSet : Stays(t, u, o) /\ OpInv(u, o) => OpInv(u, o)'
  PROVE  OpTypes' /\ Sole' /\ Alone' /\ OpsInv'
<1>1. Brings(t, s) /\ \A i \in 1..Len(s) : ~AtPool(s[i])
  BY QuietBrings
<1>2. ASSUME NEW o \in OpSet, NEW i \in 1..Len(s), o = s[i] PROVE OpInv(t, o)'
  <2>1. Quiet(o) /\ (o.op = "release" => status'[o.task] \in {"done", "dropped"})
    BY <1>2
  <2>2. QED
    BY <2>1, QuietInv
<1>3. QED
  BY <1>1, <1>2, TaskStep

LEMMA SubmissionInv ==
  ASSUME NEW t, NEW h \in Task, NEW s, NEW o, o = Submission(h, s), status'[h] = "submitted"
  PROVE  OpInv(t, o)'
<1>1. Got(h, Groups[h])'
  BY DEF Got
<1>2. /\ \A k : Submits(o, k) => k = h
      /\ \A p : ~Unlocks(o, p)
      /\ ~AtPool(o) /\ o.op \in {"insert", "lock", "inline", "ask"}
      /\ o.op = "lock" => o.task = h /\ o.groups = Groups[h]
      /\ o.op = "inline" => o.task = h /\ Groups[h] = <<>>
  BY SubmissionFacts
<1>3. QED
  BY <1>1, <1>2 DEF OpInv

LEMMA SubmitCallInv ==
  ASSUME NEW t, NEW h \in Task, NEW o, o = SubmitCall(h), status'[h] = "submitted"
  PROVE  OpInv(t, o)'
  BY SubmitCallFacts DEF OpInv

LEMMA EnqueueInv ==
  ASSUME NEW t, NEW h \in Task, NEW o, o = Enqueue(h), status'[h] = "submitted"
  PROVE  OpInv(t, o)'
  BY EnqueueFacts DEF OpInv

LEMMA AttemptInv ==
  ASSUME NEW t, NEW h \in Task, NEW o, o = Attempt(h),
         pool'[Home[t]].owner = t, h \in pool'[Home[t]].queue
  PROVE  OpInv(t, o)'
<1>1. Got(h, Groups[h])'
  BY DEF Got
<1>2. /\ o.task = h /\ o.op \in {"lock", "take"} /\ AtPool(o) /\ o.op # "idle"
      /\ o.op = "lock" => o.groups = Groups[h]
      /\ o.op = "take" => Groups[h] = <<>>
      /\ (\A k : ~Submits(o, k)) /\ (\A p : ~Unlocks(o, p))
  BY LocksFacts DEF Attempt
<1>3. QED
  BY <1>1, <1>2 DEF OpInv

LEMMA IdleOpInv ==
  ASSUME NEW t, NEW o, o = [op |-> "idle"], pool'[Home[t]].owner = t
  PROVE  OpInv(t, o)'
<1>1. o.op = "idle"
  OBVIOUS
<1>2. QED
  BY <1>1 DEF OpInv, Submits, AtPool, Unlocks

\* Only members of pools that the invariant does not speak of change.
LEMMA SamePools ==
  ASSUME BaseTypes, NEW p, NEW P, pool' = [pool EXCEPT ![p] = P],
         p \in Pool => P.queue = pool[p].queue /\ P.owner = pool[p].owner
  PROVE  \A q \in Pool : pool'[q].queue = pool[q].queue /\ pool'[q].owner = pool[q].owner
  BY DEF BaseTypes, PoolTypes

LEMMA Clearing ==
  ASSUME NEW P \in PoolState, NEW clear
  PROVE  /\ ClearIdle(P, clear) \in PoolState
         /\ ClearIdle(P, clear).queue = P.queue /\ ClearIdle(P, clear).owner = P.owner
         /\ ClearIdle(P, clear).accept = P.accept /\ ClearIdle(P, clear).running = P.running
         /\ ClearIdle(P, clear).active = P.active
         /\ ClearIdle(P, clear).idleTasks = P.idleTasks
<1> DEFINE b == P.idle /\ ~clear
<1>1. b \in BOOLEAN /\ ClearIdle(P, clear) = [P EXCEPT !.idle = b]
  BY DEF ClearIdle
<1> HIDE DEF b
<1>2. QED
  BY <1>1 DEF PoolState

LEMMA GetPoolTask ==
  ASSUME BaseTypes, TaskInv, NEW t \in Thread, GetPool(t) PROVE OpTypes' /\ TaskInv'
<1> DEFINE h == Head(ops[t]).task
           p == Target[h]
           k == Submission(h, Groups[h])
<1>1. /\ h \in Task /\ p \in Pool
      /\ ops[t] # <<>> /\ Head(ops[t]) \in OpSet /\ Head(ops[t]).op = "getpool"
      /\ Pushes(t, <<k>>)
  BY GetPoolOps
<1>2. \A q \in Pool : pool'[q].queue = pool[q].queue /\ pool'[q].owner = pool[q].owner
  <2>1. CASE UNCHANGED pool
    BY <2>1
  <2>2. CASE pool' = [pool EXCEPT ![p].idle = p \in CountsForIdle,
                           ![p].active = IF started /\ p \in CountsForIdle
                                         THEN Cardinality(Threads(p)) ELSE 0]
    BY <2>2, <1>1 DEF BaseTypes, PoolTypes, PoolState
  <2>3. QED
    BY <2>1, <2>2 DEF GetPool
<1>3. Mild
  BY <1>2 DEF GetPool, Mild, Calm
<1>4. Submits(Head(ops[t]), h) /\ status[h] = "submitted"
  <2>1. Submits(Head(ops[t]), h)
    BY <1>1 DEF Submits
  <2>2. OpInv(t, Head(ops[t]))
    BY <1>1, HeadInv DEF BaseTypes, TaskInv
  <2>3. QED
    BY <2>1, <2>2, <1>1 DEF OpInv
<1>5. status'[h] = "submitted"
  BY <1>4 DEF GetPool
<1> HIDE DEF h, k
<1>6. (\A j : Submits(k, j) => j = h) /\ (\A q : ~Unlocks(k, q)) /\ ~AtPool(k)
  BY SubmissionFacts DEF k
<1>7. \A o \in OpSet : o = k => OpInv(t, o)'
  BY <1>1, <1>5, SubmissionInv DEF k
<1>8. QED
  BY <1>1, <1>3, <1>4, <1>6, <1>7, MildOne

LEMMA InsertHandleTask ==
  ASSUME BaseTypes, TaskInv, NEW t \in Thread, InsertHandle(t) PROVE OpTypes' /\ TaskInv'
<1> DEFINE o == Head(ops[t])
           h == o.task
           g == Head(o.groups)
           k == Submission(h, Tail(o.groups))
<1>1. /\ ops[t] # <<>> /\ o \in OpSet /\ o \in GroupsOp /\ o.op = "insert" /\ g \in Group
      /\ Pushes(t, <<k>>)
  BY InsertHandleOps
<1>2. h \in Task
  BY <1>1 DEF GroupsOp
<1>3. \A f \in Group : group'[f].locked = group[f].locked
  <2>1. group' = [group EXCEPT ![g] = Insert(group[g], h)] /\ group[g] \in GroupState
    BY <1>1 DEF InsertHandle, BaseTypes, GroupTypes
  <2>2. Insert(group[g], h).locked = group[g].locked
    BY <2>1 DEF Insert, GroupState
  <2>3. QED
    BY <2>1, <2>2 DEF BaseTypes, GroupTypes
<1>4. Mild
  BY <1>3 DEF InsertHandle, Mild, Calm
<1>5. Submits(o, h) /\ status[h] = "submitted"
  <2>1. Submits(o, h)
    BY <1>1 DEF Submits
  <2>2. OpInv(t, o)
    BY <1>1, HeadInv DEF BaseTypes, TaskInv
  <2>3. QED
    BY <2>1, <2>2, <1>2 DEF OpInv
<1>6. status'[h] = "submitted"
  BY <1>5 DEF InsertHandle
<1> HIDE DEF h, k
<1>7. (\A j : Submits(k, j) => j = h) /\ (\A q : ~Unlocks(k, q)) /\ ~AtPool(k)
  BY SubmissionFacts DEF k
<1>8. \A x \in OpSet : x = k => OpInv(t, x)'
  BY <1>2, <1>6, SubmissionInv DEF k
<1>9. QED
  BY <1>1, <1>4, <1>5, <1>7, <1>8, MildOne

LEMMA LockFacts ==
  ASSUME NEW g \in GroupState, NEW h
  PROVE  Lock(g, h).locked = g.locked \union {h}
  BY DEF Lock, GroupState

\* One more group of h is locked.
LEMMA GotNext ==
  ASSUME NEW h \in Task, NEW s \in Seq(Group), s # <<>>, Got(h, s),
         \A g \in Group : group[g].locked \subseteq group'[g].locked,
         h \in group'[Head(s)].locked
  PROVE  Got(h, Tail(s))'
<1>1. Got(h, s)'
  BY GotKept
<1>2. /\ Len(s) \in Nat /\ Head(s) = s[1] /\ Len(Tail(s)) = Len(s) - 1
      /\ \A i \in 1..Len(Tail(s)) : Tail(s)[i] = s[i + 1]
  BY HeadTailProperties, LenProperties
<1>3. \A j \in 1..Len(s) : j = 1 \/ ((j - 1) \in 1..Len(Tail(s)) /\ Tail(s)[j - 1] = s[j])
  BY <1>2
<1>4. ASSUME NEW i \in 1..Len(Groups[h])
      PROVE  \/ h \in group'[Groups[h][i]].locked
             \/ \E j \in 1..Len(Tail(s)) : Tail(s)[j] = Groups[h][i]
  <2>1. CASE h \in group'[Groups[h][i]].locked
    BY <2>1
  <2>2. ASSUME NEW j \in 1..Len(s), s[j] = Groups[h][i]
        PROVE  \/ h \in group'[Groups[h][i]].locked
               \/ \E l \in 1..Len(Tail(s)) : Tail(s)[l] = Groups[h][i]
    BY <2>2, <1>2, <1>3
  <2>3. h \in group'[Groups[h][i]].locked \/ \E j \in 1..Len(s) : s[j] = Groups[h][i]
    BY <1>1 DEF Got
  <2>4. QED
    BY <2>1, <2>2, <2>3
<1>5. QED
  BY <1>4 DEF Got

LEMMA LocksInv ==
  ASSUME NEW t, NEW h \in Task, NEW s, NEW last \in {"inline", "take"},
         NEW o, o = Locks(h, s, last), Got(h, s)',
         last = "inline" => status'[h] = "submitted",
         last = "take" => pool'[Home[t]].owner = t /\ h \in pool'[Home[t]].queue
  PROVE  OpInv(t, o)'
<1>1. /\ o.task = h /\ o.op \in {"lock", last}
      /\ o.op = "lock" => o.groups = s /\ o.last = last
      /\ o.op = last => s = <<>>
      /\ \A p : ~Unlocks(o, p)
      /\ last = "inline" => ~AtPool(o) /\ \A j : Submits(o, j) => j = h
      /\ last = "take" => AtPool(o) /\ o.op # "idle" /\ \A j : ~Submits(o, j)
  BY LocksFacts
<1>2. o.op = "lock" => Got(o.task, o.groups)'
  BY <1>1
<1>3. o.op \in {"inline", "take"} => Got(o.task, <<>>)'
  BY <1>1
<1>4. QED
  BY <1>1, <1>2, <1>3 DEF OpInv

LEMMA LockGroupTask ==
  ASSUME BaseTypes, TaskInv, NEW t \in Thread, LockGroup(t) PROVE OpTypes' /\ TaskInv'
<1> DEFINE o == Head(ops[t])
           h == o.task
           g == Head(o.groups)
           ok == Lockable(group[g], h)
           later == {j \in pool[Home[t]].queue : Before(h, j)}
           k == IF ok THEN Locks(h, Tail(o.groups), o.last)
                ELSE IF o.last = "inline" THEN Enqueue(h)
                ELSE IF later # {} THEN Attempt(First(later)) ELSE [op |-> "idle"]
<1>1. /\ ops[t] # <<>> /\ o \in OpSet /\ o.op = "lock" /\ h \in Task
      /\ o.groups \in Seq(Group) /\ o.groups # <<>> /\ g \in Group
      /\ o.last \in {"inline", "take"}
      /\ later # {} => First(later) \in later
      /\ k \in OpSet /\ Pushes(t, <<k>>)
  BY LockGroupOps
<1>2. \A f \in Group : group[f].locked \subseteq group'[f].locked
  <2>1. CASE ok
    <3>1. group' = [group EXCEPT ![g] = Lock(group[g], h)] /\ group[g] \in GroupState
      BY <2>1, <1>1 DEF LockGroup, BaseTypes, GroupTypes
    <3>2. QED
      BY <3>1, LockFacts DEF BaseTypes, GroupTypes
  <2>2. CASE ~ok
    BY <2>2 DEF LockGroup
  <2>3. QED
    BY <2>1, <2>2
<1>3. /\ Mild /\ status' = status /\ pool' = pool
  BY <1>2 DEF LockGroup, Mild, Calm
<1>4. OpInv(t, o) /\ Home[t] \in Pool
  BY <1>1, HeadInv, PoolAssumption DEF BaseTypes, TaskInv
<1>5. o.last = "inline" => Submits(o, h) /\ status[h] = "submitted" /\ status'[h] = "submitted"
  BY <1>1, <1>3, <1>4 DEF OpInv, Submits
<1>6. o.last = "take" => AtPool(o) /\ pool[Home[t]].owner = t /\ h \in pool[Home[t]].queue
  BY <1>1, <1>4 DEF OpInv, AtPool
<1>7. later \in SUBSET Task
  BY <1>4, PoolFacts
<1>8. ASSUME ok, NEW x, x = Locks(h, Tail(o.groups), o.last) PROVE OpInv(t, x)'
  <2>1. PICK j, s, last : j = h /\ s = o.groups /\ last = o.last
    OBVIOUS
  <2>2. Got(j, s)
    BY <2>1, <1>1, <1>4 DEF OpInv
  <2>3. j \in group'[Head(s)].locked
    <3>1. group' = [group EXCEPT ![g] = Lock(group[g], h)] /\ group[g] \in GroupState
      BY <1>8, <1>1 DEF LockGroup, BaseTypes, GroupTypes
    <3>2. QED
      BY <3>1, <2>1, <1>1, LockFacts DEF BaseTypes, GroupTypes
  <2>4. j \in Task /\ s \in Seq(Group) /\ s # <<>> /\ last \in {"inline", "take"}
    BY <2>1, <1>1
  <2>5. Got(j, Tail(s))'
    BY <2>2, <2>3, <2>4, <1>2, GotNext
  <2>6. last = "inline" => status'[j] = "submitted"
    BY <2>1, <1>5
  <2>7. last = "take" => pool'[Home[t]].owner = t /\ j \in pool'[Home[t]].queue
    BY <2>1, <1>3, <1>6
  <2>8. x = Locks(j, Tail(s), last)
    BY <1>8, <2>1
  <2>9. QED
    BY <2>4, <2>5, <2>6, <2>7, <2>8, LocksInv
<1> HIDE DEF h, g, ok, later
<1>9. CASE ok
  <2>1. k = Locks(h, Tail(o.groups), o.last)
    BY <1>9
  <2> HIDE DEF k
  <2>2. /\ \A p : ~Unlocks(k, p)
        /\ o.last = "inline" => ~AtPool(k) /\ \A j : Submits(k, j) => j = h
        /\ o.last = "take" => AtPool(k) /\ \A j : ~Submits(k, j)
    <3>1. PICK j, s, last : j = h /\ s = Tail(o.groups) /\ last = o.last
      OBVIOUS
    <3>2. k = Locks(j, s, last) /\ last \in {"inline", "take"}
      BY <2>1, <3>1, <1>1
    <3>3. /\ \A p : ~Unlocks(k, p)
          /\ last = "inline" => ~AtPool(k) /\ \A i : Submits(k, i) => i = j
          /\ last = "take" => AtPool(k) /\ \A i : ~Submits(k, i)
      BY <3>2, LocksFacts
    <3>4. QED
      BY <3>1, <3>3
  <2>3. \A x \in OpSet : x = k => OpInv(t, x)'
    BY <2>1, <1>8, <1>9
  <2>4. \A j \in Task : Submits(k, j) => Submits(o, j)
    BY <2>2, <1>1, <1>5
  <2>5. AtPool(k) => AtPool(o)
    BY <2>2, <1>1, <1>6
  <2>6. QED
    BY <2>2, <2>3, <2>4, <2>5, <1>1, <1>3, MildOne
<1>10. CASE ~ok /\ o.last = "inline"
  <2>1. k = Enqueue(h)
    BY <1>10
  <2>2. (\A j : Submits(k, j) => j = h) /\ (\A q : ~Unlocks(k, q)) /\ ~AtPool(k)
    BY <2>1, EnqueueFacts
  <2> HIDE DEF k
  <2>3. \A x \in OpSet : x = k => OpInv(t, x)'
    BY <2>1, <1>1, <1>5, <1>10, EnqueueInv
  <2>4. QED
    BY <2>2, <2>3, <1>1, <1>3, <1>5, <1>10, MildOne
<1>11. CASE ~ok /\ o.last = "take" /\ later # {}
  <2>1. k = Attempt(First(later)) /\ First(later) \in later /\ First(later) \in Task
    BY <1>1, <1>7, <1>11
  <2>2. (\A j : ~Submits(k, j)) /\ (\A q : ~Unlocks(k, q))
    BY <2>1, LocksFacts DEF Attempt
  <2> HIDE DEF k
  <2>3. First(later) \in pool'[Home[t]].queue /\ pool'[Home[t]].owner = t
    BY <2>1, <1>3, <1>6, <1>11 DEF later
  <2>4. \A x \in OpSet : x = k => OpInv(t, x)'
    BY <2>1, <2>3, AttemptInv
  <2>5. QED
    BY <2>2, <2>4, <1>1, <1>3, <1>6, <1>11, MildOne
<1>12. CASE ~ok /\ o.last = "take" /\ later = {}
  <2>1. k = [op |-> "idle"]
    BY <1>12
  <2>2. (\A j : ~Submits(k, j)) /\ (\A q : ~Unlocks(k, q))
    BY <2>1 DEF Submits, Unlocks
  <2> HIDE DEF k
  <2>3. \A x \in OpSet : x = k => OpInv(t, x)'
    BY <2>1, <1>3, <1>6, <1>12, IdleOpInv
  <2>4. QED
    BY <2>2, <2>3, <1>1, <1>3, <1>6, <1>12, MildOne
<1>13. QED
  BY <1>1, <1>9, <1>10, <1>11, <1>12

LEMMA StackAt ==
  ASSUME BaseTypes, NEW t \in Thread, NEW i \in 1..Len(stack[t])
  PROVE  stack[t] \in Seq(Task) /\ Len(stack[t]) \in Nat /\ stack[t][i] \in Task
<1>1. stack[t] \in Seq(Task)
  BY DEF BaseTypes, ThreadTypes
<1>2. QED
  BY <1>1, ElementOfSeq, LenProperties

\* A task begins on top of those that its thread is in.
LEMMA StackPush ==
  ASSUME BaseTypes, StackInv, NEW t \in Thread, NEW h \in Task, status[h] # "running",
         status' = [status EXCEPT ![h] = "running"],
         stack' = [stack EXCEPT ![t] = <<h>> \o stack[t]]
  PROVE  StackInv'
<1> DEFINE r == <<h>> \o stack[t]
<1>1. stack \in [Thread -> Seq(Task)] /\ status' = [j \in Task |-> IF j = h THEN "running" ELSE status[j]]
  BY DEF BaseTypes, ThreadTypes, StatusTypes
<1>2. /\ Len(stack[t]) \in Nat /\ Len(r) = Len(stack[t]) + 1
      /\ \A i \in 1..Len(r) : r[i] = IF i = 1 THEN h ELSE stack[t][i - 1]
  <2>1. <<h>> \in Seq(Task) /\ Len(<<h>>) = 1 /\ <<h>>[1] = h
    OBVIOUS
  <2>2. /\ Len(stack[t]) \in Nat /\ Len(r) = 1 + Len(stack[t])
        /\ \A i \in 1..(1 + Len(stack[t])) : r[i] = IF i <= 1 THEN <<h>>[i] ELSE stack[t][i - 1]
    BY <2>1, <1>1, ConcatProperties, LenProperties
  <2> HIDE DEF r
  <2>3. ASSUME NEW i \in 1..Len(r) PROVE r[i] = IF i = 1 THEN h ELSE stack[t][i - 1]
    BY <2>1, <2>2
  <2>4. QED
    BY <2>2, <2>3
<1>3. stack' = [stack EXCEPT ![t] = r]
  OBVIOUS
<1> HIDE DEF r
<1>4. ASSUME NEW u \in Thread, NEW i \in 1..Len(stack[u])
      PROVE  stack[u][i] \in Task /\ status[stack[u][i]] = "running" /\ stack[u][i] # h
  BY StackAt DEF StackInv
<1> DEFINE Old(u, i, k) == k \in 1..Len(stack[u]) /\ stack'[u][i] = stack[u][k]
                           /\ (IF u = t THEN k = i - 1 ELSE k = i)
<1>5. ASSUME NEW u \in Thread, NEW i \in 1..Len(stack'[u])
      PROVE  \/ u = t /\ i = 1 /\ stack'[u][i] = h
             \/ \E k \in Nat : Old(u, i, k)
  <2>1. CASE u # t
    <3>1. stack'[u] = stack[u]
      BY <2>1, <1>1, <1>3
    <3>2. Old(u, i, i) /\ i \in Nat
      BY <2>1, <3>1
    <3>3. QED
      BY <3>2
  <2>2. CASE u = t
    <3>1. stack'[u] = r
      BY <2>2, <1>1, <1>3
    <3>2. CASE i = 1
      BY <3>1, <3>2, <2>2, <1>2
    <3>3. CASE i # 1
      <4>1. i - 1 \in Nat /\ i - 1 \in 1..Len(stack[t]) /\ r[i] = stack[t][i - 1]
        BY <3>1, <3>3, <1>2
      <4>2. Old(u, i, i - 1)
        BY <4>1, <3>1, <2>2
      <4>3. QED
        BY <4>1, <4>2
    <3>4. QED
      BY <3>2, <3>3
  <2>3. QED
    BY <2>1, <2>2
<1>6. ASSUME NEW u \in Thread, NEW i \in 1..Len(stack'[u]) PROVE status'[stack'[u][i]] = "running"
  <2>1. CASE stack'[u][i] = h
    BY <2>1, <1>1
  <2>2. ASSUME NEW k \in Nat, Old(u, i, k) PROVE status'[stack'[u][i]] = "running"
    BY <2>2, <1>1, <1>4
  <2>3. QED
    BY <2>1, <2>2, <1>5
<1>7. ASSUME NEW u \in Thread, NEW i \in 1..Len(stack'[u]),
             NEW v \in Thread, NEW j \in 1..Len(stack'[v]), u # v \/ i # j
      PROVE  stack'[u][i] # stack'[v][j]
  <2>1. ASSUME NEW k \in Nat, Old(u, i, k), NEW l \in Nat, Old(v, j, l)
        PROVE  stack'[u][i] # stack'[v][j]
    <3>1. u # v \/ k # l
      BY <2>1, <1>7
    <3>2. QED
      BY <2>1, <3>1 DEF StackInv
  <2>2. ASSUME NEW k \in Nat, Old(u, i, k), v = t /\ j = 1 /\ stack'[v][j] = h
        PROVE  stack'[u][i] # stack'[v][j]
    BY <2>2, <1>4
  <2>3. ASSUME NEW k \in Nat, Old(v, j, k), u = t /\ i = 1 /\ stack'[u][i] = h
        PROVE  stack'[u][i] # stack'[v][j]
    BY <2>3, <1>4
  <2> HIDE DEF Old
  <2>4. QED
    BY <2>1, <2>2, <2>3, <1>5, <1>7
<1>8. QED
  BY <1>6, <1>7 DEF StackInv

\* The task on top ends.
LEMMA StackPop ==
  ASSUME BaseTypes, StackInv, NEW t \in Thread, stack[t] # <<>>,
         status' = [status EXCEPT ![Head(stack[t])] = "done"],
         stack' = [stack EXCEPT ![t] = Tail(stack[t])]
  PROVE  StackInv' /\ Head(stack[t]) \in Task /\ status[Head(stack[t])] = "running"
<1> DEFINE r == Tail(stack[t])
           h == Head(stack[t])
<1>1. stack \in [Thread -> Seq(Task)] /\ status \in [Task -> {"new", "submitted", "queued", "running", "done", "dropped"}]
  BY DEF BaseTypes, ThreadTypes, StatusTypes
<1>2. /\ Len(stack[t]) \in Nat /\ Len(r) = Len(stack[t]) - 1 /\ h = stack[t][1]
      /\ 1 \in 1..Len(stack[t]) /\ h \in Task
      /\ \A i \in 1..Len(r) : r[i] = stack[t][i + 1]
  BY <1>1, HeadTailProperties, LenProperties
<1>3. stack' = [stack EXCEPT ![t] = r] /\ status' = [status EXCEPT ![h] = "done"]
  OBVIOUS
<1> HIDE DEF r
<1>4. status[h] = "running"
  BY <1>2 DEF StackInv
<1> DEFINE Old(u, i, k) == k \in 1..Len(stack[u]) /\ stack'[u][i] = stack[u][k]
                           /\ (IF u = t THEN k = i + 1 /\ k # 1 ELSE k = i)
<1>5. ASSUME NEW u \in Thread, NEW i \in 1..Len(stack'[u]) PROVE \E k \in Nat : Old(u, i, k)
  <2>1. CASE u # t
    <3>1. stack'[u] = stack[u]
      BY <2>1, <1>1, <1>3
    <3>2. Old(u, i, i) /\ i \in Nat
      BY <2>1, <3>1
    <3>3. QED
      BY <3>2
  <2>2. CASE u = t
    <3>1. stack'[u] = r
      BY <2>2, <1>1, <1>3
    <3>2. i + 1 \in Nat /\ i + 1 \in 1..Len(stack[t]) /\ r[i] = stack[t][i + 1] /\ i + 1 # 1
      BY <3>1, <1>2
    <3>3. Old(u, i, i + 1)
      BY <3>1, <3>2, <2>2
    <3>4. QED
      BY <3>2, <3>3
  <2>3. QED
    BY <2>1, <2>2
<1>6. ASSUME NEW u \in Thread, NEW i \in 1..Len(stack'[u]) PROVE status'[stack'[u][i]] = "running"
  <2>1. PICK k \in Nat : Old(u, i, k)
    BY <1>5
  <2>2. stack[u][k] # h /\ status[stack[u][k]] = "running" /\ stack[u][k] \in Task
    BY <2>1, <1>2, StackAt DEF StackInv
  <2>3. QED
    BY <2>1, <2>2, <1>1, <1>3
<1>7. ASSUME NEW u \in Thread, NEW i \in 1..Len(stack'[u]),
             NEW v \in Thread, NEW j \in 1..Len(stack'[v]), u # v \/ i # j
      PROVE  stack'[u][i] # stack'[v][j]
  <2>1. PICK k \in Nat : Old(u, i, k)
    BY <1>5
  <2>2. PICK l \in Nat : Old(v, j, l)
    BY <1>5
  <2>3. u # v \/ k # l
    BY <2>1, <2>2, <1>7
  <2>4. QED
    BY <2>1, <2>2, <2>3 DEF StackInv
<1>8. QED
  BY <1>2, <1>4, <1>6, <1>7 DEF StackInv

LEMMA RunInlineTask ==
  ASSUME BaseTypes, TaskInv, NEW t \in Thread, RunInline(t) PROVE OpTypes' /\ TaskInv'
<1> DEFINE o == Head(ops[t])
           h == o.task
<1>1. /\ ops[t] # <<>> /\ o \in OpSet /\ o.op = "inline" /\ h \in Task
      /\ Pushes(t, <<>>)
  BY RunInlineOps
<1>2. /\ stack' = [stack EXCEPT ![t] = <<h>> \o stack[t]]
      /\ status' = [status EXCEPT ![h] = "running"]
      /\ group' = group /\ pool' = pool
  BY DEF RunInline
<1>3. OpInv(t, o) /\ Submits(o, h)
  BY <1>1, HeadInv DEF BaseTypes, TaskInv, Submits
<1>4. status[h] = "submitted" /\ Got(h, <<>>)
  BY <1>1, <1>3 DEF OpInv
<1>5. \A j \in Task : status'[j] = IF j = h THEN "running" ELSE status[j]
  BY <1>2 DEF BaseTypes, StatusTypes
<1>6. ASSUME NEW u \in Thread, NEW k \in OpSet, Stays(t, u, k), OpInv(u, k) PROVE OpInv(u, k)'
  <2>1. Apart(k, o)
    BY <1>1, <1>6 DEF Stays
  <2>2. ASSUME NEW j \in Task, Submits(k, j) PROVE status'[j] = "submitted"
    BY <2>1, <2>2, <1>1, <1>3, <1>5, <1>6 DEF Apart, OpInv
  <2>3. ASSUME k.op = "release" PROVE status'[k.task] \in {"done", "dropped"}
    BY <2>3, <1>4, <1>5, <1>6, OpTask DEF OpInv
  <2>4. /\ AtPool(k) => pool'[Home[u]].owner = u
        /\ AtPool(k) /\ k.op # "idle" => k.task \in pool'[Home[u]].queue
        /\ \A p \in Pool : Unlocks(k, p) => pool'[p].owner = u
    BY <1>2, <1>6 DEF OpInv
  <2>5. QED
    BY <2>2, <2>3, <2>4, <1>2, <1>6, OpKept
<1>7. OpTypes' /\ Sole' /\ Alone' /\ OpsInv'
  <2>1. \A i \in 1..Len(<<>>) : FALSE
    OBVIOUS
  <2>2. QED
    BY <2>1, <1>1, <1>6, QuietStep DEF TaskInv
<1>8. QueueInv'
  <2> SUFFICES ASSUME NEW p \in Pool, NEW j \in pool[p].queue
               PROVE  status'[j] = "queued" /\ Target[j] = p
    BY <1>2 DEF QueueInv
  <2>1. j \in Task /\ status[j] = "queued" /\ Target[j] = p
    BY PoolFacts DEF TaskInv, QueueInv
  <2>2. QED
    BY <2>1, <1>4, <1>5
<1>9. StackInv'
  BY <1>1, <1>2, <1>4, StackPush DEF TaskInv
<1>10. RunInv'
  <2> SUFFICES ASSUME NEW j \in Task, status'[j] = "running" PROVE Got(j, <<>>)'
    BY DEF RunInv
  <2>1. Got(j, <<>>)
    BY <1>4, <1>5 DEF TaskInv, RunInv
  <2>2. QED
    BY <2>1, <1>2, GotKept
<1>11. QED
  BY <1>7, <1>8, <1>9, <1>10 DEF TaskInv

LEMMA AskIdleTask ==
  ASSUME BaseTypes, TaskInv, NEW t \in Thread, AskIdle(t) PROVE OpTypes' /\ TaskInv'
<1> DEFINE o == Head(ops[t])
           k == [o.next EXCEPT !.clear = ~pool[Home[t]].idle]
<1>1. /\ ops[t] # <<>> /\ o \in OpSet /\ o.op = "ask" /\ o.next \in SubmitOp \union NotifyOp
      /\ k \in SubmitOp \union NotifyOp /\ k.op = o.next.op
      /\ o.next \in SubmitOp => k.task = o.next.task
      /\ Pushes(t, <<k>>)
  BY AskIdleOps
<1>2. Mild
  BY DEF AskIdle, Mild, Calm
<1>3. OpInv(t, o) /\ status' = status
  BY <1>1, HeadInv DEF BaseTypes, TaskInv, AskIdle
<1> HIDE DEF k
<1>4. k.op \in {"submit", "notify"} /\ (k.op = "submit" => k.task = o.next.task)
  BY <1>1 DEF SubmitOp, NotifyOp
<1>5. \A h \in Task : Submits(k, h) => Submits(o, h)
  BY <1>1, <1>4 DEF Submits
<1>6. (\A p \in Pool : ~Unlocks(k, p)) /\ ~AtPool(k)
  BY <1>4 DEF Unlocks, AtPool
<1>7. ASSUME NEW x \in OpSet, x = k PROVE OpInv(t, x)'
  <2>1. \A h \in Task : Submits(x, h) => status'[h] = "submitted"
    BY <1>3, <1>5, <1>7 DEF OpInv
  <2>2. (\A p \in Pool : ~Unlocks(x, p)) /\ ~AtPool(x) /\ x.op \in {"submit", "notify"}
    BY <1>4, <1>6, <1>7
  <2>3. QED
    BY <2>1, <2>2 DEF OpInv
<1>8. QED
  BY <1>1, <1>2, <1>5, <1>6, <1>7, MildOne

LEMMA SubmitToPoolTask ==
  ASSUME BaseTypes, TaskInv, NEW t \in Thread, SubmitToPool(t) PROVE OpTypes' /\ TaskInv'
<1> DEFINE o == Head(ops[t])
           h == o.task
           p == Target[h]
           s == IF pool[p].accept THEN <<>> ELSE Releases(h, Groups[h])
<1>1. /\ ops[t] # <<>> /\ o \in OpSet /\ o.op = "submit" /\ h \in Task /\ p \in Pool
      /\ Pushes(t, s) /\ \A i \in 1..Len(s) : s[i].op = "release" /\ s[i].task = h
  BY SubmitToPoolOps
<1>2. /\ stack' = stack /\ group' = group
      /\ status' = [status EXCEPT ![h] = IF pool[p].accept THEN "queued" ELSE "dropped"]
  BY DEF SubmitToPool
<1>3. /\ \A q \in Pool : pool'[q].owner = pool[q].owner
      /\ \A q \in Pool : pool'[q].queue = IF q = p /\ pool[p].accept THEN pool[q].queue \union {h}
                                          ELSE pool[q].queue
  <2>1. CASE ~pool[p].accept
    BY <2>1 DEF SubmitToPool
  <2>2. CASE pool[p].accept
    <3> DEFINE C == ClearIdle(pool[p], o.clear)
               P == [C EXCEPT !.queue = C.queue \union {h}, !.live = TRUE]
    <3>1. pool' = [pool EXCEPT ![p] = P]
      BY <2>2 DEF SubmitToPool
    <3>2. C \in PoolState /\ C.queue = pool[p].queue /\ C.owner = pool[p].owner
      BY <1>1, PoolFacts, Clearing
    <3> HIDE DEF C
    <3>3. P.queue = pool[p].queue \union {h} /\ P.owner = pool[p].owner
      BY <3>2 DEF PoolState
    <3> HIDE DEF P, p, h
    <3>4. QED
      BY <3>1, <3>3, <2>2 DEF BaseTypes, PoolTypes
  <2>3. QED
    BY <2>1, <2>2
<1>4. OpInv(t, o) /\ Submits(o, h)
  BY <1>1, HeadInv DEF BaseTypes, TaskInv, Submits
<1>5. status[h] = "submitted"
  BY <1>1, <1>4 DEF OpInv
<1>6. \A j \in Task : status'[j] = IF j # h THEN status[j]
                                   ELSE IF pool[p].accept THEN "queued" ELSE "dropped"
  BY <1>2 DEF BaseTypes, StatusTypes
<1>7. ASSUME NEW u \in Thread, NEW k \in OpSet, Stays(t, u, k), OpInv(u, k) PROVE OpInv(u, k)'
  <2>1. Apart(k, o)
    BY <1>1, <1>7 DEF Stays
  <2>2. ASSUME NEW j \in Task, Submits(k, j) PROVE status'[j] = "submitted"
    BY <2>1, <2>2, <1>1, <1>4, <1>6, <1>7 DEF Apart, OpInv
  <2>3. ASSUME k.op = "release" PROVE status'[k.task] \in {"done", "dropped"}
    BY <2>3, <1>5, <1>6, <1>7, OpTask DEF OpInv
  <2>4. Home[u] \in Pool
    BY PoolAssumption
  <2>5. /\ AtPool(k) => pool'[Home[u]].owner = u
        /\ AtPool(k) /\ k.op # "idle" => k.task \in pool'[Home[u]].queue
        /\ \A q \in Pool : Unlocks(k, q) => pool'[q].owner = u
    BY <1>3, <1>7, <2>4 DEF OpInv
  <2>6. QED
    BY <2>2, <2>3, <2>5, <1>2, <1>7, OpKept
<1>8. OpTypes' /\ Sole' /\ Alone' /\ OpsInv'
  <2>1. ASSUME NEW i \in 1..Len(s)
        PROVE Quiet(s[i]) /\ (s[i].op = "release" => status'[s[i].task] \in {"done", "dropped"})
    <3>1. s[i].op = "release" /\ s[i].task = h
      BY <1>1
    <3>2. ~pool[p].accept
      <4> SUFFICES ASSUME pool[p].accept PROVE FALSE
        OBVIOUS
      <4>1. s = <<>> /\ i \in 1..Len(s)
        OBVIOUS
      <4> HIDE DEF s
      <4>2. QED
        BY <4>1
    <3> HIDE DEF s
    <3>3. status'[h] = "dropped"
      BY <3>2, <1>1, <1>6
    <3>4. QED
      BY <3>1, <3>3 DEF Quiet
  <2> HIDE DEF s
  <2>2. QED
    BY <2>1, <1>1, <1>7, QuietStep DEF TaskInv
<1>9. QueueInv'
  <2> SUFFICES ASSUME NEW q \in Pool, NEW j \in pool'[q].queue
               PROVE  status'[j] = "queued" /\ Target[j] = q
    BY DEF QueueInv
  <2>1. CASE j \in pool[q].queue
    <3>1. j \in Task /\ status[j] = "queued" /\ Target[j] = q
      BY <2>1, PoolFacts DEF TaskInv, QueueInv
    <3>2. QED
      BY <3>1, <1>5, <1>6
  <2>2. CASE j \notin pool[q].queue
    <3>1. j = h /\ q = p /\ pool[p].accept
      BY <2>2, <1>3
    <3>2. QED
      BY <3>1, <1>1, <1>6
  <2>3. QED
    BY <2>1, <2>2
<1>10. StackInv'
  <2>1. \A u \in Thread : \A i \in 1..Len(stack[u]) : stack[u][i] \in Task
    BY StackAt
  <2>2. \A u \in Thread : \A i \in 1..Len(stack[u]) : status'[stack[u][i]] = "running"
    BY <2>1, <1>5, <1>6 DEF TaskInv, StackInv
  <2>3. QED
    BY <2>2, <1>2 DEF TaskInv, StackInv
<1>11. RunInv'
  <2> SUFFICES ASSUME NEW j \in Task, status'[j] = "running" PROVE Got(j, <<>>)'
    BY DEF RunInv
  <2>1. Got(j, <<>>)
    BY <1>5, <1>6 DEF TaskInv, RunInv
  <2>2. QED
    BY <2>1, <1>2, GotKept
<1>12. QED
  BY <1>8, <1>9, <1>10, <1>11 DEF TaskInv

LEMMA ReleaseFacts ==
  ASSUME NEW g \in GroupState, NEW h
  PROVE  Release(g, h).locked = g.locked \ {h}
<1>1. g \in GroupOf(Task)
  BY DEF GroupState, GroupOf
<1>2. Unlock(g, h) \in GroupOf(Task) /\ Unlock(g, h).locked = g.locked \ {h}
  BY <1>1, UnlockMembers
<1> DEFINE u == Unlock(g, h)
<1> HIDE DEF u
<1>3. Release(g, h) = [u EXCEPT !.notified = u.notified \union Told(u)]
  BY DEF Release, u
<1>4. u \in GroupOf(Task) /\ u.locked = g.locked \ {h}
  BY <1>2 DEF u
<1>5. QED
  BY <1>3, <1>4 DEF GroupOf

LEMMA ReleaseGroupTask ==
  ASSUME BaseTypes, TaskInv, NEW t \in Thread, ReleaseGroup(t) PROVE OpTypes' /\ TaskInv'
<1> DEFINE o == Head(ops[t])
           h == o.task
           g == Head(o.groups)
           s == ForEach(Sorted(Told(Unlock(group[g], h))), NotifyCall) \o Releases(h, Tail(o.groups))
<1>1. /\ ops[t] # <<>> /\ o \in OpSet /\ o.op = "release" /\ h \in Task
      /\ g \in Group /\ Pushes(t, s)
      /\ \A i \in 1..Len(s) : \/ s[i].op = "ask" /\ s[i].next.op = "notify"
                              \/ s[i].op = "release" /\ s[i].task = h
  BY ReleaseGroupOps
<1>2. /\ group' = [group EXCEPT ![g] = Release(group[g], h)]
      /\ stack' = stack /\ pool' = pool /\ status' = status
  BY DEF ReleaseGroup
<1>3. \A f \in Group : group[f].locked \ {h} \subseteq group'[f].locked
  <2>1. group[g] \in GroupState
    BY <1>1 DEF BaseTypes, GroupTypes
  <2>2. Release(group[g], h).locked = group[g].locked \ {h}
    BY <2>1, ReleaseFacts
  <2>3. QED
    BY <2>2, <1>1, <1>2 DEF BaseTypes, GroupTypes
<1>4. status[h] \in {"done", "dropped"}
  <2>1. OpInv(t, o)
    BY <1>1, HeadInv DEF BaseTypes, TaskInv
  <2>2. QED
    BY <2>1, <1>1 DEF OpInv
<1> HIDE DEF s, h, g
<1>5. ASSUME NEW u \in Thread, NEW k \in OpSet, Stays(t, u, k), OpInv(u, k) PROVE OpInv(u, k)'
  <2>1. ASSUME k.op \in {"lock", "inline", "take"} PROVE k.task # h
    <3>1. k.task \in Task
      BY <2>1, OpTask
    <3>2. CASE AtPool(k)
      <4>1. Home[u] \in Pool /\ k.task \in pool[Home[u]].queue
        BY <3>2, <2>1, <1>5, PoolAssumption DEF OpInv
      <4>2. status[k.task] = "queued"
        BY <4>1 DEF TaskInv, QueueInv
      <4>3. QED
        BY <4>2, <1>4
    <3>3. CASE ~AtPool(k)
      <4>1. Submits(k, k.task)
        <5>1. k.op = "lock" => k.last = "inline"
          BY <3>3, Members DEF AtPool, LockOp, InlineLockOp
        <5>2. QED
          BY <5>1, <3>3, <2>1 DEF Submits, AtPool
      <4>2. status[k.task] = "submitted"
        BY <4>1, <3>1, <1>5 DEF OpInv
      <4>3. QED
        BY <4>2, <1>4
    <3>4. QED
      BY <3>2, <3>3
  <2>2. k.op \in {"lock", "inline", "take"} =>
           \A f \in Group : k.task \in group[f].locked => k.task \in group'[f].locked
    BY <2>1, <1>3
  <2>3. /\ \A j \in Task : Submits(k, j) => status'[j] = "submitted"
        /\ k.op = "release" => status'[k.task] \in {"done", "dropped"}
        /\ AtPool(k) => pool'[Home[u]].owner = u
        /\ AtPool(k) /\ k.op # "idle" => k.task \in pool'[Home[u]].queue
        /\ \A p \in Pool : Unlocks(k, p) => pool'[p].owner = u
    BY <1>2, <1>5 DEF OpInv
  <2>4. QED
    BY <2>2, <2>3, <1>5, OpKept
<1>6. OpTypes' /\ Sole' /\ Alone' /\ OpsInv'
  <2>1. \A i \in 1..Len(s) :
           Quiet(s[i]) /\ (s[i].op = "release" => status'[s[i].task] \in {"done", "dropped"})
    BY <1>1, <1>2, <1>4 DEF Quiet
  <2>2. QED
    BY <2>1, <1>1, <1>5, QuietStep DEF TaskInv
<1>7. QueueInv' /\ StackInv'
  BY <1>2 DEF TaskInv, QueueInv, StackInv
<1>8. RunInv'
  <2> SUFFICES ASSUME NEW j \in Task, status'[j] = "running" PROVE Got(j, <<>>)'
    BY DEF RunInv
  <2>1. Got(j, <<>>) /\ j # h
    BY <1>2, <1>4 DEF TaskInv, RunInv
  <2>2. \A f \in Group : j \in group[f].locked => j \in group'[f].locked
    BY <2>1, <1>3
  <2>3. QED
    BY <2>1, <2>2, GotKept
<1>9. QED
  BY <1>6, <1>7, <1>8 DEF TaskInv

LEMMA NotifyTask ==
  ASSUME BaseTypes, TaskInv, NEW t \in Thread, Notify(t) PROVE OpTypes' /\ TaskInv'
<1> DEFINE o == Head(ops[t])
           p == o.pool
           C == ClearIdle(pool[p], o.clear)
           P == [C EXCEPT !.live = TRUE]
<1>1. ops[t] # <<>> /\ p \in Pool /\ Pushes(t, <<>>)
  BY NotifyOps
<1>2. pool' = [pool EXCEPT ![p] = P] /\ group' = group /\ stack' = stack /\ status' = status
  BY DEF Notify
<1>3. C \in PoolState /\ C.queue = pool[p].queue /\ C.owner = pool[p].owner
  BY <1>1, PoolFacts, Clearing
<1> HIDE DEF C
<1>4. P.queue = pool[p].queue /\ P.owner = pool[p].owner
  BY <1>3 DEF PoolState
<1> HIDE DEF P, p
<1>5. \A q \in Pool : pool'[q].queue = pool[q].queue /\ pool'[q].owner = pool[q].owner
  BY <1>2, <1>4, SamePools
<1>6. Mild
  BY <1>2, <1>5 DEF Mild, Calm
<1>7. \A i \in 1..Len(<<>>) : FALSE
  OBVIOUS
<1>8. QED
  BY <1>1, <1>6, <1>7, MildQuiet

LEMMA GetTaskTask ==
  ASSUME BaseTypes, TaskInv, NEW t \in Thread, GetTask(t) PROVE OpTypes' /\ TaskInv'
<1> DEFINE p == Home[t]
<1>1. /\ p \in Pool /\ pool[p].owner = None /\ ops[t] = <<>>
      /\ pool[p].queue # {} => First(pool[p].queue) \in pool[p].queue
      /\ Waits(t) \/ Looks(t) \/ Leaves(t)
  BY GetTaskOps
<1>2. group' = group /\ stack' = stack /\ status' = status
  BY DEF GetTask
<1>3. CASE Waits(t)
  <2>1. ops' = ops /\ Mild
    BY <1>2, <1>3 DEF Waits, Mild, Calm
  <2>2. QED
    BY <2>1, MildSame
<1>4. CASE Looks(t)
  <2> DEFINE k == IF pool[p].live /\ pool[p].queue # {} THEN Attempt(First(pool[p].queue))
                  ELSE [op |-> "idle"]
  <2>1. pool' = [pool EXCEPT ![p].owner = t] /\ k \in OpSet /\ Pushes(t, <<k>>)
    BY <1>4 DEF Looks
  <2>2. /\ \A q \in Pool : pool'[q].queue = pool[q].queue
        /\ \A q \in Pool \ {p} : pool'[q].owner = pool[q].owner
        /\ pool'[p].owner = t
    BY <2>1, <1>1 DEF BaseTypes, PoolTypes, PoolState
  <2>3. Mild
    BY <2>2, <1>1, <1>2 DEF Mild, Calm
  <2>4. (\A h \in Task : ~Submits(k, h)) /\ (\A q \in Pool : ~Unlocks(k, q)) /\ AtPool(k)
    <3>1. CASE pool[p].live /\ pool[p].queue # {}
      <4>1. k = Locks(First(pool[p].queue), Groups[First(pool[p].queue)], "take")
        BY <3>1 DEF Attempt
      <4> HIDE DEF k
      <4>2. QED
        BY <4>1, LocksFacts
    <3>2. CASE ~(pool[p].live /\ pool[p].queue # {})
      <4>1. k.op = "idle"
        BY <3>2
      <4> HIDE DEF k
      <4>2. QED
        BY <4>1 DEF Submits, Unlocks, AtPool
    <3>3. QED
      BY <3>1, <3>2
  <2>5. ASSUME NEW x \in OpSet, x = k PROVE OpInv(t, x)'
    <3>1. CASE pool[p].live /\ pool[p].queue # {}
      <4>1. PICK h : h = First(pool[p].queue)
        OBVIOUS
      <4>2. x = Attempt(h) /\ h \in pool[p].queue /\ h \in Task
        BY <4>1, <3>1, <2>5, <1>1, PoolFacts
      <4>3. h \in pool'[Home[t]].queue /\ pool'[Home[t]].owner = t
        BY <4>2, <2>2, <1>1
      <4>4. QED
        BY <4>2, <4>3, AttemptInv
    <3>2. CASE ~(pool[p].live /\ pool[p].queue # {})
      BY <3>2, <2>2, <2>5, IdleOpInv
    <3>3. QED
      BY <3>1, <3>2
  <2>6. QED
    <3> DEFINE s == <<k>>
    <3>1. Len(s) = 1 /\ s[1] = k /\ \A i \in 1..Len(s) : i = 1
      OBVIOUS
    <3>2. Pushes(t, s)
      BY <2>1
    <3> HIDE DEF k, s
    <3>3. Brings(t, s)
      BY <2>4, <3>1 DEF Brings
    <3>4. \A x \in OpSet : (\E i \in 1..Len(s) : x = s[i]) => OpInv(t, x)'
      BY <3>1, <2>5
    <3>5. QED
      BY <1>1, <2>3, <3>1, <3>2, <3>3, <3>4, MildStep
<1>5. CASE Leaves(t)
  <2>1. PICK s : Pushes(t, s) /\ \A i \in 1..Len(s) : s[i].op = "stop"
    BY <1>5 DEF Leaves
  <2>2. Mild
    BY <1>2, <1>5 DEF Leaves, Mild, Calm
  <2>3. \A i \in 1..Len(s) : Quiet(s[i]) /\ s[i].op # "release"
    BY <2>1 DEF Quiet
  <2>4. QED
    BY <2>1, <2>2, <2>3, MildQuiet
<1>6. QED
  BY <1>1, <1>3, <1>4, <1>5

\* A thread that lets its pool's mutex go takes nothing from another.
LEMMA OwnerFreed ==
  ASSUME BaseTypes, TaskInv, NEW t \in Thread, ops[t] # <<>>, AtPool(Head(ops[t])),
         \A q \in Pool : pool'[q].owner = IF q = Home[t] THEN None ELSE pool[q].owner,
         NEW u \in Thread, NEW k \in OpSet, Stays(t, u, k), OpInv(u, k)
  PROVE  /\ u # t /\ Home[u] \in Pool
         /\ AtPool(k) => Home[u] # Home[t] /\ pool'[Home[u]].owner = u
         /\ \A q \in Pool : Unlocks(k, q) => pool'[q].owner = u
<1>1. pool[Home[t]].owner = t /\ Home[u] \in Pool
  BY HeadInv, PoolAssumption DEF BaseTypes, TaskInv, OpInv
<1>2. u # t
  <2> SUFFICES ASSUME u = t PROVE FALSE
    OBVIOUS
  <2>1. Len(ops[t]) > 1 /\ ops[t] \in Seq(OpSet)
    BY DEF Stays, BaseTypes, OpTypes
  <2>2. Len(ops[t]) \in Nat /\ 1 \in 1..Len(ops[t]) /\ Head(ops[t]) = ops[t][1]
    BY <2>1, LenProperties
  <2>3. Len(ops[t]) = 1
    BY <2>2 DEF TaskInv, Alone
  <2>4. QED
    BY <2>1, <2>3
<1>3. QED
  BY <1>1, <1>2 DEF OpInv

\* A thread starts the only task it is in.
LEMMA StackOne ==
  ASSUME BaseTypes, StackInv, NEW t \in Thread, NEW h \in Task, status[h] # "running",
         status' = [status EXCEPT ![h] = "running"],
         stack' = [stack EXCEPT ![t] = <<h>>]
  PROVE  StackInv'
<1>1. stack \in [Thread -> Seq(Task)] /\ status' = [j \in Task |-> IF j = h THEN "running" ELSE status[j]]
  BY DEF BaseTypes, ThreadTypes, StatusTypes
<1>2. ASSUME NEW u \in Thread, NEW i \in 1..Len(stack[u])
      PROVE  stack[u][i] \in Task /\ status[stack[u][i]] = "running" /\ stack[u][i] # h
  BY StackAt DEF StackInv
<1>3. ASSUME NEW u \in Thread, NEW i \in 1..Len(stack'[u])
      PROVE  IF u = t THEN i = 1 /\ stack'[u][i] = h
             ELSE i \in 1..Len(stack[u]) /\ stack'[u][i] = stack[u][i]
  BY <1>1
<1>4. ASSUME NEW u \in Thread, NEW i \in 1..Len(stack'[u]) PROVE status'[stack'[u][i]] = "running"
  BY <1>1, <1>2, <1>3
<1>5. ASSUME NEW u \in Thread, NEW i \in 1..Len(stack'[u]),
             NEW v \in Thread, NEW j \in 1..Len(stack'[v]), u # v \/ i # j
      PROVE  stack'[u][i] # stack'[v][j]
  <2>1. CASE u = t
    BY <2>1, <1>2, <1>3, <1>5
  <2>2. CASE v = t
    BY <2>2, <1>2, <1>3, <1>5
  <2>3. CASE u # t /\ v # t
    <3>1. /\ i \in 1..Len(stack[u]) /\ stack'[u][i] = stack[u][i]
          /\ j \in 1..Len(stack[v]) /\ stack'[v][j] = stack[v][j]
      BY <2>3, <1>3
    <3>2. QED
      BY <3>1, <1>5 DEF StackInv
  <2>4. QED
    BY <2>1, <2>2, <2>3
<1>6. QED
  BY <1>4, <1>5 DEF StackInv

\* What TakeTask makes of its pool.
LEMMA TakeTaskPool ==
  ASSUME BaseTypes, NEW t \in Thread, TakeTask(t)
  PROVE  LET h == Head(ops[t]).task
             p == Home[t]
         IN /\ \A q \in Pool \ {p} : pool'[q] = pool[q]
            /\ pool' = [pool EXCEPT ![p] = pool'[p]]
            /\ pool'[p] \in PoolState /\ pool'[p].idle = FALSE
            /\ pool'[p].queue = pool[p].queue \ {h} /\ pool'[p].owner = None
            /\ pool'[p].idleTasks = pool[p].idleTasks
            /\ pool'[p].active = pool[p].active + IF threadIdle[t] THEN 1 ELSE 0
<1> DEFINE h == Head(ops[t]).task
           p == Home[t]
           P == pool[p]
           C == ClearIdle(P, TRUE)
           n == P.active + IF threadIdle[t] THEN 1 ELSE 0
           Q == P.queue \ {h}
           new == [C EXCEPT !.queue = Q, !.owner = None, !.active = n]
<1>1. pool' = [pool EXCEPT ![p] = [C EXCEPT !.queue = C.queue \ {h}, !.owner = None,
                                           !.active = C.active + IF threadIdle[t] THEN 1 ELSE 0]]
  BY DEF TakeTask
<1>2. P \in PoolState /\ p \in Pool /\ pool \in [Pool -> PoolState] /\ P.queue \in SUBSET Task
      /\ P.active \in Int
  BY PoolFacts, PoolAssumption DEF BaseTypes, PoolTypes
<1>3. C \in PoolState /\ C.queue = P.queue /\ C.active = P.active /\ C.idleTasks = P.idleTasks
  BY <1>2, Clearing
<1>4. C.idle = FALSE
  <2>1. C = [P EXCEPT !.idle = P.idle /\ ~TRUE] /\ (P.idle /\ ~TRUE) = FALSE
    BY DEF ClearIdle
  <2>2. C = [P EXCEPT !.idle = FALSE]
    BY <2>1
  <2> HIDE DEF C, P
  <2>3. QED
    BY <2>2, <1>2 DEF PoolState
<1>5. n \in Int /\ Q \in SUBSET Task /\ n = P.active + IF threadIdle[t] THEN 1 ELSE 0
  BY <1>2
<1> HIDE DEF P, p, h, C
<1>6. pool' = [pool EXCEPT ![p] = new]
  BY <1>1, <1>3
<1> HIDE DEF Q, n
<1>7. /\ new \in PoolState /\ new.queue = Q /\ new.owner = None /\ new.idleTasks = C.idleTasks
      /\ new.active = n
  BY <1>3, <1>5 DEF PoolState
<1>8. new.idle = FALSE
  BY <1>3, <1>4 DEF PoolState
<1> HIDE DEF new
<1>9. pool'[p] = new /\ \A q \in Pool \ {p} : pool'[q] = pool[q]
  BY <1>2, <1>6
<1>10. pool' = [pool EXCEPT ![p] = pool'[p]]
  BY <1>6, <1>9
<1>11. /\ pool'[p] \in PoolState /\ pool'[p].idle = FALSE
       /\ pool'[p].queue = P.queue \ {h} /\ pool'[p].owner = None
       /\ pool'[p].idleTasks = P.idleTasks /\ pool'[p].active = n
  BY <1>3, <1>7, <1>8, <1>9 DEF Q
<1>12. QED
  BY <1>5, <1>9, <1>10, <1>11 DEF p, P, h

LEMMA TakeTaskTask ==
  ASSUME BaseTypes, TaskInv, NEW t \in Thread, TakeTask(t) PROVE OpTypes' /\ TaskInv'
<1> DEFINE o == Head(ops[t])
           h == o.task
           p == Home[t]
<1>1. /\ ops[t] # <<>> /\ o \in OpSet /\ o.op = "take" /\ h \in Task /\ p \in Pool /\ Pushes(t, <<>>)
  BY TakeTaskOps
<1>2. /\ stack' = [stack EXCEPT ![t] = <<h>>] /\ status' = [status EXCEPT ![h] = "running"]
      /\ group' = group
  BY DEF TakeTask
<1>3. /\ \A q \in Pool : pool'[q].owner = IF q = p THEN None ELSE pool[q].owner
      /\ \A q \in Pool : pool'[q].queue = IF q = p THEN pool[q].queue \ {h} ELSE pool[q].queue
  <2>1. /\ \A q \in Pool \ {p} : pool'[q] = pool[q]
        /\ pool'[p].owner = None /\ pool'[p].queue = pool[p].queue \ {h}
    BY TakeTaskPool, <1>1
  <2> HIDE DEF h, p
  <2>2. QED
    BY <2>1
<1>4. OpInv(t, o) /\ AtPool(o)
  BY <1>1, HeadInv DEF BaseTypes, TaskInv, AtPool
<1>5. h \in pool[p].queue /\ Got(h, <<>>)
  BY <1>1, <1>4 DEF OpInv
<1>6. status[h] = "queued" /\ Target[h] = p
  BY <1>1, <1>5 DEF TaskInv, QueueInv
<1>7. \A j \in Task : status'[j] = IF j = h THEN "running" ELSE status[j]
  BY <1>2 DEF BaseTypes, StatusTypes
<1>8. ASSUME NEW u \in Thread, NEW k \in OpSet, Stays(t, u, k), OpInv(u, k) PROVE OpInv(u, k)'
  <2>1. /\ Home[u] \in Pool
        /\ AtPool(k) => Home[u] # Home[t] /\ pool'[Home[u]].owner = u
        /\ \A q \in Pool : Unlocks(k, q) => pool'[q].owner = u
    BY <1>1, <1>3, <1>4, <1>8, OwnerFreed
  <2>2. AtPool(k) /\ k.op # "idle" => k.task \in pool'[Home[u]].queue
    BY <2>1, <1>3, <1>8 DEF OpInv
  <2>3. /\ \A j \in Task : Submits(k, j) => status'[j] = "submitted"
        /\ k.op = "release" => status'[k.task] \in {"done", "dropped"}
    BY <1>6, <1>7, <1>8, OpTask DEF OpInv
  <2>4. QED
    BY <2>1, <2>2, <2>3, <1>2, <1>8, OpKept
<1>9. OpTypes' /\ Sole' /\ Alone' /\ OpsInv'
  <2>1. \A i \in 1..Len(<<>>) : FALSE
    OBVIOUS
  <2>2. QED
    BY <2>1, <1>1, <1>8, QuietStep DEF TaskInv
<1>10. QueueInv'
  <2> SUFFICES ASSUME NEW q \in Pool, NEW j \in pool'[q].queue
               PROVE  status'[j] = "queued" /\ Target[j] = q
    BY DEF QueueInv
  <2>1. j \in pool[q].queue /\ (q = p => j # h)
    BY <1>3
  <2>2. j \in Task /\ status[j] = "queued" /\ Target[j] = q
    BY <2>1, PoolFacts DEF TaskInv, QueueInv
  <2>3. QED
    BY <2>1, <2>2, <1>6, <1>7
<1>11. StackInv'
  BY <1>1, <1>2, <1>6, StackOne DEF TaskInv
<1>12. RunInv'
  <2> SUFFICES ASSUME NEW j \in Task, status'[j] = "running" PROVE Got(j, <<>>)'
    BY DEF RunInv
  <2>1. Got(j, <<>>)
    BY <1>5, <1>7 DEF TaskInv, RunInv
  <2>2. QED
    BY <2>1, <1>2, GotKept
<1>13. QED
  BY <1>9, <1>10, <1>11, <1>12 DEF TaskInv

LEMMA FinishTask ==
  ASSUME BaseTypes, TaskInv, NEW t \in Thread, Finish(t) PROVE OpTypes' /\ TaskInv'
<1> DEFINE h == Head(stack[t])
           s == Releases(h, Groups[h])
<1>1. /\ ops[t] = <<>> /\ stack[t] # <<>> /\ h \in Task
      /\ Pushes(t, s) /\ \A i \in 1..Len(s) : s[i].op = "release" /\ s[i].task = h
  BY FinishOps
<1>2. /\ stack' = [stack EXCEPT ![t] = Tail(stack[t])] /\ status' = [status EXCEPT ![h] = "done"]
      /\ group' = group /\ pool' = pool
  BY DEF Finish
<1>3. StackInv' /\ status[h] = "running"
  BY <1>1, <1>2, StackPop DEF TaskInv
<1>4. \A j \in Task : status'[j] = IF j = h THEN "done" ELSE status[j]
  BY <1>2 DEF BaseTypes, StatusTypes
<1> HIDE DEF h, s
<1>5. ASSUME NEW u \in Thread, NEW k \in OpSet, Stays(t, u, k), OpInv(u, k) PROVE OpInv(u, k)'
  <2>1. /\ \A j \in Task : Submits(k, j) => status'[j] = "submitted"
        /\ k.op = "release" => status'[k.task] \in {"done", "dropped"}
    BY <1>3, <1>4, <1>5, OpTask DEF OpInv
  <2>2. /\ AtPool(k) => pool'[Home[u]].owner = u
        /\ AtPool(k) /\ k.op # "idle" => k.task \in pool'[Home[u]].queue
        /\ \A p \in Pool : Unlocks(k, p) => pool'[p].owner = u
    BY <1>2, <1>5 DEF OpInv
  <2>3. QED
    BY <2>1, <2>2, <1>2, <1>5, OpKept
<1>6. OpTypes' /\ Sole' /\ Alone' /\ OpsInv'
  <2>1. \A i \in 1..Len(s) :
           Quiet(s[i]) /\ (s[i].op = "release" => status'[s[i].task] \in {"done", "dropped"})
    BY <1>1, <1>4 DEF Quiet
  <2>2. QED
    BY <2>1, <1>1, <1>5, QuietStep DEF TaskInv
<1>7. QueueInv'
  <2> SUFFICES ASSUME NEW p \in Pool, NEW j \in pool[p].queue
               PROVE  status'[j] = "queued" /\ Target[j] = p
    BY <1>2 DEF QueueInv
  <2>1. j \in Task /\ status[j] = "queued" /\ Target[j] = p
    BY PoolFacts DEF TaskInv, QueueInv
  <2>2. QED
    BY <2>1, <1>3, <1>4
<1>8. RunInv'
  <2> SUFFICES ASSUME NEW j \in Task, status'[j] = "running" PROVE Got(j, <<>>)'
    BY DEF RunInv
  <2>1. Got(j, <<>>)
    BY <1>4 DEF TaskInv, RunInv
  <2>2. QED
    BY <2>1, <1>2, GotKept
<1>9. QED
  BY <1>3, <1>6, <1>7, <1>8 DEF TaskInv

\* What get_idle_task() finds: whether the pool counts, whether the thread becomes idle
\* now, how many of the pool are left active, whether it is the whole pool, and how many
\* pools are left.
CountsNow(t) == pool[Home[t]].running /\ Home[t] \in CountsForIdle
NowIdle(t) == CountsNow(t) /\ ~threadIdle[t]
ActiveLeft(t) == pool[Home[t]].active - IF NowIdle(t) THEN 1 ELSE 0
AllIdle(t) == CountsNow(t) /\ ~pool[Home[t]].idle /\ ActiveLeft(t) = 0
PoolsLeft(t) == activePools - IF AllIdle(t) THEN 1 ELSE 0

LEMMA BecomeIdlePool ==
  ASSUME BaseTypes, NEW t \in Thread, BecomeIdle(t)
  PROVE  LET p == Home[t] IN
         /\ p \in Pool /\ \A q \in Pool \ {p} : pool'[q] = pool[q]
         /\ pool' = [pool EXCEPT ![p] = pool'[p]]
         /\ pool'[p] \in PoolState
         /\ pool'[p].queue = pool[p].queue /\ pool'[p].owner = None
         /\ pool'[p].idleTasks = pool[p].idleTasks /\ pool'[p].active = ActiveLeft(t)
         /\ pool'[p].idle <=> (pool[p].idle \/ AllIdle(t))
<1> DEFINE p == Home[t]
           P == pool[p]
           n == ActiveLeft(t)
           b == P.idle \/ AllIdle(t)
           new == [P EXCEPT !.live = FALSE, !.active = n, !.idle = b, !.owner = None]
<1>1. pool' = [pool EXCEPT ![p] = new]
  BY DEF BecomeIdle, ActiveLeft, AllIdle, NowIdle, CountsNow
<1>2. P \in PoolState /\ p \in Pool /\ pool \in [Pool -> PoolState] /\ P.active \in Int
  BY PoolFacts, PoolAssumption DEF BaseTypes, PoolTypes
<1>3. n \in Int
  BY <1>2 DEF ActiveLeft
<1>4. b \in BOOLEAN
  OBVIOUS
<1>5. b <=> (P.idle \/ AllIdle(t))
  OBVIOUS
<1> HIDE DEF P, n, b, p
<1>6. /\ new \in PoolState /\ new.queue = P.queue /\ new.owner = None
      /\ new.idleTasks = P.idleTasks /\ new.active = n
  BY <1>2, <1>3, <1>4 DEF PoolState
<1>7. new.idle = b
  BY <1>2, <1>4 DEF PoolState
<1> HIDE DEF new
<1>8. pool'[p] = new /\ \A q \in Pool \ {p} : pool'[q] = pool[q]
  BY <1>1, <1>2
<1>9. pool' = [pool EXCEPT ![p] = pool'[p]]
  BY <1>1, <1>8
<1>10. pool'[p].idle <=> (P.idle \/ AllIdle(t))
  BY <1>5, <1>7, <1>8
<1>11. QED
  BY <1>2, <1>6, <1>8, <1>9, <1>10 DEF p, P, n

LEMMA BecomeIdleTask ==
  ASSUME BaseTypes, TaskInv, NEW t \in Thread, BecomeIdle(t) PROVE OpTypes' /\ TaskInv'
<1> DEFINE o == Head(ops[t])
           p == Home[t]
           s == ForEach(Sorted(Fresh(t)), SubmitCall)
<1>1. /\ ops[t] # <<>> /\ o \in OpSet /\ o.op = "idle" /\ p \in Pool /\ Pushes(t, s)
      /\ status' = [h \in Task |-> IF h \in Fresh(t) THEN "submitted" ELSE status[h]]
  BY BecomeIdleOps
<1>2. Fresh(t) \in SUBSET Task /\ \A h \in Fresh(t) : status[h] = "new"
  BY FreshType
<1>3. /\ \A q \in Pool : pool'[q].queue = pool[q].queue
      /\ \A q \in Pool : pool'[q].owner = IF q = p THEN None ELSE pool[q].owner
  <2>1. /\ \A q \in Pool \ {p} : pool'[q] = pool[q]
        /\ pool'[p].queue = pool[p].queue /\ pool'[p].owner = None
    BY BecomeIdlePool
  <2> HIDE DEF p
  <2>2. QED
    BY <2>1
<1>4. group' = group /\ stack' = stack
  BY DEF BecomeIdle
<1>5. Calm
  BY <1>1, <1>2, <1>3, <1>4 DEF Calm
<1>6. AtPool(o)
  BY <1>1 DEF AtPool
<1>7. \A h \in Task : status[h] # "new" => status'[h] = status[h]
  BY <1>1, <1>2
<1>8. ASSUME NEW u \in Thread, NEW k \in OpSet, Stays(t, u, k), OpInv(u, k) PROVE OpInv(u, k)'
  <2>1. /\ Home[u] \in Pool
        /\ AtPool(k) => Home[u] # Home[t] /\ pool'[Home[u]].owner = u
        /\ \A q \in Pool : Unlocks(k, q) => pool'[q].owner = u
    BY <1>1, <1>3, <1>6, <1>8, OwnerFreed
  <2>2. AtPool(k) /\ k.op # "idle" => k.task \in pool'[Home[u]].queue
    BY <2>1, <1>3, <1>8 DEF OpInv
  <2>3. /\ \A j \in Task : Submits(k, j) => status'[j] = "submitted"
        /\ k.op = "release" => status'[k.task] \in {"done", "dropped"}
    BY <1>7, <1>8, OpTask DEF OpInv
  <2>4. QED
    BY <2>1, <2>2, <2>3, <1>4, <1>8, OpKept
<1>9. OpTypes' /\ Sole' /\ Alone' /\ OpsInv'
  <2>1. Brings(t, s) /\ \A i \in 1..Len(s) : ~AtPool(s[i])
    BY <1>2, CallsBring
  <2>2. \A i \in 1..Len(s) : s[i] = SubmitCall(Sorted(Fresh(t))[i]) /\ Sorted(Fresh(t))[i] \in Fresh(t)
    BY <1>2, SubmitCalls
  <2> HIDE DEF s
  <2>3. ASSUME NEW k \in OpSet, NEW i \in 1..Len(s), k = s[i] PROVE OpInv(t, k)'
    <3>1. PICK h : h = Sorted(Fresh(t))[i]
      OBVIOUS
    <3>2. k = SubmitCall(h) /\ h \in Fresh(t) /\ h \in Task
      BY <3>1, <2>2, <2>3, <1>2
    <3>3. status'[h] = "submitted"
      BY <3>2, <1>1
    <3>4. QED
      BY <3>2, <3>3, SubmitCallInv
  <2>4. \A k \in OpSet : (\E i \in 1..Len(s) : k = s[i]) => OpInv(t, k)'
    BY <2>3
  <2>5. QED
    BY <2>1, <2>4, <1>1, <1>8, TaskStep DEF TaskInv
<1>10. QueueInv' /\ StackInv' /\ RunInv'
  BY <1>5, CalmRest DEF TaskInv
<1>11. QED
  BY <1>9, <1>10 DEF TaskInv

LEMMA LetGoTask ==
  ASSUME BaseTypes, TaskInv, NEW t \in Thread, LetGo(t) PROVE OpTypes' /\ TaskInv'
<1> DEFINE o == Head(ops[t])
           p == o.pool
<1>1. ops[t] # <<>> /\ o \in OpSet /\ o.op = "unlock" /\ p \in Pool /\ Pushes(t, <<>>)
  BY MutexOps
<1>2. /\ pool' = [pool EXCEPT ![p].owner = None]
      /\ group' = group /\ stack' = stack /\ status' = status
  BY DEF LetGo
<1>3. /\ \A q \in Pool : pool'[q].queue = pool[q].queue
      /\ \A q \in Pool : pool'[q].owner = IF q = p THEN None ELSE pool[q].owner
  <2> HIDE DEF p
  <2>1. QED
    BY <1>1, <1>2 DEF BaseTypes, PoolTypes, PoolState
<1>4. Calm
  BY <1>2, <1>3 DEF Calm
<1>5. Unlocks(o, p) /\ pool[p].owner = t
  BY <1>1, HeadInv DEF BaseTypes, TaskInv, OpInv, Unlocks
<1>6. ASSUME NEW u \in Thread, NEW k \in OpSet, Stays(t, u, k), OpInv(u, k) PROVE OpInv(u, k)'
  <2>1. Home[u] \in Pool
    BY PoolAssumption
  <2>2. AtPool(k) => Home[u] # p
    <3> SUFFICES ASSUME AtPool(k), Home[u] = p PROVE FALSE
      OBVIOUS
    <3>1. u = t
      BY <1>5, <1>6 DEF OpInv
    <3>2. QED
      BY <3>1, <1>6, StaysAlone DEF BaseTypes, TaskInv
  <2>3. ~Unlocks(k, p)
    BY <1>1, <1>5, <1>6 DEF Stays, Apart
  <2>4. /\ AtPool(k) => pool'[Home[u]].owner = u
        /\ AtPool(k) /\ k.op # "idle" => k.task \in pool'[Home[u]].queue
    BY <2>1, <2>2, <1>3, <1>6 DEF OpInv
  <2>5. \A q \in Pool : Unlocks(k, q) => pool'[q].owner = u
    BY <2>3, <1>3, <1>6 DEF OpInv
  <2>6. /\ \A j \in Task : Submits(k, j) => status'[j] = "submitted"
        /\ k.op = "release" => status'[k.task] \in {"done", "dropped"}
    BY <1>2, <1>6 DEF OpInv
  <2>7. QED
    BY <2>4, <2>5, <2>6, <1>2, <1>6, OpKept
<1>7. OpTypes' /\ Sole' /\ Alone' /\ OpsInv'
  <2>1. \A i \in 1..Len(<<>>) : FALSE
    OBVIOUS
  <2>2. QED
    BY <2>1, <1>1, <1>6, QuietStep DEF TaskInv
<1>8. QueueInv' /\ StackInv' /\ RunInv'
  BY <1>4, CalmRest DEF TaskInv
<1>9. QED
  BY <1>7, <1>8 DEF TaskInv

LEMMA JoinTask ==
  ASSUME BaseTypes, TaskInv, NEW t \in Thread, Join(t) PROVE OpTypes' /\ TaskInv'
<1>1. Pushes(t, <<>>)
  BY MutexOps
<1>2. Mild
  BY DEF Join, Mild, Calm
<1>3. \A i \in 1..Len(<<>>) : FALSE
  OBVIOUS
<1>4. QED
  BY <1>1, <1>2, <1>3, MildQuiet

LEMMA HaltTask ==
  ASSUME BaseTypes, TaskInv, NEW t \in Thread, Halt(t) PROVE OpTypes' /\ TaskInv'
<1> DEFINE s == ForEach(SetToSeq(made), LAMBDA p : [op |-> "stop", pool |-> p, type |-> Head(ops[t]).type])
<1>1. Pushes(t, s) /\ \A i \in 1..Len(s) : s[i].op = "stop"
  BY HaltOps
<1> HIDE DEF s
<1>2. Mild
  BY DEF Halt, Mild, Calm
<1>3. \A i \in 1..Len(s) : Quiet(s[i]) /\ s[i].op # "release"
  BY <1>1 DEF Quiet
<1>4. QED
  BY <1>1, <1>2, <1>3, MildQuiet

LEMMA SubmitTask ==
  ASSUME BaseTypes, TaskInv, NEW t \in Thread, NEW h \in Task, Submit(t, h)
  PROVE  OpTypes' /\ TaskInv'
<1> DEFINE s == <<SubmitCall(h)>>
<1>1. ops[t] = <<>> /\ Pushes(t, s)
  BY SubmitOps
<1>2. /\ status[h] = "new" /\ status' = [status EXCEPT ![h] = "submitted"]
      /\ group' = group /\ pool' = pool /\ stack' = stack
  BY DEF Submit
<1>3. Mild
  BY <1>2 DEF Mild, Calm, BaseTypes, StatusTypes
<1>4. status'[h] = "submitted"
  BY <1>2 DEF BaseTypes, StatusTypes
<1>5. Len(s) = 1 /\ s[1] = SubmitCall(h) /\ \A i \in 1..Len(s) : i = 1
  OBVIOUS
<1> HIDE DEF s
<1>6. Brings(t, s) /\ \A i \in 1..Len(s) : ~AtPool(s[i])
  BY <1>2, <1>5, SubmitCallFacts DEF Brings
<1>7. ASSUME NEW k \in OpSet, NEW i \in 1..Len(s), k = s[i] PROVE OpInv(t, k)'
  <2>1. k = SubmitCall(h)
    BY <1>5, <1>7
  <2>2. QED
    BY <2>1, <1>4, SubmitCallInv
<1>8. \A k \in OpSet : (\E i \in 1..Len(s) : k = s[i]) => OpInv(t, k)'
  BY <1>7
<1>9. QED
  BY <1>1, <1>3, <1>6, <1>8, MildStep

LEMMA AddIdleTaskTask ==
  ASSUME BaseTypes, TaskInv, NEW t \in Thread, NEW h \in Task, AddIdleTask(t, h)
  PROVE  OpTypes' /\ TaskInv'
<1> DEFINE p == IdlePool[h]
           s == <<[op |-> "notify", pool |-> MainPool, clear |-> TRUE]>>
<1>1. Pushes(t, s) \/ ops' = ops
  BY AddIdleTaskOps
<1>2. \A q \in Pool : pool'[q].queue = pool[q].queue /\ pool'[q].owner = pool[q].owner
  <2>1. CASE pool' = pool
    BY <2>1
  <2>2. CASE pool' = [pool EXCEPT ![p].idleTasks = pool[p].idleTasks \union {h}]
    BY <2>2 DEF BaseTypes, PoolTypes, PoolState
  <2>3. QED
    BY <2>1, <2>2 DEF AddIdleTask
<1>3. Mild
  BY <1>2 DEF AddIdleTask, Mild, Calm
<1>4. \A i \in 1..Len(s) : Quiet(s[i]) /\ s[i].op # "release"
  <2>1. Len(s) = 1 /\ s[1].op = "notify" /\ \A i \in 1..Len(s) : i = 1
    OBVIOUS
  <2> HIDE DEF s
  <2>2. QED
    BY <2>1 DEF Quiet
<1> HIDE DEF s
<1>5. QED
  BY <1>1, <1>3, <1>4, MildQuiet, MildSame

LEMMA RemoveIdleTaskTask ==
  ASSUME BaseTypes, TaskInv, NEW t \in Thread, NEW h \in Task, RemoveIdleTask(t, h)
  PROVE  OpTypes' /\ TaskInv'
<1>1. \A q \in Pool : pool'[q].queue = pool[q].queue /\ pool'[q].owner = pool[q].owner
  <2>1. CASE pool' = pool
    BY <2>1
  <2>2. ASSUME NEW p \in made, pool' = [pool EXCEPT ![p].idleTasks = pool[p].idleTasks \ {h}]
        PROVE  \A q \in Pool : pool'[q].queue = pool[q].queue /\ pool'[q].owner = pool[q].owner
    BY <2>2 DEF BaseTypes, PoolTypes, PoolState
  <2>3. pool' = pool \/ \E p \in made : pool' = [pool EXCEPT ![p].idleTasks = pool[p].idleTasks \ {h}]
    BY DEF RemoveIdleTask
  <2>4. QED
    BY <2>1, <2>2, <2>3
<1>2. /\ group' = group /\ stack' = stack /\ ops' = ops
      /\ status' = [status EXCEPT ![h] = IF status[h] = "new" THEN "dropped" ELSE status[h]]
  BY DEF RemoveIdleTask
<1>3. Mild
  BY <1>1, <1>2 DEF Mild, Calm, BaseTypes, StatusTypes
<1>4. QED
  BY <1>2, <1>3, MildSame

LEMMA StartTask ==
  ASSUME BaseTypes, TaskInv, StartPools \/ StartMain
  PROVE  OpTypes' /\ TaskInv'
<1>1. \A q \in Pool : pool'[q].queue = pool[q].queue /\ pool'[q].owner = pool[q].owner
  <2>1. CASE StartPools
    <3> SUFFICES ASSUME NEW q \in Pool
                 PROVE  pool'[q].queue = pool[q].queue /\ pool'[q].owner = pool[q].owner
      OBVIOUS
    <3> DEFINE n == Cardinality(Threads(q))
    <3>1. pool'[q] = pool[q] \/ pool'[q] = [pool[q] EXCEPT !.active = n]
      BY <2>1 DEF StartPools
    <3>2. pool[q] \in PoolState
      BY PoolFacts
    <3> HIDE DEF n
    <3>3. QED
      BY <3>1, <3>2 DEF PoolState
  <2>2. CASE StartMain
    BY <2>2 DEF StartMain, BaseTypes, PoolTypes, PoolState
  <2>3. QED
    BY <2>1, <2>2
<1>2. group' = group /\ stack' = stack /\ ops' = ops /\ status' = status
  BY DEF StartPools, StartMain
<1>3. Mild
  BY <1>1, <1>2 DEF Mild, Calm
<1>4. QED
  BY <1>2, <1>3, MildSame

LEMMA ShutdownTask ==
  ASSUME BaseTypes, TaskInv, NEW t \in Thread, NEW force, Shutdown(t, force)
  PROVE  OpTypes' /\ TaskInv'
<1> DEFINE c == ForEach(Sorted(OnStop), SubmitCall)
           s == c \o <<[op |-> "halt", type |-> IF force THEN "FORCE" ELSE "NORMAL"]>>
<1>1. /\ ops[t] = <<>> /\ OnStop \in SUBSET Task
      /\ Pushes(t, s) /\ Len(s) = Len(c) + 1 /\ Len(c) \in Nat
      /\ \A i \in 1..Len(c) : s[i] = c[i]
      /\ s[Len(c) + 1].op = "halt"
  BY ShutdownOps
<1>2. /\ status' = [h \in Task |-> IF h \in OnStop THEN "submitted" ELSE status[h]]
      /\ group' = group /\ pool' = pool /\ stack' = stack
  BY DEF Shutdown, OnStop
<1>3. \A h \in OnStop : status[h] = "new"
  BY DEF OnStop
<1>4. Mild
  BY <1>2, <1>3 DEF Mild, Calm
<1>5. Brings(t, c) /\ \A i \in 1..Len(c) : ~AtPool(c[i])
  BY <1>1, <1>3, CallsBring
<1>6. \A i \in 1..Len(c) : c[i] = SubmitCall(Sorted(OnStop)[i]) /\ Sorted(OnStop)[i] \in OnStop
  BY <1>1, SubmitCalls
<1> DEFINE last == s[Len(c) + 1]
<1>7. Quiet(last) /\ last.op # "release"
  BY <1>1 DEF Quiet
<1>8. \A i \in 1..Len(s) : (i \in 1..Len(c) /\ s[i] = c[i]) \/ s[i] = last
  BY <1>1
<1> HIDE DEF s, c, last
<1>9. /\ \A h \in Task : ~Submits(last, h)
      /\ \A q \in Pool : ~Unlocks(last, q)
      /\ ~AtPool(last)
  BY <1>7, QuietClaims
<1>10. \A x : Apart(last, x) /\ Apart(x, last)
  BY <1>9 DEF Apart
<1>11. Brings(t, s) /\ \A i \in 1..Len(s) : ~AtPool(s[i])
  <2>1. ASSUME NEW i \in 1..Len(s), NEW j \in 1..Len(s), i # j PROVE Apart(s[i], s[j])
    <3>1. CASE s[i] = last \/ s[j] = last
      BY <3>1, <1>10
    <3>2. CASE ~(s[i] = last \/ s[j] = last)
      <4>1. i \in 1..Len(c) /\ j \in 1..Len(c) /\ s[i] = c[i] /\ s[j] = c[j]
        BY <3>2, <1>8
      <4>2. Apart(c[i], c[j])
        BY <4>1, <2>1, <1>5 DEF Brings
      <4>3. QED
        BY <4>1, <4>2
    <3>3. QED
      BY <3>1, <3>2
  <2>2. ASSUME NEW i \in 1..Len(s)
        PROVE  /\ \A h \in Task : Submits(s[i], h) =>
                     status[h] = "new" \/ (ops[t] # <<>> /\ Submits(Head(ops[t]), h))
               /\ \A p \in Pool : Unlocks(s[i], p) => pool[p].owner = None
               /\ ~AtPool(s[i])
    <3>1. CASE s[i] = last
      BY <3>1, <1>9
    <3>2. CASE i \in 1..Len(c) /\ s[i] = c[i]
      <4>1. /\ \A h \in Task : Submits(c[i], h) =>
                  status[h] = "new" \/ (ops[t] # <<>> /\ Submits(Head(ops[t]), h))
            /\ \A p \in Pool : Unlocks(c[i], p) => pool[p].owner = None
            /\ ~AtPool(c[i])
        BY <3>2, <1>5 DEF Brings
      <4>2. QED
        BY <3>2, <4>1
    <3>3. QED
      BY <3>1, <3>2, <1>8
  <2>3. QED
    BY <2>1, <2>2 DEF Brings
<1>12. ASSUME NEW k \in OpSet, NEW i \in 1..Len(s), k = s[i] PROVE OpInv(t, k)'
  <2>1. CASE i \in 1..Len(c) /\ s[i] = c[i]
    <3>1. PICK h : h = Sorted(OnStop)[i]
      OBVIOUS
    <3>2. k = SubmitCall(h) /\ h \in OnStop /\ h \in Task
      BY <3>1, <2>1, <1>1, <1>6, <1>12
    <3>3. status'[h] = "submitted"
      BY <3>2, <1>2
    <3>4. QED
      BY <3>2, <3>3, SubmitCallInv
  <2>2. CASE s[i] = last
    <3>1. Quiet(k) /\ k.op # "release"
      BY <2>2, <1>7, <1>12
    <3>2. QED
      BY <3>1, QuietInv
  <2>3. QED
    BY <2>1, <2>2, <1>8
<1>13. \A k \in OpSet : (\E i \in 1..Len(s) : k = s[i]) => OpInv(t, k)'
  BY <1>12
<1>14. QED
  BY <1>1, <1>4, <1>11, <1>13, MildStep

LEMMA StopPoolTask ==
  ASSUME BaseTypes, TaskInv, NEW t \in Thread, StopPool(t) PROVE OpTypes' /\ TaskInv'
<1> DEFINE o == Head(ops[t])
           p == o.pool
           Q == pool[p].queue
           force == o.type = "FORCE"
<1>1. /\ ops[t] # <<>> /\ p \in Pool /\ pool[p].owner = None /\ Q \in SUBSET Task
      /\ IF force
         THEN \E s : /\ Pushes(t, s)
                     /\ \A i \in 1..Len(s) :
                           \/ s[i].op = "release" /\ s[i].task \in Q
                           \/ i = Len(s) /\ s[i] = [op |-> "unlock", pool |-> p]
         ELSE \E s : Pushes(t, s) /\ \A i \in 1..Len(s) : s[i].op = "join"
  BY StopPoolOps
<1>2. /\ status' = [h \in Task |-> IF force /\ h \in Q THEN "dropped" ELSE status[h]]
      /\ group' = group /\ stack' = stack
  BY DEF StopPool
<1>3. /\ \A q \in Pool : pool'[q].queue = IF q = p /\ force THEN {} ELSE pool[q].queue
      /\ \A q \in Pool : pool'[q].owner = IF q = p /\ force THEN t ELSE pool[q].owner
  <2> DEFINE P == pool[p]
             new == [P EXCEPT !.live = TRUE, !.accept = p \in Persistent,
                       !.running = o.type = "NORMAL" /\ p \in Persistent,
                       !.queue = IF force THEN {} ELSE P.queue,
                       !.owner = IF force THEN t ELSE None]
  <2>1. pool' = [pool EXCEPT ![p] = new]
    BY DEF StopPool
  <2>2. P \in PoolState /\ P.owner = None
    BY <1>1, PoolFacts
  <2> HIDE DEF P, p
  <2>3. new.queue = (IF force THEN {} ELSE P.queue) /\ new.owner = IF force THEN t ELSE P.owner
    BY <2>2 DEF PoolState
  <2> HIDE DEF new, force
  <2>4. pool'[p] = new /\ \A q \in Pool \ {p} : pool'[q] = pool[q]
    BY <2>1, <1>1 DEF BaseTypes, PoolTypes
  <2>5. QED
    BY <2>3, <2>4 DEF P
<1>4. CASE ~force
  <2>1. PICK s : Pushes(t, s) /\ \A i \in 1..Len(s) : s[i].op = "join"
    BY <1>1, <1>4
  <2>2. status' = [h \in Task |-> status[h]] 
    BY <1>2, <1>4
  <2>3. status' = status
    BY <2>2 DEF BaseTypes, StatusTypes
  <2> HIDE DEF force, p
  <2>4. Mild
    BY <2>3, <1>2, <1>3, <1>4 DEF Mild, Calm
  <2>5. \A i \in 1..Len(s) : Quiet(s[i]) /\ s[i].op # "release"
    BY <2>1 DEF Quiet
  <2>6. QED
    BY <2>1, <2>4, <2>5, MildQuiet
<1>5. CASE force
  <2>1. PICK s : /\ Pushes(t, s)
                 /\ \A i \in 1..Len(s) : \/ s[i].op = "release" /\ s[i].task \in Q
                                         \/ i = Len(s) /\ s[i] = [op |-> "unlock", pool |-> p]
    BY <1>1, <1>5
  <2>2. /\ \A h \in Task : status'[h] = IF h \in Q THEN "dropped" ELSE status[h]
        /\ \A q \in Pool : pool'[q].queue = IF q = p THEN {} ELSE pool[q].queue
        /\ \A q \in Pool : pool'[q].owner = IF q = p THEN t ELSE pool[q].owner
    BY <1>2, <1>3, <1>5
  <2> HIDE DEF force
  <2>3. \A h \in Q : h \in Task /\ status[h] = "queued" /\ Target[h] = p
    BY <1>1 DEF TaskInv, QueueInv
  <2> HIDE DEF p, Q
  <2>4. ASSUME NEW u \in Thread, NEW k \in OpSet, Stays(t, u, k), OpInv(u, k) PROVE OpInv(u, k)'
    <3>1. Home[u] \in Pool /\ u # None
      BY PoolAssumption
    <3>2. AtPool(k) => Home[u] # p
      BY <3>1, <1>1, <2>4 DEF OpInv
    <3>3. /\ AtPool(k) => pool'[Home[u]].owner = u
          /\ AtPool(k) /\ k.op # "idle" => k.task \in pool'[Home[u]].queue
      BY <3>1, <3>2, <2>2, <2>4 DEF OpInv
    <3>4. \A q \in Pool : Unlocks(k, q) => pool'[q].owner = u
      BY <3>1, <1>1, <2>2, <2>4 DEF OpInv
    <3>5. /\ \A j \in Task : Submits(k, j) => status'[j] = "submitted"
          /\ k.op = "release" => status'[k.task] \in {"done", "dropped"}
      BY <2>2, <2>3, <2>4, OpTask DEF OpInv
    <3>6. QED
      BY <3>3, <3>4, <3>5, <1>2, <2>4, OpKept
  <2>5. ASSUME NEW i \in 1..Len(s)
        PROVE  /\ \A h \in Task : ~Submits(s[i], h)
               /\ \A q \in Pool : Unlocks(s[i], q) => q = p /\ i = Len(s)
               /\ ~AtPool(s[i])
    <3>1. CASE s[i].op = "release"
      BY <3>1 DEF Submits, Unlocks, AtPool
    <3>2. CASE i = Len(s) /\ s[i] = [op |-> "unlock", pool |-> p]
      <4>1. s[i].op = "unlock" /\ s[i].pool = p
        BY <3>2
      <4>2. QED
        BY <4>1, <3>2 DEF Submits, Unlocks, AtPool
    <3>3. QED
      BY <3>1, <3>2, <2>1
  <2>6. Brings(t, s)
    <3>1. ASSUME NEW i \in 1..Len(s), NEW j \in 1..Len(s), i # j PROVE Apart(s[i], s[j])
      BY <3>1, <2>5 DEF Apart
    <3>2. QED
      BY <3>1, <2>5, <1>1 DEF Brings
  <2>7. ASSUME NEW k \in OpSet, NEW i \in 1..Len(s), k = s[i] PROVE OpInv(t, k)'
    <3>1. CASE k.op = "release" /\ k.task \in Q
      <4>1. Quiet(k) /\ status'[k.task] \in {"done", "dropped"}
        BY <3>1, <2>2, <2>3 DEF Quiet
      <4>2. QED
        BY <4>1, QuietInv
    <3>2. CASE k = [op |-> "unlock", pool |-> p]
      <4>1. k.op = "unlock" /\ k.pool = p
        BY <3>2
      <4>2. /\ \A h \in Task : ~Submits(k, h)
            /\ ~AtPool(k)
        BY <4>1 DEF Submits, AtPool
      <4>3. \A q \in Pool : Unlocks(k, q) => pool'[q].owner = t
        BY <4>1, <1>1, <2>2 DEF Unlocks
      <4>4. QED
        BY <4>1, <4>2, <4>3 DEF OpInv
    <3>3. QED
      BY <3>1, <3>2, <2>1, <2>7
  <2>8. OpTypes' /\ Sole' /\ Alone' /\ OpsInv'
    <3>1. \A k \in OpSet : (\E i \in 1..Len(s) : k = s[i]) => OpInv(t, k)'
      BY <2>7
    <3>2. \A i \in 1..Len(s) : ~AtPool(s[i])
      BY <2>5
    <3>3. QED
      BY <3>1, <3>2, <2>1, <2>4, <2>6, TaskStep DEF TaskInv
  <2>9. QueueInv'
    <3> SUFFICES ASSUME NEW q \in Pool, NEW j \in pool'[q].queue
                 PROVE  status'[j] = "queued" /\ Target[j] = q
      BY DEF QueueInv
    <3>1. q # p /\ j \in pool[q].queue
      BY <2>2
    <3>2. j \in Task /\ status[j] = "queued" /\ Target[j] = q
      BY <3>1, PoolFacts DEF TaskInv, QueueInv
    <3>3. QED
      BY <3>1, <3>2, <2>2, <2>3
  <2>10. StackInv'
    <3>1. \A u \in Thread : \A i \in 1..Len(stack[u]) : stack[u][i] \in Task
      BY StackAt
    <3>2. \A u \in Thread : \A i \in 1..Len(stack[u]) : status'[stack[u][i]] = "running"
      BY <3>1, <2>2, <2>3 DEF TaskInv, StackInv
    <3>3. QED
      BY <3>2, <1>2 DEF TaskInv, StackInv
  <2>11. RunInv'
    <3> SUFFICES ASSUME NEW j \in Task, status'[j] = "running" PROVE Got(j, <<>>)'
      BY DEF RunInv
    <3>1. Got(j, <<>>)
      BY <2>2 DEF TaskInv, RunInv
    <3>2. QED
      BY <3>1, <1>2, GotKept
  <2>12. QED
    BY <2>8, <2>9, <2>10, <2>11 DEF TaskInv
<1>6. QED
  BY <1>4, <1>5
-----------------------------------------------------------------------------
(* Each action keeps the types of the other variables.                                 *)
StateTypes == GroupTypes /\ PoolTypes /\ MadeTypes /\ ThreadTypes /\ StatusTypes

LEMMA FiniteThreads ==
  ASSUME NEW p PROVE IsFiniteSet(Threads(p)) /\ Cardinality(Threads(p)) \in Nat
<1>1. Threads(p) \subseteq Thread
  BY DEF Threads
<1>2. IsFiniteSet(Threads(p))
  BY <1>1, PoolAssumption, FS_Subset
<1>3. QED
  BY <1>2, FS_CardinalityType

LEMMA InsertType ==
  ASSUME NEW g \in GroupState, NEW h \in Task PROVE Insert(g, h) \in GroupState
<1> DEFINE i == [g EXCEPT !.queue = g.queue \union {h}]
           kept == {s \in i.notified : Free(i, s) >= 0}
<1>1. Insert(g, h) = [i EXCEPT !.notified = kept]
  BY DEF Insert
<1>2. i \in GroupState
  BY DEF GroupState
<1> HIDE DEF i
<1>3. kept \in SUBSET Task
  BY <1>2 DEF GroupState
<1> HIDE DEF kept
<1>4. QED
  BY <1>1, <1>2, <1>3 DEF GroupState

LEMMA LockType ==
  ASSUME NEW g \in GroupState, NEW h \in Task PROVE Lock(g, h) \in GroupState
<1>1. CASE h \in g.locked
  BY <1>1 DEF Lock
<1>2. CASE h \notin g.locked
  <2> DEFINE n == g.tokens - 1
             S == g.locked \union {h}
  <2>1. Lock(g, h) = [g EXCEPT !.locked = S, !.tokens = n]
    BY <1>2 DEF Lock
  <2>2. n \in Int /\ S \in SUBSET Task
    BY DEF GroupState
  <2> HIDE DEF n, S
  <2>3. QED
    BY <2>1, <2>2 DEF GroupState
<1>3. QED
  BY <1>1, <1>2

LEMMA ReleaseType ==
  ASSUME NEW g \in GroupState, NEW h \in Task PROVE Release(g, h) \in GroupState
<1> DEFINE u == Unlock(g, h)
<1>1. g \in GroupOf(Task)
  BY DEF GroupState, GroupOf
<1>2. u \in GroupState
  BY <1>1, UnlockMembers DEF GroupState, GroupOf
<1> HIDE DEF u
<1>3. Told(u) \in SUBSET Task
  BY <1>2 DEF Told, GroupState
<1>4. Release(g, h) = [u EXCEPT !.notified = u.notified \union Told(u)]
  BY DEF Release, u
<1>5. QED
  BY <1>2, <1>3, <1>4 DEF GroupState

LEMMA ClearedType == ASSUME NEW P, NEW clear PROVE Cleared(P, clear) \in {0, 1}
  BY DEF Cleared

LEMMA WakeTypes ==
  ASSUME NEW p, NEW at \in [Thread -> Pcs]
  PROVE  WakeAll(p, at) \in [Thread -> Pcs] /\ \A x \in WakeOne(p, at) : x \in [Thread -> Pcs]
  BY DEF WakeAll, WakeOne, Pcs

LEMMA InsertHandleState ==
  ASSUME BaseTypes, NEW t \in Thread, InsertHandle(t) PROVE StateTypes'
<1>1. /\ pool' = pool /\ activePools' = activePools /\ globalIdle' = globalIdle /\ made' = made /\ started' = started
      /\ running' = running /\ terminated' = terminated /\ threadIdle' = threadIdle /\ pc' = pc /\ stack' = stack
      /\ status' = status
  BY DEF InsertHandle, shared
<1>10. GroupTypes'
  <2> DEFINE o == Head(ops[t])
             g == Head(o.groups)
             h == o.task
  <2>1. g \in Group /\ h \in Task
    BY InsertHandleOps DEF GroupsOp
  <2>2. group' = [group EXCEPT ![g] = Insert(group[g], h)]
    BY DEF InsertHandle
  <2>3. group[g] \in GroupState
    BY <2>1 DEF BaseTypes, GroupTypes
  <2>4. Insert(group[g], h) \in GroupState
    BY <2>1, <2>3, InsertType
  <2>5. QED
    BY <2>2, <2>4 DEF BaseTypes, GroupTypes
<1>11. PoolTypes'
  BY <1>1 DEF BaseTypes, PoolTypes
<1>12. MadeTypes'
  BY <1>1 DEF BaseTypes, MadeTypes
<1>13. ThreadTypes'
  BY <1>1 DEF BaseTypes, ThreadTypes
<1>14. StatusTypes'
  BY <1>1 DEF BaseTypes, StatusTypes
<1>15. QED
  BY <1>10, <1>11, <1>12, <1>13, <1>14 DEF StateTypes

LEMMA ReleaseGroupState ==
  ASSUME BaseTypes, NEW t \in Thread, ReleaseGroup(t) PROVE StateTypes'
<1>1. /\ pool' = pool /\ activePools' = activePools /\ globalIdle' = globalIdle /\ made' = made /\ started' = started
      /\ running' = running /\ terminated' = terminated /\ threadIdle' = threadIdle /\ pc' = pc /\ stack' = stack
      /\ status' = status
  BY DEF ReleaseGroup, shared
<1>10. GroupTypes'
  <2> DEFINE o == Head(ops[t])
             g == Head(o.groups)
             h == o.task
  <2>1. g \in Group /\ h \in Task
    BY ReleaseGroupOps DEF GroupsOp
  <2>2. group' = [group EXCEPT ![g] = Release(group[g], h)]
    BY DEF ReleaseGroup
  <2>3. group[g] \in GroupState
    BY <2>1 DEF BaseTypes, GroupTypes
  <2>4. Release(group[g], h) \in GroupState
    BY <2>1, <2>3, ReleaseType
  <2>5. QED
    BY <2>2, <2>4 DEF BaseTypes, GroupTypes
<1>11. PoolTypes'
  BY <1>1 DEF BaseTypes, PoolTypes
<1>12. MadeTypes'
  BY <1>1 DEF BaseTypes, MadeTypes
<1>13. ThreadTypes'
  BY <1>1 DEF BaseTypes, ThreadTypes
<1>14. StatusTypes'
  BY <1>1 DEF BaseTypes, StatusTypes
<1>15. QED
  BY <1>10, <1>11, <1>12, <1>13, <1>14 DEF StateTypes

LEMMA LockGroupState ==
  ASSUME BaseTypes, NEW t \in Thread, LockGroup(t) PROVE StateTypes'
<1>1. /\ pool' = pool /\ activePools' = activePools /\ globalIdle' = globalIdle /\ made' = made /\ started' = started
      /\ running' = running /\ terminated' = terminated /\ threadIdle' = threadIdle /\ pc' = pc /\ stack' = stack
      /\ status' = status
  BY DEF LockGroup, shared
<1>10. GroupTypes'
  <2> DEFINE o == Head(ops[t])
             g == Head(o.groups)
             h == o.task
  <2>1. g \in Group /\ h \in Task
    BY LockGroupOps
  <2>2. group' = [group EXCEPT ![g] = Lock(group[g], h)] \/ group' = group
    BY DEF LockGroup
  <2>3. group[g] \in GroupState
    BY <2>1 DEF BaseTypes, GroupTypes
  <2>4. Lock(group[g], h) \in GroupState
    BY <2>1, <2>3, LockType
  <2>5. QED
    BY <2>2, <2>4 DEF BaseTypes, GroupTypes
<1>11. PoolTypes'
  BY <1>1 DEF BaseTypes, PoolTypes
<1>12. MadeTypes'
  BY <1>1 DEF BaseTypes, MadeTypes
<1>13. ThreadTypes'
  BY <1>1 DEF BaseTypes, ThreadTypes
<1>14. StatusTypes'
  BY <1>1 DEF BaseTypes, StatusTypes
<1>15. QED
  BY <1>10, <1>11, <1>12, <1>13, <1>14 DEF StateTypes

LEMMA AskIdleState ==
  ASSUME BaseTypes, NEW t \in Thread, AskIdle(t) PROVE StateTypes'
<1>1. /\ group' = group /\ pool' = pool /\ activePools' = activePools /\ globalIdle' = globalIdle /\ made' = made
      /\ started' = started /\ running' = running /\ terminated' = terminated /\ threadIdle' = threadIdle /\ pc' = pc
      /\ stack' = stack /\ status' = status
  BY DEF AskIdle, shared
<1>10. GroupTypes'
  BY <1>1 DEF BaseTypes, GroupTypes
<1>11. PoolTypes'
  BY <1>1 DEF BaseTypes, PoolTypes
<1>12. MadeTypes'
  BY <1>1 DEF BaseTypes, MadeTypes
<1>13. ThreadTypes'
  BY <1>1 DEF BaseTypes, ThreadTypes
<1>14. StatusTypes'
  BY <1>1 DEF BaseTypes, StatusTypes
<1>15. QED
  BY <1>10, <1>11, <1>12, <1>13, <1>14 DEF StateTypes

LEMMA JoinState ==
  ASSUME BaseTypes, NEW t \in Thread, Join(t) PROVE StateTypes'
<1>1. /\ group' = group /\ pool' = pool /\ activePools' = activePools /\ globalIdle' = globalIdle /\ made' = made
      /\ started' = started /\ running' = running /\ terminated' = terminated /\ threadIdle' = threadIdle /\ pc' = pc
      /\ stack' = stack /\ status' = status
  BY DEF Join, shared
<1>10. GroupTypes'
  BY <1>1 DEF BaseTypes, GroupTypes
<1>11. PoolTypes'
  BY <1>1 DEF BaseTypes, PoolTypes
<1>12. MadeTypes'
  BY <1>1 DEF BaseTypes, MadeTypes
<1>13. ThreadTypes'
  BY <1>1 DEF BaseTypes, ThreadTypes
<1>14. StatusTypes'
  BY <1>1 DEF BaseTypes, StatusTypes
<1>15. QED
  BY <1>10, <1>11, <1>12, <1>13, <1>14 DEF StateTypes

LEMMA HaltState ==
  ASSUME BaseTypes, NEW t \in Thread, Halt(t) PROVE StateTypes'
<1>1. /\ group' = group /\ pool' = pool /\ activePools' = activePools /\ globalIdle' = globalIdle /\ made' = made
      /\ started' = started /\ terminated' = terminated /\ threadIdle' = threadIdle /\ pc' = pc /\ stack' = stack
      /\ status' = status
  BY DEF Halt, shared
<1>10. GroupTypes'
  BY <1>1 DEF BaseTypes, GroupTypes
<1>11. PoolTypes'
  BY <1>1 DEF BaseTypes, PoolTypes
<1>12. MadeTypes'
  BY <1>1 DEF Halt, BaseTypes, MadeTypes
<1>13. ThreadTypes'
  BY <1>1 DEF BaseTypes, ThreadTypes
<1>14. StatusTypes'
  BY <1>1 DEF BaseTypes, StatusTypes
<1>15. QED
  BY <1>10, <1>11, <1>12, <1>13, <1>14 DEF StateTypes

LEMMA RunInlineState ==
  ASSUME BaseTypes, NEW t \in Thread, RunInline(t) PROVE StateTypes'
<1>1. /\ group' = group /\ pool' = pool /\ activePools' = activePools /\ globalIdle' = globalIdle /\ made' = made
      /\ started' = started /\ running' = running /\ terminated' = terminated /\ threadIdle' = threadIdle /\ pc' = pc
  BY DEF RunInline, shared
<1>10. GroupTypes'
  BY <1>1 DEF BaseTypes, GroupTypes
<1>11. PoolTypes'
  BY <1>1 DEF BaseTypes, PoolTypes
<1>12. MadeTypes'
  BY <1>1 DEF BaseTypes, MadeTypes
<1>13. ThreadTypes'
  <2> DEFINE h == Head(ops[t]).task
  <2>1. h \in Task /\ stack' = [stack EXCEPT ![t] = <<h>> \o stack[t]]
    BY RunInlineOps DEF RunInline
  <2> HIDE DEF h
  <2>2. stack[t] \in Seq(Task) /\ <<h>> \in Seq(Task)
    BY <2>1 DEF BaseTypes, ThreadTypes
  <2>3. <<h>> \o stack[t] \in Seq(Task)
    BY <2>2, ConcatProperties
  <2>4. QED
    BY <1>1, <2>1, <2>3 DEF BaseTypes, ThreadTypes
<1>14. StatusTypes'
  BY DEF RunInline, BaseTypes, StatusTypes
<1>15. QED
  BY <1>10, <1>11, <1>12, <1>13, <1>14 DEF StateTypes

LEMMA FinishState ==
  ASSUME BaseTypes, NEW t \in Thread, Finish(t) PROVE StateTypes'
<1>1. /\ group' = group /\ pool' = pool /\ activePools' = activePools /\ globalIdle' = globalIdle /\ made' = made
      /\ started' = started /\ running' = running /\ terminated' = terminated /\ threadIdle' = threadIdle /\ pc' = pc
  BY DEF Finish, shared
<1>10. GroupTypes'
  BY <1>1 DEF BaseTypes, GroupTypes
<1>11. PoolTypes'
  BY <1>1 DEF BaseTypes, PoolTypes
<1>12. MadeTypes'
  BY <1>1 DEF BaseTypes, MadeTypes
<1>13. ThreadTypes'
  <2>1. stack' = [stack EXCEPT ![t] = Tail(stack[t])] /\ stack[t] # <<>>
    BY DEF Finish
  <2>2. stack[t] \in Seq(Task)
    BY DEF BaseTypes, ThreadTypes
  <2>3. Tail(stack[t]) \in Seq(Task)
    BY <2>1, <2>2, HeadTailProperties
  <2>4. QED
    BY <1>1, <2>1, <2>3 DEF BaseTypes, ThreadTypes
<1>14. StatusTypes'
  BY DEF Finish, BaseTypes, StatusTypes
<1>15. QED
  BY <1>10, <1>11, <1>12, <1>13, <1>14 DEF StateTypes

LEMMA GetPoolState ==
  ASSUME BaseTypes, NEW t \in Thread, GetPool(t) PROVE StateTypes'
<1>1. /\ group' = group /\ activePools' = activePools /\ globalIdle' = globalIdle /\ started' = started /\ running' = running
      /\ threadIdle' = threadIdle /\ stack' = stack /\ status' = status
  BY DEF GetPool, shared
<1> DEFINE p == Target[Head(ops[t]).task]
<1>2. p \in Pool
  BY GetPoolOps
<1>10. GroupTypes'
  BY <1>1 DEF BaseTypes, GroupTypes
<1>11. PoolTypes'
  <2> DEFINE b == p \in CountsForIdle
             n == IF started /\ b THEN Cardinality(Threads(p)) ELSE 0
  <2>1. pool' = pool \/ pool' = [pool EXCEPT ![p].idle = b, ![p].active = n]
    BY DEF GetPool
  <2>2. b \in BOOLEAN /\ n \in Int
    BY <1>2, FiniteThreads
  <2> HIDE DEF b, n, p
  <2> DEFINE new == [pool[p] EXCEPT !.idle = b, !.active = n]
  <2>3. new \in PoolState
    BY <1>2, <2>2, PoolFacts DEF PoolState
  <2>4. pool' = pool \/ pool' = [pool EXCEPT ![p] = new]
    BY <1>2, <2>1 DEF BaseTypes, PoolTypes
  <2> HIDE DEF new
  <2>5. QED
    BY <2>3, <2>4 DEF BaseTypes, PoolTypes
<1>12. MadeTypes'
  <2>1. (made' = made \/ made' = made \union {p}) /\ (terminated' = terminated \/ terminated' = TRUE)
    BY DEF GetPool
  <2>2. IsFiniteSet(made \union {p})
    BY FS_AddElement DEF BaseTypes, MadeTypes
  <2>3. QED
    BY <1>1, <1>2, <2>1, <2>2 DEF BaseTypes, MadeTypes
<1>13. ThreadTypes'
  <2>1. pc' = pc \/ pc' = [x \in Thread |-> IF started /\ Home[x] = p THEN "top" ELSE pc[x]]
    BY DEF GetPool
  <2>2. QED
    BY <1>1, <2>1 DEF BaseTypes, ThreadTypes, Pcs
<1>14. StatusTypes'
  BY <1>1 DEF BaseTypes, StatusTypes
<1>15. QED
  BY <1>10, <1>11, <1>12, <1>13, <1>14 DEF StateTypes

LEMMA SubmitToPoolState ==
  ASSUME BaseTypes, NEW t \in Thread, SubmitToPool(t) PROVE StateTypes'
<1>1. /\ group' = group /\ globalIdle' = globalIdle /\ made' = made /\ started' = started /\ running' = running
      /\ terminated' = terminated /\ threadIdle' = threadIdle /\ stack' = stack
  BY DEF SubmitToPool, shared
<1> DEFINE o == Head(ops[t])
           h == o.task
           p == Target[h]
           C == ClearIdle(pool[p], o.clear)
<1>2. h \in Task /\ p \in Pool
  BY SubmitToPoolOps
<1>10. GroupTypes'
  BY <1>1 DEF BaseTypes, GroupTypes
<1>11. PoolTypes'
  <2>1. C \in PoolState /\ C.queue \in SUBSET Task
    BY <1>2, PoolFacts, Clearing DEF PoolState
  <2>2. pool' = pool \/ pool' = [pool EXCEPT ![p] = [C EXCEPT !.queue = C.queue \union {h}, !.live = TRUE]]
    BY DEF SubmitToPool
  <2> HIDE DEF C, p, h
  <2>3. [C EXCEPT !.queue = C.queue \union {h}, !.live = TRUE] \in PoolState
    BY <1>2, <2>1 DEF PoolState
  <2>4. QED
    BY <2>2, <2>3 DEF BaseTypes, PoolTypes
<1>12. MadeTypes'
  <2>1. activePools' = activePools \/ activePools' = activePools + Cleared(pool[p], o.clear)
    BY DEF SubmitToPool
  <2>2. QED
    BY <1>1, <2>1, ClearedType DEF BaseTypes, MadeTypes
<1>13. ThreadTypes'
  <2>1. pc' = pc \/ pc' \in WakeOne(p, pc)
    BY DEF SubmitToPool
  <2>2. pc' \in [Thread -> Pcs]
    BY <2>1, WakeTypes DEF BaseTypes, ThreadTypes
  <2>3. QED
    BY <1>1, <2>2 DEF BaseTypes, ThreadTypes
<1>14. StatusTypes'
  <2>1. status' = [status EXCEPT ![h] = "queued"] \/ status' = [status EXCEPT ![h] = "dropped"]
    BY DEF SubmitToPool
  <2>2. QED
    BY <2>1 DEF BaseTypes, StatusTypes
<1>15. QED
  BY <1>10, <1>11, <1>12, <1>13, <1>14 DEF StateTypes

LEMMA NotifyState ==
  ASSUME BaseTypes, NEW t \in Thread, Notify(t) PROVE StateTypes'
<1>1. /\ group' = group /\ globalIdle' = globalIdle /\ made' = made /\ started' = started /\ running' = running
      /\ terminated' = terminated /\ threadIdle' = threadIdle /\ stack' = stack /\ status' = status
  BY DEF Notify, shared
<1> DEFINE o == Head(ops[t])
           p == o.pool
           C == ClearIdle(pool[p], o.clear)
<1>2. p \in Pool
  BY NotifyOps
<1>10. GroupTypes'
  BY <1>1 DEF BaseTypes, GroupTypes
<1>11. PoolTypes'
  <2>1. C \in PoolState
    BY <1>2, PoolFacts, Clearing
  <2>2. pool' = [pool EXCEPT ![p] = [C EXCEPT !.live = TRUE]]
    BY DEF Notify
  <2> HIDE DEF C, p
  <2>3. [C EXCEPT !.live = TRUE] \in PoolState
    BY <2>1 DEF PoolState
  <2>4. QED
    BY <2>2, <2>3 DEF BaseTypes, PoolTypes
<1>12. MadeTypes'
  <2>1. activePools' = activePools + Cleared(pool[p], o.clear)
    BY DEF Notify
  <2>2. QED
    BY <1>1, <2>1, ClearedType DEF BaseTypes, MadeTypes
<1>13. ThreadTypes'
  <2>1. pc' \in WakeOne(p, pc)
    BY DEF Notify
  <2>2. pc' \in [Thread -> Pcs]
    BY <2>1, WakeTypes DEF BaseTypes, ThreadTypes
  <2>3. QED
    BY <1>1, <2>2 DEF BaseTypes, ThreadTypes
<1>14. StatusTypes'
  BY <1>1 DEF BaseTypes, StatusTypes
<1>15. QED
  BY <1>10, <1>11, <1>12, <1>13, <1>14 DEF StateTypes

LEMMA GetTaskState ==
  ASSUME BaseTypes, NEW t \in Thread, GetTask(t) PROVE StateTypes'
<1>1. /\ group' = group /\ activePools' = activePools /\ globalIdle' = globalIdle /\ made' = made /\ started' = started
      /\ running' = running /\ terminated' = terminated /\ threadIdle' = threadIdle /\ stack' = stack /\ status' = status
  BY DEF GetTask, shared
<1>2. Waits(t) \/ Looks(t) \/ Leaves(t)
  BY GetTaskOps
<1>10. GroupTypes'
  BY <1>1 DEF BaseTypes, GroupTypes
<1>11. PoolTypes'
  <2>1. pool' = pool \/ pool' = [pool EXCEPT ![Home[t]].owner = t]
    BY <1>2 DEF Waits, Looks, Leaves
  <2>2. QED
    BY <2>1 DEF BaseTypes, PoolTypes, PoolState
<1>12. MadeTypes'
  BY <1>1 DEF BaseTypes, MadeTypes
<1>13. ThreadTypes'
  <2>1. /\ [pc EXCEPT ![t] = "wait"] \in [Thread -> Pcs] /\ [pc EXCEPT ![t] = "top"] \in [Thread -> Pcs]
        /\ [pc EXCEPT ![t] = "exited"] \in [Thread -> Pcs]
    BY DEF BaseTypes, ThreadTypes, Pcs
  <2>2. WakeAll(Home[t], [pc EXCEPT ![t] = "exited"]) \in [Thread -> Pcs]
    BY <2>1, WakeTypes
  <2>3. pc' \in [Thread -> Pcs]
    BY <1>2, <2>1, <2>2 DEF Waits, Looks, Leaves
  <2>4. QED
    BY <1>1, <2>3 DEF BaseTypes, ThreadTypes
<1>14. StatusTypes'
  BY <1>1 DEF BaseTypes, StatusTypes
<1>15. QED
  BY <1>10, <1>11, <1>12, <1>13, <1>14 DEF StateTypes

LEMMA TakeTaskState ==
  ASSUME BaseTypes, NEW t \in Thread, TakeTask(t) PROVE StateTypes'
<1>1. /\ group' = group /\ globalIdle' = globalIdle /\ made' = made /\ started' = started /\ running' = running
      /\ terminated' = terminated /\ pc' = pc
  BY DEF TakeTask, shared
<1> DEFINE h == Head(ops[t]).task
<1>2. h \in Task
  BY TakeTaskOps
<1>10. GroupTypes'
  BY <1>1 DEF BaseTypes, GroupTypes
<1>11. PoolTypes'
  <2>1. pool' = [pool EXCEPT ![Home[t]] = pool'[Home[t]]] /\ pool'[Home[t]] \in PoolState
    BY TakeTaskPool
  <2>2. PICK P \in PoolState : pool' = [pool EXCEPT ![Home[t]] = P]
    BY <2>1
  <2>3. QED
    BY <2>2 DEF BaseTypes, PoolTypes
<1>12. MadeTypes'
  <2> DEFINE n == Cleared(pool[Home[t]], TRUE)
  <2>1. activePools' = activePools + n
    BY DEF TakeTask
  <2>2. n \in Int
    BY DEF Cleared
  <2> HIDE DEF n
  <2>3. QED
    BY <1>1, <2>1, <2>2 DEF BaseTypes, MadeTypes
<1>13. ThreadTypes'
  <2>1. threadIdle' = [threadIdle EXCEPT ![t] = FALSE] /\ stack' = [stack EXCEPT ![t] = <<h>>]
    BY DEF TakeTask
  <2> HIDE DEF h
  <2>2. <<h>> \in Seq(Task)
    BY <1>2
  <2>3. QED
    BY <1>1, <2>1, <2>2 DEF BaseTypes, ThreadTypes
<1>14. StatusTypes'
  BY DEF TakeTask, BaseTypes, StatusTypes
<1>15. QED
  BY <1>10, <1>11, <1>12, <1>13, <1>14 DEF StateTypes

LEMMA BecomeIdleState ==
  ASSUME BaseTypes, NEW t \in Thread, BecomeIdle(t) PROVE StateTypes'
<1>1. /\ group' = group /\ globalIdle' = globalIdle /\ made' = made /\ started' = started /\ running' = running
      /\ terminated' = terminated /\ stack' = stack
  BY DEF BecomeIdle, shared
<1>10. GroupTypes'
  BY <1>1 DEF BaseTypes, GroupTypes
<1>11. PoolTypes'
  <2>1. pool' = [pool EXCEPT ![Home[t]] = pool'[Home[t]]] /\ pool'[Home[t]] \in PoolState
    BY BecomeIdlePool
  <2>2. PICK P \in PoolState : pool' = [pool EXCEPT ![Home[t]] = P]
    BY <2>1
  <2>3. QED
    BY <2>2 DEF BaseTypes, PoolTypes
<1>12. MadeTypes'
  <2>1. activePools' = PoolsLeft(t)
    BY DEF BecomeIdle, PoolsLeft, AllIdle, ActiveLeft, NowIdle, CountsNow
  <2>2. PoolsLeft(t) \in Int
    BY DEF PoolsLeft, BaseTypes, MadeTypes
  <2>3. QED
    BY <1>1, <2>1, <2>2 DEF BaseTypes, MadeTypes
<1>13. ThreadTypes'
  <2>1. \E b \in BOOLEAN : threadIdle' = [threadIdle EXCEPT ![t] = b]
    <3>1. threadIdle' = [threadIdle EXCEPT ![t] = threadIdle[t] \/ NowIdle(t)]
      BY DEF BecomeIdle, NowIdle, CountsNow
    <3>2. (threadIdle[t] \/ NowIdle(t)) \in BOOLEAN
      OBVIOUS
    <3>3. QED
      BY <3>1, <3>2
  <2>2. \E x \in {"wait", "top"} : pc' = [pc EXCEPT ![t] = x]
    BY DEF BecomeIdle
  <2>3. QED
    BY <1>1, <2>1, <2>2 DEF BaseTypes, ThreadTypes, Pcs
<1>14. StatusTypes'
  <2>1. status' = [h \in Task |-> IF h \in Fresh(t) THEN "submitted" ELSE status[h]]
    BY BecomeIdleOps
  <2>2. QED
    BY <2>1 DEF BaseTypes, StatusTypes
<1>15. QED
  BY <1>10, <1>11, <1>12, <1>13, <1>14 DEF StateTypes

LEMMA StopPoolState ==
  ASSUME BaseTypes, NEW t \in Thread, StopPool(t) PROVE StateTypes'
<1>1. /\ group' = group /\ activePools' = activePools /\ globalIdle' = globalIdle /\ made' = made /\ started' = started
      /\ running' = running /\ terminated' = terminated /\ threadIdle' = threadIdle /\ stack' = stack
  BY DEF StopPool, shared
<1> DEFINE o == Head(ops[t])
           p == o.pool
           force == o.type = "FORCE"
<1>2. p \in Pool /\ pool[p].queue \in SUBSET Task
  BY StopPoolOps
<1>10. GroupTypes'
  BY <1>1 DEF BaseTypes, GroupTypes
<1>11. PoolTypes'
  <2> DEFINE b == o.type = "NORMAL" /\ p \in Persistent
             c == p \in Persistent
             Q == IF force THEN {} ELSE pool[p].queue
             u == IF force THEN t ELSE None
  <2>1. pool' = [pool EXCEPT ![p] = [pool[p] EXCEPT !.live = TRUE, !.accept = c, !.running = b,
                                     !.queue = Q, !.owner = u]]
    BY DEF StopPool
  <2>2. b \in BOOLEAN /\ c \in BOOLEAN /\ Q \in SUBSET Task /\ u \in Thread \union {None}
    BY <1>2
  <2>3. pool[p] \in PoolState
    BY <1>2, PoolFacts
  <2> HIDE DEF b, c, Q, u, p, force
  <2>4. [pool[p] EXCEPT !.live = TRUE, !.accept = c, !.running = b, !.queue = Q, !.owner = u] \in PoolState
    BY <2>2, <2>3 DEF PoolState
  <2>5. QED
    BY <2>1, <2>4 DEF BaseTypes, PoolTypes
<1>12. MadeTypes'
  BY <1>1 DEF BaseTypes, MadeTypes
<1>13. ThreadTypes'
  <2>1. pc' = pc \/ pc' = WakeAll(p, pc)
    BY DEF StopPool
  <2>2. WakeAll(p, pc) \in [Thread -> Pcs]
    BY WakeTypes DEF BaseTypes, ThreadTypes
  <2>3. QED
    BY <1>1, <2>1, <2>2 DEF BaseTypes, ThreadTypes
<1>14. StatusTypes'
  <2>1. status' = [h \in Task |-> IF force /\ h \in pool[p].queue THEN "dropped" ELSE status[h]]
    BY DEF StopPool
  <2> HIDE DEF force, p
  <2>2. QED
    BY <2>1 DEF BaseTypes, StatusTypes
<1>15. QED
  BY <1>10, <1>11, <1>12, <1>13, <1>14 DEF StateTypes

LEMMA LetGoState ==
  ASSUME BaseTypes, NEW t \in Thread, LetGo(t) PROVE StateTypes'
<1>1. /\ group' = group /\ activePools' = activePools /\ globalIdle' = globalIdle /\ made' = made /\ started' = started
      /\ running' = running /\ terminated' = terminated /\ threadIdle' = threadIdle /\ stack' = stack /\ status' = status
  BY DEF LetGo, shared
<1> DEFINE p == Head(ops[t]).pool
<1>10. GroupTypes'
  BY <1>1 DEF BaseTypes, GroupTypes
<1>11. PoolTypes'
  <2>1. pool' = [pool EXCEPT ![p].owner = None]
    BY DEF LetGo
  <2>2. QED
    BY <2>1 DEF BaseTypes, PoolTypes, PoolState
<1>12. MadeTypes'
  BY <1>1 DEF BaseTypes, MadeTypes
<1>13. ThreadTypes'
  <2>1. pc' = WakeAll(p, pc)
    BY DEF LetGo
  <2>2. WakeAll(p, pc) \in [Thread -> Pcs]
    BY WakeTypes DEF BaseTypes, ThreadTypes
  <2>3. QED
    BY <1>1, <2>1, <2>2 DEF BaseTypes, ThreadTypes
<1>14. StatusTypes'
  BY <1>1 DEF BaseTypes, StatusTypes
<1>15. QED
  BY <1>10, <1>11, <1>12, <1>13, <1>14 DEF StateTypes

LEMMA SubmitState ==
  ASSUME BaseTypes, NEW t \in Thread, NEW h \in Task, Submit(t, h) PROVE StateTypes'
<1>1. /\ group' = group /\ pool' = pool /\ activePools' = activePools /\ globalIdle' = globalIdle /\ made' = made
      /\ started' = started /\ running' = running /\ terminated' = terminated /\ threadIdle' = threadIdle /\ pc' = pc
      /\ stack' = stack
  BY DEF Submit, shared
<1>10. GroupTypes'
  BY <1>1 DEF BaseTypes, GroupTypes
<1>11. PoolTypes'
  BY <1>1 DEF BaseTypes, PoolTypes
<1>12. MadeTypes'
  BY <1>1 DEF BaseTypes, MadeTypes
<1>13. ThreadTypes'
  BY <1>1 DEF BaseTypes, ThreadTypes
<1>14. StatusTypes'
  BY DEF Submit, BaseTypes, StatusTypes
<1>15. QED
  BY <1>10, <1>11, <1>12, <1>13, <1>14 DEF StateTypes

LEMMA AddIdleTaskState ==
  ASSUME BaseTypes, NEW t \in Thread, NEW h \in Task, AddIdleTask(t, h) PROVE StateTypes'
<1>1. /\ group' = group /\ activePools' = activePools /\ made' = made /\ started' = started /\ running' = running
      /\ terminated' = terminated /\ threadIdle' = threadIdle /\ stack' = stack /\ status' = status
  BY DEF AddIdleTask, shared
<1> DEFINE p == IdlePool[h]
<1>10. GroupTypes'
  BY <1>1 DEF BaseTypes, GroupTypes
<1>11. PoolTypes'
  <2>1. pool' = pool \/ pool' = [pool EXCEPT ![p].idleTasks = pool[p].idleTasks \union {h}]
    BY DEF AddIdleTask
  <2>2. h \in Idlers
    BY DEF AddIdleTask
  <2>3. QED
    BY <2>1, <2>2 DEF BaseTypes, PoolTypes, PoolState
<1>12. MadeTypes'
  BY <1>1 DEF AddIdleTask, BaseTypes, MadeTypes
<1>13. ThreadTypes'
  <2>1. pc' = pc \/ pc' \in WakeOne(p, pc)
    BY DEF AddIdleTask
  <2>2. pc' \in [Thread -> Pcs]
    BY <2>1, WakeTypes DEF BaseTypes, ThreadTypes
  <2>3. QED
    BY <1>1, <2>2 DEF BaseTypes, ThreadTypes
<1>14. StatusTypes'
  BY <1>1 DEF BaseTypes, StatusTypes
<1>15. QED
  BY <1>10, <1>11, <1>12, <1>13, <1>14 DEF StateTypes

LEMMA RemoveIdleTaskState ==
  ASSUME BaseTypes, NEW t \in Thread, NEW h \in Task, RemoveIdleTask(t, h) PROVE StateTypes'
<1>1. /\ group' = group /\ activePools' = activePools /\ made' = made /\ started' = started /\ running' = running
      /\ terminated' = terminated /\ threadIdle' = threadIdle /\ pc' = pc /\ stack' = stack
  BY DEF RemoveIdleTask, shared
<1>10. GroupTypes'
  BY <1>1 DEF BaseTypes, GroupTypes
<1>11. PoolTypes'
  <2>1. pool' = pool \/ \E p \in made : pool' = [pool EXCEPT ![p].idleTasks = pool[p].idleTasks \ {h}]
    BY DEF RemoveIdleTask
  <2>2. QED
    BY <2>1 DEF BaseTypes, PoolTypes, PoolState
<1>12. MadeTypes'
  BY <1>1 DEF RemoveIdleTask, BaseTypes, MadeTypes
<1>13. ThreadTypes'
  BY <1>1 DEF BaseTypes, ThreadTypes
<1>14. StatusTypes'
  BY DEF RemoveIdleTask, BaseTypes, StatusTypes
<1>15. QED
  BY <1>10, <1>11, <1>12, <1>13, <1>14 DEF StateTypes

LEMMA ShutdownState ==
  ASSUME BaseTypes, NEW t \in Thread, NEW force, Shutdown(t, force) PROVE StateTypes'
<1>1. /\ group' = group /\ pool' = pool /\ activePools' = activePools /\ globalIdle' = globalIdle /\ made' = made
      /\ started' = started /\ running' = running /\ terminated' = terminated /\ threadIdle' = threadIdle /\ pc' = pc
      /\ stack' = stack
  BY DEF Shutdown, shared
<1>10. GroupTypes'
  BY <1>1 DEF BaseTypes, GroupTypes
<1>11. PoolTypes'
  BY <1>1 DEF BaseTypes, PoolTypes
<1>12. MadeTypes'
  BY <1>1 DEF BaseTypes, MadeTypes
<1>13. ThreadTypes'
  BY <1>1 DEF BaseTypes, ThreadTypes
<1>14. StatusTypes'
  BY DEF Shutdown, BaseTypes, StatusTypes
<1>15. QED
  BY <1>10, <1>11, <1>12, <1>13, <1>14 DEF StateTypes

LEMMA StartPoolsState ==
  ASSUME BaseTypes, StartPools PROVE StateTypes'
<1>1. /\ group' = group /\ activePools' = activePools /\ globalIdle' = globalIdle /\ made' = made /\ running' = running
      /\ terminated' = terminated /\ threadIdle' = threadIdle /\ stack' = stack /\ status' = status
  BY DEF StartPools, shared
<1>10. GroupTypes'
  BY <1>1 DEF BaseTypes, GroupTypes
<1>11. PoolTypes'
  <2>1. pool' = [p \in Pool |-> IF p \in made /\ p \in CountsForIdle /\ p # MainPool
                                 THEN [pool[p] EXCEPT !.active = Cardinality(Threads(p))]
                                 ELSE pool[p]]
    BY DEF StartPools
  <2>2. ASSUME NEW p \in Pool
        PROVE  pool[p] \in PoolState /\ [pool[p] EXCEPT !.active = Cardinality(Threads(p))] \in PoolState
    <3> DEFINE n == Cardinality(Threads(p))
    <3>1. n \in Int /\ pool[p] \in PoolState
      BY FiniteThreads, PoolFacts
    <3> HIDE DEF n
    <3>2. [pool[p] EXCEPT !.active = n] \in PoolState
      BY <3>1 DEF PoolState
    <3>3. QED
      BY <3>1, <3>2 DEF n
  <2>3. QED
    BY <2>1, <2>2 DEF PoolTypes
<1>12. MadeTypes'
  BY <1>1 DEF StartPools, BaseTypes, MadeTypes
<1>13. ThreadTypes'
  <2>1. pc' = [t \in Thread |-> IF t = MainThread THEN "starting"
                                 ELSE IF Home[t] \in made THEN "top" ELSE pc[t]]
    BY DEF StartPools
  <2>2. QED
    BY <1>1, <2>1 DEF BaseTypes, ThreadTypes, Pcs
<1>14. StatusTypes'
  BY <1>1 DEF BaseTypes, StatusTypes
<1>15. QED
  BY <1>10, <1>11, <1>12, <1>13, <1>14 DEF StateTypes

LEMMA StartMainState ==
  ASSUME BaseTypes, StartMain PROVE StateTypes'
<1>1. /\ group' = group /\ activePools' = activePools /\ globalIdle' = globalIdle /\ made' = made /\ started' = started
      /\ running' = running /\ terminated' = terminated /\ threadIdle' = threadIdle /\ stack' = stack /\ status' = status
  BY DEF StartMain, shared
<1>10. GroupTypes'
  BY <1>1 DEF BaseTypes, GroupTypes
<1>11. PoolTypes'
  <2> DEFINE n == IF MainPool \in CountsForIdle THEN 1 ELSE 0
  <2>1. pool' = [pool EXCEPT ![MainPool].active = n] /\ n \in Int
    BY DEF StartMain
  <2> HIDE DEF n
  <2>2. QED
    BY <2>1 DEF BaseTypes, PoolTypes, PoolState
<1>12. MadeTypes'
  BY <1>1 DEF BaseTypes, MadeTypes
<1>13. ThreadTypes'
  <2>1. pc' = [pc EXCEPT ![MainThread] = "top"]
    BY DEF StartMain
  <2>2. QED
    BY <1>1, <2>1 DEF BaseTypes, ThreadTypes, Pcs
<1>14. StatusTypes'
  BY <1>1 DEF BaseTypes, StatusTypes
<1>15. QED
  BY <1>10, <1>11, <1>12, <1>13, <1>14 DEF StateTypes
-----------------------------------------------------------------------------
(* The invariant holds, and what follows for the groups.                               *)
LEMMA TaskInit == Init => BaseTypes /\ TaskInv
<1> SUFFICES ASSUME Init PROVE BaseTypes /\ TaskInv
  OBVIOUS
<1>1. OpTypes
  BY DEF Init, OpTypes
<1>2. GroupTypes
  <2>1. ASSUME NEW g \in Group PROVE NewGroup(Concurrency[g]) \in GroupState
    BY PoolAssumption DEF NewGroup, GroupState
  <2>2. QED
    BY <2>1 DEF Init, GroupTypes
<1>3. PoolTypes
  <2>1. ASSUME NEW p \in Pool
        PROVE  [queue |-> {}, live |-> TRUE, accept |-> TRUE,
                running |-> TRUE, idle |-> p = MainPool /\ p \in CountsForIdle,
                active |-> 0, owner |-> None, idleTasks |-> {}] \in PoolState
    <3> DEFINE b == p = MainPool /\ p \in CountsForIdle
    <3>1. b \in BOOLEAN
      OBVIOUS
    <3> HIDE DEF b
    <3>2. [queue |-> {}, live |-> TRUE, accept |-> TRUE, running |-> TRUE, idle |-> b,
           active |-> 0, owner |-> None, idleTasks |-> {}] \in PoolState
      BY <3>1 DEF PoolState
    <3>3. QED
      BY <3>2 DEF b
  <2>2. QED
    BY <2>1, Zenon DEF Init, PoolTypes
<1>4. MadeTypes
  <2>1. MainPool \in Pool
    BY PoolAssumption DEF MainPool
  <2>2. /\ activePools = 0 /\ globalIdle = {} /\ made = {MainPool}
        /\ started = FALSE /\ running = TRUE /\ terminated = FALSE
    BY DEF Init
  <2>3. made \subseteq Pool /\ IsFiniteSet(made)
    BY <2>1, <2>2, FS_Singleton
  <2>4. {started, running, terminated} \subseteq BOOLEAN
    BY <2>2
  <2>5. QED
    BY <2>2, <2>3, <2>4 DEF MadeTypes
<1>5. ThreadTypes
  <2>1. threadIdle \in [Thread -> BOOLEAN] /\ pc \in [Thread -> Pcs]
    BY DEF Init, Pcs
  <2>2. <<>> \in Seq(Task)
    BY EmptySeq
  <2>3. stack \in [Thread -> Seq(Task)]
    BY <2>2, Zenon DEF Init
  <2>4. QED
    BY <2>1, <2>3 DEF ThreadTypes
<1>6. StatusTypes
  BY DEF Init, StatusTypes
<1>7. /\ \A t \in Thread : ops[t] = <<>> /\ stack[t] = <<>>
      /\ \A p \in Pool : pool[p].queue = {}
      /\ \A h \in Task : status[h] = "new"
  BY DEF Init
<1>11. \A t \in Thread : 1..Len(ops[t]) = {} /\ 1..Len(stack[t]) = {}
  BY <1>7
<1>8. Sole /\ Alone /\ OpsInv
  BY <1>11 DEF Sole, Alone, OpsInv, Doing
<1>9. QueueInv /\ StackInv /\ RunInv
  BY <1>7, <1>11 DEF QueueInv, StackInv, RunInv
<1>10. QED
  BY <1>1, <1>2, <1>3, <1>4, <1>5, <1>6, <1>8, <1>9 DEF BaseTypes, TaskInv

LEMMA WorkTask ==
  ASSUME BaseTypes, TaskInv, NEW t \in Thread, Work(t) PROVE OpTypes' /\ TaskInv'
  BY GetPoolTask, InsertHandleTask, LockGroupTask, RunInlineTask, AskIdleTask, SubmitToPoolTask,
     ReleaseGroupTask, NotifyTask, GetTaskTask, TakeTaskTask, BecomeIdleTask, FinishTask, HaltTask,
     StopPoolTask, LetGoTask, JoinTask DEF Work

LEMMA WorkState ==
  ASSUME BaseTypes, NEW t \in Thread, Work(t) PROVE StateTypes'
  BY GetPoolState, InsertHandleState, LockGroupState, RunInlineState, AskIdleState, SubmitToPoolState,
     ReleaseGroupState, NotifyState, GetTaskState, TakeTaskState, BecomeIdleState, FinishState, HaltState,
     StopPoolState, LetGoState, JoinState DEF Work

LEMMA TaskNext == BaseTypes /\ TaskInv /\ [Next]_vars => BaseTypes' /\ TaskInv'
<1> SUFFICES ASSUME BaseTypes, TaskInv, [Next]_vars PROVE OpTypes' /\ StateTypes' /\ TaskInv'
  BY DEF BaseTypes, StateTypes
<1>1. ASSUME NEW t \in Thread, Work(t) PROVE OpTypes' /\ StateTypes' /\ TaskInv'
  BY <1>1, WorkTask, WorkState
<1>2. ASSUME NEW t \in Thread, NEW h \in Task, Submit(t, h) PROVE OpTypes' /\ StateTypes' /\ TaskInv'
  BY <1>2, SubmitTask, SubmitState
<1>3. ASSUME NEW t \in Thread, NEW h \in Task, AddIdleTask(t, h) PROVE OpTypes' /\ StateTypes' /\ TaskInv'
  BY <1>3, AddIdleTaskTask, AddIdleTaskState
<1>4. ASSUME NEW t \in Thread, NEW h \in Task, RemoveIdleTask(t, h) PROVE OpTypes' /\ StateTypes' /\ TaskInv'
  BY <1>4, RemoveIdleTaskTask, RemoveIdleTaskState
<1>5. ASSUME NEW t \in Thread, NEW force \in Forces, Shutdown(t, force) PROVE OpTypes' /\ StateTypes' /\ TaskInv'
  BY <1>5, ShutdownTask, ShutdownState
<1>6. ASSUME StartPools \/ StartMain PROVE OpTypes' /\ StateTypes' /\ TaskInv'
  BY <1>6, StartTask, StartPoolsState, StartMainState
<1>7. CASE UNCHANGED vars
  <2>1. /\ group' = group /\ pool' = pool /\ activePools' = activePools /\ globalIdle' = globalIdle
        /\ made' = made /\ started' = started /\ running' = running /\ threadIdle' = threadIdle
        /\ pc' = pc /\ stack' = stack /\ ops' = ops /\ status' = status /\ terminated' = terminated
    BY <1>7 DEF vars
  <2>2. Mild
    BY <2>1 DEF Mild, Calm
  <2>3. OpTypes' /\ TaskInv'
    BY <2>1, <2>2, MildSame
  <2>4. GroupTypes' /\ PoolTypes' /\ MadeTypes' /\ ThreadTypes' /\ StatusTypes'
    BY <2>1 DEF BaseTypes, GroupTypes, PoolTypes, MadeTypes, ThreadTypes, StatusTypes
  <2>5. QED
    BY <2>3, <2>4 DEF StateTypes
<1>8. QED
  BY <1>1, <1>2, <1>3, <1>4, <1>5, <1>6, <1>7 DEF Next

\* A task that runs holds a token of each of its groups.
LEMMA ActiveLocked ==
  ASSUME BaseTypes, TaskInv, NEW h \in Task, NEW g, Active(h), Contains(Groups[h], g)
  PROVE  h \in group[g].locked
<1>1. PICK t \in Thread : Contains(stack[t], h)
  BY DEF Active
<1>2. PICK i \in 1..Len(stack[t]) : stack[t][i] = h
  BY <1>1 DEF Contains
<1>3. ~\E k \in 1..Len(<<>>) : <<>>[k] = g
  OBVIOUS
<1>4. Got(h, <<>>)
  BY <1>2 DEF TaskInv, StackInv, RunInv
<1>5. PICK j \in 1..Len(Groups[h]) : Groups[h][j] = g
  BY DEF Contains
<1>6. QED
  BY <1>3, <1>4, <1>5 DEF Got

\* No group has more tasks in execution than its concurrency (Group.hpp:38), inline or from
\* a pool, for any number of threads, pools, groups and tasks and whatever is submitted,
\* shut down or destroyed at the same time (CombinedLock.cpp:33-48, Pool.cpp:81-203,
\* Scheduler.cpp:141-196).
THEOREM GroupLimitKept == Spec => []GroupConcurrency
<1>1. BaseTypes /\ TaskInv /\ GroupsInv => GroupConcurrency
  <2> SUFFICES ASSUME BaseTypes, TaskInv, GroupsInv, NEW g \in Group
               PROVE  Cardinality({h \in Task : Active(h) /\ Contains(Groups[h], g)}) <= Concurrency[g]
    BY DEF GroupConcurrency
  <2> DEFINE S == {h \in Task : Active(h) /\ Contains(Groups[h], g)}
             L == group[g].locked
  <2>1. S \subseteq L
    BY ActiveLocked
  <2>2. /\ group[g].tokens \in Int /\ group[g].tokens >= 0 /\ IsFiniteSet(L)
        /\ group[g].tokens + Cardinality(L) = Concurrency[g]
    <3>1. GroupInv(group[g], Concurrency[g])
      BY DEF GroupsInv
    <3>2. IsFiniteSet(L)
      BY <3>1, FS_Subset DEF GroupInv
    <3>3. QED
      BY <3>1, <3>2 DEF GroupInv, GroupOf
  <2> HIDE DEF S, L
  <2>3. Cardinality(S) <= Cardinality(L) /\ Cardinality(L) \in Nat /\ Cardinality(S) \in Nat
    BY <2>1, <2>2, FS_Subset, FS_CardinalityType
  <2>4. Concurrency[g] \in Nat
    BY PoolAssumption
  <2>5. Cardinality(S) <= Concurrency[g]
    BY <2>2, <2>3, <2>4
  <2>6. QED
    BY <2>5 DEF S
<1>2. Spec => [](BaseTypes /\ TaskInv /\ GroupsInv)
  <2>1. Init => BaseTypes /\ TaskInv /\ GroupsInv
    BY TaskInit, GroupsInit
  <2>2. BaseTypes /\ TaskInv /\ GroupsInv /\ [Next]_vars => (BaseTypes /\ TaskInv /\ GroupsInv)'
    BY TaskNext, GroupsNext
  <2>3. QED
    BY <2>1, <2>2, PTL DEF Spec
<1>3. QED
  BY <1>1, <1>2, PTL
-----------------------------------------------------------------------------
(* The counters of idleness.  The number of active threads of a pool that counts is that  *)
(* of its threads without a lock (ActiveInv), the number of active pools that of the      *)
(* pools without one (PoolsInv), though a pool's lock may be undone by a thread of any     *)
(* other pool; a thread with a lock, and every thread of a pool with one, is in no task    *)
(* (StartInv, IdleInv), since only a thread that is in a task runs one inline (PlaceInv).  *)
\* The threads of pool p are counted: the pool was started.
Counted(p) == /\ p \in made \intersect CountsForIdle
              /\ IF p = MainPool THEN pc[MainThread] \notin {"setup", "starting"} ELSE started
Busy(p) == {t \in Threads(p) : ~threadIdle[t]}
Busies == {p \in made \intersect CountsForIdle : ~pool[p].idle}
Alive == {"top", "wait", "woken", "exited"}

Placed(t, o) == /\ AtPool(o) => pc[t] = "top" /\ stack[t] = <<>>
                /\ \A h \in Inline : Submits(o, h) => stack[t] # <<>> \/ pc[t] = "setup"

ActiveInv == \A p \in Pool :
    /\ pool[p].active = IF Counted(p) THEN Cardinality(Busy(p)) ELSE 0
    /\ ~Counted(p) => \A t \in Threads(p) : ~threadIdle[t]
PoolsInv == /\ activePools = Cardinality(Busies) /\ MainPool \in made
            /\ \A p \in Pool : pool[p].idle => p \in made \intersect CountsForIdle
StartInv ==
    /\ started => pc[MainThread] # "setup"
    /\ \A t \in Thread :
       /\ pc[t] \in {"setup", "starting"} => t = MainThread
       /\ pc[t] \in Alive \union {"starting"} => Home[t] \in made /\ started
       /\ pc[t] \in {"unborn", "starting"} => stack[t] = <<>> /\ ops[t] = <<>>
       /\ pc[t] = "unborn" => t # MainThread
       /\ started /\ Home[t] \in made => pc[t] # "unborn"
       /\ threadIdle[t] => stack[t] = <<>>
PlaceInv == \A t \in Thread, o \in OpSet : Doing(t, o) => Placed(t, o)
IdleInv == \A p \in Pool : pool[p].idle =>
              \A t \in Threads(p) : stack[t] = <<>> \/ pc[t] = "setup"
IdlersInv == /\ \A h \in globalIdle : IdlePool[h] = None
             /\ \A p \in Pool : \A h \in pool[p].idleTasks : IdlePool[h] # None

CountInv == ActiveInv /\ PoolsInv /\ StartInv /\ PlaceInv /\ IdleInv /\ IdlersInv

\* A step of thread t that makes no pool and starts nothing.
Quietly(t) ==
    /\ made' = made /\ started' = started
    /\ pc[t] \notin {"unborn", "starting"}
    /\ \A u \in Thread : /\ u # t => stack'[u] = stack[u]
                         /\ \/ pc'[u] = pc[u]
                            \/ {pc[u], pc'[u]} \subseteq Alive /\ (u # t => pc[u] # "top")

\* What the other threads and the calls of t rely on stays.
Staying(t) == \A u \in Thread : /\ u # t => /\ stack'[u] = stack[u]
                                            /\ pc[u] = "top" => pc'[u] = "top"
                                /\ pc[u] = "setup" => pc'[u] = "setup"

LEMMA QuietStays == ASSUME NEW t \in Thread, Quietly(t) PROVE Staying(t)
  BY DEF Quietly, Staying, Alive

LEMMA StartKept ==
  ASSUME StartInv, NEW t \in Thread, NEW s, OpTypes, Pushes(t, s), Quietly(t),
         \A u \in Thread : threadIdle'[u] => stack'[u] = <<>>
  PROVE  StartInv'
<1>1. MainThread \in Thread
  BY PoolAssumption
<1>2. \A u \in Thread : u # t => ops'[u] = ops[u] /\ stack'[u] = stack[u]
  BY DEF Pushes, OpTypes, Quietly
<1>3. started' => pc'[MainThread] # "setup"
  BY <1>1 DEF StartInv, Quietly, Alive
<1>4. ASSUME NEW u \in Thread
      PROVE  /\ pc'[u] \in {"setup", "starting"} => u = MainThread
             /\ pc'[u] \in Alive \union {"starting"} => Home[u] \in made' /\ started'
             /\ pc'[u] \in {"unborn", "starting"} => stack'[u] = <<>> /\ ops'[u] = <<>>
             /\ pc'[u] = "unborn" => u # MainThread
             /\ started' /\ Home[u] \in made' => pc'[u] # "unborn"
  <2>1. CASE pc'[u] = pc[u]
    BY <1>2, <2>1 DEF StartInv, Quietly
  <2>2. CASE {pc[u], pc'[u]} \subseteq Alive
    BY <2>2 DEF StartInv, Quietly, Alive
  <2>3. QED
    BY <2>1, <2>2 DEF Quietly
<1>5. QED
  BY <1>3, <1>4 DEF StartInv, Alive

LEMMA PlaceKept ==
  ASSUME OpTypes, Sole, Alone, PlaceInv, NEW t \in Thread, NEW s, Pushes(t, s), Staying(t),
         ops[t] = <<>> \/ (stack[t] # <<>> => stack'[t] # <<>>),
         \A o \in OpSet : (\E i \in 1..Len(s) : o = s[i]) => Placed(t, o)'
  PROVE  PlaceInv'
<1>1. ASSUME NEW u \in Thread, NEW o \in OpSet, Doing(u, o)' PROVE Placed(u, o)'
  <2>1. CASE u = t /\ \E i \in 1..Len(s) : o = s[i]
    BY <2>1
  <2>2. CASE Stays(t, u, o)
    <3>1. Doing(u, o)
      BY <2>2 DEF Stays
    <3>2. Placed(u, o)
      BY <3>1 DEF PlaceInv
    <3>3. CASE u # t
      <4>1. stack'[u] = stack[u]
        BY <3>3 DEF Staying
      <4>2. pc[u] \in {"setup", "top"} => pc'[u] = pc[u]
        BY <3>3 DEF Staying
      <4>3. QED
        BY <3>2, <4>1, <4>2 DEF Placed, AtPool, Submits
    <3>4. CASE u = t
      <4>1. ~AtPool(o) /\ ops[t] # <<>>
        BY <2>2, <3>4, StaysAlone DEF Stays
      <4>2. stack[t] # <<>> => stack'[t] # <<>>
        BY <4>1
      <4>3. pc[t] = "setup" => pc'[t] = "setup"
        BY DEF Staying
      <4>4. QED
        BY <3>2, <3>4, <4>1, <4>2, <4>3 DEF Placed, AtPool, Submits
    <3>5. QED
      BY <3>3, <3>4
  <2>3. QED
    BY <1>1, <2>1, <2>2, PushDoing
<1>2. QED
  BY <1>1 DEF PlaceInv

LEMMA IdleKept ==
  ASSUME IdleInv, NEW t \in Thread, Staying(t),
         \A p \in Pool : pool'[p].idle => pool[p].idle,
         pool'[Home[t]].idle => stack'[t] = <<>> \/ stack[t] # <<>> \/ pc[t] = "setup"
  PROVE  IdleInv'
<1>1. ASSUME NEW p \in Pool, pool'[p].idle, NEW u \in Threads(p)
      PROVE  stack'[u] = <<>> \/ pc'[u] = "setup"
  <2>1. u \in Thread /\ Home[u] = p
    BY DEF Threads
  <2>2. stack[u] = <<>> \/ pc[u] = "setup"
    BY <1>1 DEF IdleInv
  <2>3. pc[u] = "setup" => pc'[u] = "setup"
    BY <2>1 DEF Staying
  <2>4. CASE u # t
    BY <2>1, <2>2, <2>3, <2>4 DEF Staying
  <2>5. CASE u = t
    BY <1>1, <2>1, <2>2, <2>3, <2>5
  <2>6. QED
    BY <2>4, <2>5
<1>2. QED
  BY <1>1 DEF IdleInv, Threads

LEMMA ActiveKept ==
  ASSUME ActiveInv, \A p \in Pool : Counted(p)' <=> Counted(p), threadIdle' = threadIdle,
         \A p \in Pool : pool'[p].active = pool[p].active
  PROVE  ActiveInv'
<1>1. \A p : Busy(p)' = Busy(p)
  BY DEF Busy, Threads
<1>2. QED
  BY <1>1 DEF ActiveInv

LEMMA CountedKept ==
  ASSUME NEW t \in Thread, Quietly(t), NEW p PROVE Counted(p)' <=> Counted(p)
<1>1. MainThread \in Thread
  BY PoolAssumption
<1>2. pc'[MainThread] \in {"setup", "starting"} <=> pc[MainThread] \in {"setup", "starting"}
  BY <1>1 DEF Quietly, Alive
<1>3. QED
  BY <1>2 DEF Counted, Quietly, MainPool

\* At most the idleness of pool p ends, and is then undone in the number of active pools.
LEMMA PoolsKept ==
  ASSUME BaseTypes, PoolsInv, made' = made, NEW p \in Pool, NEW c,
         \A q \in Pool : pool'[q].idle <=> pool[q].idle /\ ~(q = p /\ c),
         activePools' = activePools + Cleared(pool[p], c)
  PROVE  PoolsInv'
<1>1. made \subseteq Pool /\ IsFiniteSet(made)
  BY DEF BaseTypes, MadeTypes
<1>2. IsFiniteSet(Busies) /\ Busies \subseteq made
  BY <1>1, FS_Subset DEF Busies
<1>3. activePools' = Cardinality(Busies')
  <2>1. CASE pool[p].idle /\ c
    <3>1. p \in made \intersect CountsForIdle
      BY <2>1 DEF PoolsInv
    <3>2. Busies' = Busies \union {p} /\ p \notin Busies
      BY <1>1, <2>1, <3>1 DEF Busies
    <3>3. Cardinality(Busies \union {p}) = Cardinality(Busies) + 1
      BY <1>2, <3>2, FS_AddElement
    <3>4. QED
      BY <2>1, <3>2, <3>3 DEF PoolsInv, Cleared
  <2>2. CASE ~(pool[p].idle /\ c)
    <3>1. Busies' = Busies
      BY <1>1, <2>2 DEF Busies
    <3>2. activePools' = activePools + 0
      BY <2>2 DEF Cleared
    <3>3. QED
      BY <3>1, <3>2 DEF PoolsInv, BaseTypes, MadeTypes
  <2>3. QED
    BY <2>1, <2>2
<1>4. QED
  BY <1>3 DEF PoolsInv, MainPool

LEMMA IdlersKept ==
  ASSUME IdlersInv, globalIdle' \subseteq globalIdle,
         \A p \in Pool : pool'[p].idleTasks \subseteq pool[p].idleTasks
  PROVE  IdlersInv'
  BY DEF IdlersInv
-----------------------------------------------------------------------------
(* Each action keeps CountInv.                                                         *)
LEMMA SteadyCount ==
  ASSUME BaseTypes, TaskInv, CountInv, NEW t \in Thread, NEW s, Pushes(t, s), Quietly(t),
         stack' = stack, threadIdle' = threadIdle,
         \A o \in OpSet : (\E i \in 1..Len(s) : o = s[i]) => Placed(t, o)',
         NEW p \in Pool, NEW c,
         \A q \in Pool : /\ pool'[q].active = pool[q].active
                         /\ pool'[q].idle <=> pool[q].idle /\ ~(q = p /\ c),
         activePools' = activePools + Cleared(pool[p], c),
         IdlersInv'
  PROVE  CountInv'
<1>1. ActiveInv'
  BY CountedKept, ActiveKept DEF CountInv
<1>2. PoolsInv'
  <2>1. made' = made
    BY DEF Quietly
  <2>2. QED
    BY <2>1, PoolsKept DEF CountInv
<1>3. StartInv'
  <2>1. \A u \in Thread : threadIdle'[u] => stack'[u] = <<>>
    BY DEF CountInv, StartInv
  <2>2. QED
    BY <2>1, StartKept DEF CountInv, BaseTypes
<1>4. PlaceInv'
  BY QuietStays, PlaceKept DEF CountInv, BaseTypes, TaskInv
<1>5. IdleInv'
  BY QuietStays, IdleKept DEF CountInv
<1>6. QED
  BY <1>1, <1>2, <1>3, <1>4, <1>5 DEF CountInv

LEMMA StillCount ==
  ASSUME BaseTypes, TaskInv, CountInv, NEW t \in Thread, NEW s, Pushes(t, s), Quietly(t),
         stack' = stack, threadIdle' = threadIdle,
         \A o \in OpSet : (\E i \in 1..Len(s) : o = s[i]) => Placed(t, o)',
         activePools' = activePools,
         \A q \in Pool : /\ pool'[q].active = pool[q].active
                         /\ pool'[q].idle <=> pool[q].idle,
         IdlersInv'
  PROVE  CountInv'
<1>1. Home[t] \in Pool
  BY PoolAssumption
<1>2. activePools' = activePools + Cleared(pool[Home[t]], FALSE)
  BY DEF Cleared, BaseTypes, MadeTypes
<1>3. QED
  BY <1>1, <1>2, SteadyCount

LEMMA Working ==
  ASSUME StartInv, NEW t \in Thread, ops[t] # <<>> \/ stack[t] # <<>> \/ pc[t] \in {"setup", "top", "woken"}
  PROVE  pc[t] \notin {"unborn", "starting"}
  BY DEF StartInv

LEMMA QuietSame ==
  ASSUME NEW t \in Thread, made' = made, started' = started, pc' = pc,
         \A u \in Thread : u # t => stack'[u] = stack[u], pc[t] \notin {"unborn", "starting"}
  PROVE  Quietly(t)
  BY DEF Quietly

LEMMA WakeFacts ==
  ASSUME NEW p, NEW at \in [Thread -> Pcs]
  PROVE  /\ \A u \in Thread : \/ WakeAll(p, at)[u] = at[u]
                              \/ at[u] = "wait" /\ WakeAll(p, at)[u] = "woken"
         /\ \A x \in WakeOne(p, at) : \A u \in Thread :
              x[u] = at[u] \/ (at[u] = "wait" /\ x[u] = "woken")
  BY DEF WakeAll, WakeOne, Waiting

LEMMA QuietWake ==
  ASSUME BaseTypes, NEW t \in Thread, made' = made, started' = started, NEW p,
         pc' = pc \/ pc' \in WakeOne(p, pc) \/ pc' = WakeAll(p, pc),
         \A u \in Thread : u # t => stack'[u] = stack[u], pc[t] \notin {"unborn", "starting"}
  PROVE  Quietly(t)
<1>1. pc \in [Thread -> Pcs]
  BY DEF BaseTypes, ThreadTypes
<1>2. \A u \in Thread : pc'[u] = pc[u] \/ (pc[u] = "wait" /\ pc'[u] = "woken")
  BY <1>1, WakeFacts
<1>3. QED
  BY <1>2 DEF Quietly, Alive

LEMMA QuietPlaced ==
  ASSUME NEW t, NEW o, Quiet(o) PROVE Placed(t, o)'
<1>1. ~AtPool(o) /\ \A h \in Task : ~Submits(o, h)
  BY QuietClaims
<1>2. \A h : ~Submits(o, h)
  BY DEF Quiet, Submits
<1>3. QED
  BY <1>1, <1>2 DEF Placed, AtPool, Submits

LEMMA HeadPlaced ==
  ASSUME BaseTypes, TaskInv, PlaceInv, NEW t \in Thread, ops[t] # <<>>
  PROVE  Placed(t, Head(ops[t])) /\ Head(ops[t]) \in OpSet
<1>1. OpTypes /\ OpsInv
  BY DEF BaseTypes, TaskInv
<1>2. Doing(t, Head(ops[t])) /\ Head(ops[t]) \in OpSet
  BY <1>1, HeadInv
<1>3. QED
  BY <1>2 DEF PlaceInv

LEMMA FollowPlaced ==
  ASSUME NEW t, NEW o, Placed(t, o), NEW k, pc'[t] = pc[t], stack'[t] = stack[t],
         AtPool(k) => AtPool(o), \A h : Submits(k, h) => Submits(o, h)
  PROVE  Placed(t, k)'
  BY DEF Placed, AtPool, Submits

LEMMA OneStep ==
  ASSUME NEW t, NEW k, Placed(t, k)'
  PROVE  \A o \in OpSet : (\E i \in 1..Len(<<k>>) : o = <<k>>[i]) => Placed(t, o)'
<1>1. Len(<<k>>) = 1 /\ <<k>>[1] = k
  OBVIOUS
<1>2. QED
  BY <1>1

LEMMA NoStep ==
  ASSUME NEW t
  PROVE  \A o \in OpSet : (\E i \in 1..Len(<<>>) : o = <<>>[i]) => Placed(t, o)'
  OBVIOUS

LEMMA NoPush ==
  ASSUME OpTypes, NEW t \in Thread, ops[t] = <<>>, ops' = ops PROVE Pushes(t, <<>>)
<1>1. <<>> \in Seq(OpSet)
  OBVIOUS
<1>2. ops' = [ops EXCEPT ![t] = <<>>]
  BY DEF OpTypes
<1>3. QED
  BY <1>1, <1>2, SetPushes

\* A step that takes the head of the calls of t and changes only ops, groups and history.
LEMMA OpsCount ==
  ASSUME BaseTypes, TaskInv, CountInv, NEW t \in Thread, NEW s, Pushes(t, s), ops[t] # <<>>,
         \A o \in OpSet : (\E i \in 1..Len(s) : o = s[i]) => Placed(t, o)',
         pool' = pool, activePools' = activePools, globalIdle' = globalIdle, made' = made,
         started' = started, threadIdle' = threadIdle, pc' = pc, stack' = stack
  PROVE  CountInv'
<1>1. pc[t] \notin {"unborn", "starting"}
  BY Working DEF CountInv
<1>2. Quietly(t)
  BY <1>1, QuietSame
<1>3. IdlersInv'
  BY IdlersKept DEF CountInv
<1>4. QED
  BY <1>2, <1>3, StillCount

LEMMA InsertHandleCount ==
  ASSUME BaseTypes, TaskInv, CountInv, NEW t \in Thread, InsertHandle(t) PROVE CountInv'
<1>1. PICK o, k : /\ o = Head(ops[t]) /\ k = Submission(o.task, Tail(o.groups))
                  /\ ops[t] # <<>> /\ o.op = "insert" /\ Pushes(t, <<k>>)
  BY InsertHandleOps
<1>2. /\ pool' = pool /\ activePools' = activePools /\ globalIdle' = globalIdle /\ made' = made
      /\ started' = started /\ threadIdle' = threadIdle /\ pc' = pc /\ stack' = stack
  BY DEF InsertHandle, shared
<1>3. Placed(t, o)
  BY <1>1, HeadPlaced DEF CountInv
<1>4. ~AtPool(k) /\ \A h : Submits(k, h) => h = o.task
  BY <1>1, SubmissionFacts
<1>5. Submits(o, o.task)
  BY <1>1 DEF Submits
<1>6. Placed(t, k)'
  BY <1>2, <1>3, <1>4, <1>5, FollowPlaced
<1>7. QED
  BY <1>1, <1>2, <1>6, OneStep, OpsCount

LEMMA LockGroupCount ==
  ASSUME BaseTypes, TaskInv, CountInv, NEW t \in Thread, LockGroup(t) PROVE CountInv'
<1>1. PICK o, k :
         /\ o = Head(ops[t]) /\ ops[t] # <<>> /\ o.op = "lock" /\ o.last \in {"inline", "take"}
         /\ Pushes(t, <<k>>)
         /\ \/ k = Locks(o.task, Tail(o.groups), o.last)
            \/ k = Enqueue(o.task) /\ o.last = "inline"
            \/ (k = [op |-> "idle"] \/ \E j : k = Attempt(j)) /\ o.last = "take"
  <2> DEFINE h == Head(ops[t])
             later == {j \in pool[Home[t]].queue : Before(h.task, j)}
             n == IF Lockable(group[Head(h.groups)], h.task)
                  THEN Locks(h.task, Tail(h.groups), h.last)
                  ELSE IF h.last = "inline" THEN Enqueue(h.task)
                  ELSE IF later # {} THEN Attempt(First(later)) ELSE [op |-> "idle"]
  <2>1. ops[t] # <<>> /\ h.op = "lock" /\ h.last \in {"inline", "take"} /\ Pushes(t, <<n>>)
    BY LockGroupOps
  <2>2. \/ n = Locks(h.task, Tail(h.groups), h.last)
        \/ n = Enqueue(h.task) /\ h.last = "inline"
        \/ (n = [op |-> "idle"] \/ \E j : n = Attempt(j)) /\ h.last = "take"
    BY <2>1
  <2> HIDE DEF n
  <2>3. QED
    BY <2>1, <2>2
<1>2. /\ pool' = pool /\ activePools' = activePools /\ globalIdle' = globalIdle /\ made' = made
      /\ started' = started /\ threadIdle' = threadIdle /\ pc' = pc /\ stack' = stack
  BY DEF LockGroup, shared
<1>3. Placed(t, o)
  BY <1>1, HeadPlaced DEF CountInv
<1>4. CASE o.last = "inline"
  <2>1. k \in {Locks(o.task, Tail(o.groups), "inline"), Enqueue(o.task)}
    BY <1>1, <1>4
  <2>2. ~AtPool(k) /\ \A h : Submits(k, h) => h = o.task
    BY <2>1, LocksFacts, EnqueueFacts
  <2>3. Submits(o, o.task)
    BY <1>1, <1>4 DEF Submits
  <2>4. Placed(t, k)'
    BY <1>2, <1>3, <2>2, <2>3, FollowPlaced
  <2>5. QED
    BY <1>1, <1>2, <2>4, OneStep, OpsCount
<1>5. CASE o.last = "take"
  <2>1. k = Locks(o.task, Tail(o.groups), "take") \/ k = [op |-> "idle"] \/ \E j : k = Attempt(j)
    BY <1>1, <1>5
  <2>2. \A h : ~Submits(k, h)
    <3>1. \A h : ~Submits([op |-> "idle"], h)
      BY DEF Submits
    <3>2. QED
      BY <2>1, <3>1, LocksFacts DEF Attempt
  <2>3. AtPool(o)
    BY <1>1, <1>5 DEF AtPool
  <2>4. Placed(t, k)'
    BY <1>2, <1>3, <2>2, <2>3, FollowPlaced
  <2>5. QED
    BY <1>1, <1>2, <2>4, OneStep, OpsCount
<1>6. QED
  BY <1>1, <1>4, <1>5

LEMMA AskIdleCount ==
  ASSUME BaseTypes, TaskInv, CountInv, NEW t \in Thread, AskIdle(t) PROVE CountInv'
<1>1. PICK o, k :
         /\ o = Head(ops[t]) /\ ops[t] # <<>> /\ o.op = "ask" /\ Pushes(t, <<k>>)
         /\ k \in SubmitOp \union NotifyOp /\ k.op = o.next.op
         /\ o.next \in SubmitOp \union NotifyOp
         /\ o.next \in SubmitOp => k.task = o.next.task
  BY AskIdleOps
<1>2. /\ pool' = pool /\ activePools' = activePools /\ globalIdle' = globalIdle /\ made' = made
      /\ started' = started /\ threadIdle' = threadIdle /\ pc' = pc /\ stack' = stack
  BY DEF AskIdle, shared
<1>3. Placed(t, o)
  BY <1>1, HeadPlaced DEF CountInv
<1>4. k.op \in {"submit", "notify"} /\ (k.op = "submit" => o.next \in SubmitOp)
  BY <1>1 DEF SubmitOp, NotifyOp
<1>5. ~AtPool(k) /\ \A h : Submits(k, h) => Submits(o, h)
  BY <1>1, <1>4 DEF AtPool, Submits
<1>6. Placed(t, k)'
  BY <1>2, <1>3, <1>5, FollowPlaced
<1>7. QED
  BY <1>1, <1>2, <1>6, OneStep, OpsCount

LEMMA ReleaseGroupCount ==
  ASSUME BaseTypes, TaskInv, CountInv, NEW t \in Thread, ReleaseGroup(t) PROVE CountInv'
<1>1. PICK s : /\ ops[t] # <<>> /\ Pushes(t, s)
               /\ \A i \in 1..Len(s) : s[i].op = "release" \/ (s[i].op = "ask" /\ s[i].next.op = "notify")
  BY ReleaseGroupOps
<1>2. /\ pool' = pool /\ activePools' = activePools /\ globalIdle' = globalIdle /\ made' = made
      /\ started' = started /\ threadIdle' = threadIdle /\ pc' = pc /\ stack' = stack
  BY DEF ReleaseGroup, shared
<1>3. \A i \in 1..Len(s) : Quiet(s[i])
  BY <1>1 DEF Quiet
<1>4. QED
  BY <1>1, <1>2, <1>3, QuietPlaced, OpsCount

LEMMA HaltCount ==
  ASSUME BaseTypes, TaskInv, CountInv, NEW t \in Thread, Halt(t) PROVE CountInv'
<1>1. PICK s : ops[t] # <<>> /\ Pushes(t, s) /\ \A i \in 1..Len(s) : s[i].op = "stop"
  BY HaltOps
<1>2. /\ pool' = pool /\ activePools' = activePools /\ globalIdle' = globalIdle /\ made' = made
      /\ started' = started /\ threadIdle' = threadIdle /\ pc' = pc /\ stack' = stack
  BY DEF Halt
<1>3. \A i \in 1..Len(s) : Quiet(s[i])
  BY <1>1 DEF Quiet
<1>4. QED
  BY <1>1, <1>2, <1>3, QuietPlaced, OpsCount

LEMMA JoinCount ==
  ASSUME BaseTypes, TaskInv, CountInv, NEW t \in Thread, Join(t) PROVE CountInv'
<1>1. ops[t] # <<>> /\ Pushes(t, <<>>)
  BY MutexOps
<1>2. /\ pool' = pool /\ activePools' = activePools /\ globalIdle' = globalIdle /\ made' = made
      /\ started' = started /\ threadIdle' = threadIdle /\ pc' = pc /\ stack' = stack
  BY DEF Join, shared
<1>3. QED
  BY <1>1, <1>2, NoStep, OpsCount

LEMMA OneChanged ==
  ASSUME BaseTypes, NEW p, NEW P, pool' = [pool EXCEPT ![p] = P]
  PROVE  \A q \in Pool : pool'[q] = IF q = p THEN P ELSE pool[q]
  BY DEF BaseTypes, PoolTypes

LEMMA ClearingIdle ==
  ASSUME NEW P \in PoolState, NEW clear
  PROVE  ClearIdle(P, clear).idle <=> P.idle /\ ~clear
<1> DEFINE b == P.idle /\ ~clear
<1>1. b \in BOOLEAN /\ ClearIdle(P, clear) = [P EXCEPT !.idle = b] /\ (b <=> P.idle /\ ~clear)
  BY DEF ClearIdle
<1> HIDE DEF b
<1>2. ClearIdle(P, clear).idle = b
  BY <1>1 DEF PoolState
<1>3. QED
  BY <1>1, <1>2

LEMMA SubmitToPoolCount ==
  ASSUME BaseTypes, TaskInv, CountInv, NEW t \in Thread, SubmitToPool(t) PROVE CountInv'
<1>1. PICK o, p, s :
         /\ o = Head(ops[t]) /\ p = Target[o.task] /\ ops[t] # <<>> /\ o.task \in Task /\ p \in Pool
         /\ Pushes(t, s) /\ \A i \in 1..Len(s) : s[i].op = "release" /\ s[i].task = o.task
  BY SubmitToPoolOps
<1>2. /\ globalIdle' = globalIdle /\ made' = made /\ started' = started /\ threadIdle' = threadIdle
      /\ stack' = stack
  BY DEF SubmitToPool, shared
<1>3. \A k \in OpSet : (\E i \in 1..Len(s) : k = s[i]) => Placed(t, k)'
  <2>1. \A i \in 1..Len(s) : Quiet(s[i])
    BY <1>1 DEF Quiet
  <2>2. QED
    BY <2>1, QuietPlaced
<1>4. pc[t] \notin {"unborn", "starting"}
  BY <1>1, Working DEF CountInv
<1>5. CASE pool[p].accept
  <2> DEFINE C == ClearIdle(pool[p], o.clear)
             P == [C EXCEPT !.queue = C.queue \union {o.task}, !.live = TRUE]
  <2>1. /\ pool' = [pool EXCEPT ![p] = P]
        /\ activePools' = activePools + Cleared(pool[p], o.clear) /\ pc' \in WakeOne(p, pc)
    BY <1>1, <1>5 DEF SubmitToPool
  <2>2. /\ C \in PoolState /\ C.active = pool[p].active /\ C.idleTasks = pool[p].idleTasks
        /\ C.idle <=> pool[p].idle /\ ~o.clear
    BY <1>1, PoolFacts, Clearing, ClearingIdle
  <2> HIDE DEF C
  <2>3. P.active = C.active /\ P.idleTasks = C.idleTasks /\ P.idle = C.idle
    BY <2>2 DEF PoolState
  <2> HIDE DEF P
  <2>4. \A q \in Pool : pool'[q] = IF q = p THEN P ELSE pool[q]
    BY <2>1, OneChanged
  <2>5. Quietly(t)
    BY <1>2, <1>4, <2>1, QuietWake
  <2>6. \A q \in Pool : /\ pool'[q].active = pool[q].active
                        /\ pool'[q].idle <=> pool[q].idle /\ ~(q = p /\ o.clear)
                        /\ pool'[q].idleTasks = pool[q].idleTasks
    BY <2>2, <2>3, <2>4
  <2>7. IdlersInv'
    BY <1>2, <2>6, IdlersKept DEF CountInv
  <2>8. QED
    BY <1>1, <1>2, <1>3, <2>1, <2>5, <2>6, <2>7, SteadyCount
<1>6. CASE ~pool[p].accept
  <2>1. pool' = pool /\ activePools' = activePools /\ pc' = pc
    BY <1>1, <1>6 DEF SubmitToPool
  <2>2. QED
    BY <1>1, <1>2, <1>3, <2>1, OpsCount
<1>7. QED
  BY <1>5, <1>6

LEMMA NotifyCount ==
  ASSUME BaseTypes, TaskInv, CountInv, NEW t \in Thread, Notify(t) PROVE CountInv'
<1>1. PICK o, p : o = Head(ops[t]) /\ p = o.pool /\ ops[t] # <<>> /\ p \in Pool /\ Pushes(t, <<>>)
  BY NotifyOps
<1>2. /\ globalIdle' = globalIdle /\ made' = made /\ started' = started /\ threadIdle' = threadIdle
      /\ stack' = stack
  BY DEF Notify, shared
<1>3. pc[t] \notin {"unborn", "starting"}
  BY <1>1, Working DEF CountInv
<1> DEFINE C == ClearIdle(pool[p], o.clear)
           P == [C EXCEPT !.live = TRUE]
<1>4. /\ pool' = [pool EXCEPT ![p] = P]
      /\ activePools' = activePools + Cleared(pool[p], o.clear) /\ pc' \in WakeOne(p, pc)
  BY <1>1 DEF Notify
<1>5. /\ C \in PoolState /\ C.active = pool[p].active /\ C.idleTasks = pool[p].idleTasks
      /\ C.idle <=> pool[p].idle /\ ~o.clear
  BY <1>1, PoolFacts, Clearing, ClearingIdle
<1> HIDE DEF C
<1>6. P.active = C.active /\ P.idleTasks = C.idleTasks /\ P.idle = C.idle
  BY <1>5 DEF PoolState
<1> HIDE DEF P
<1>7. \A q \in Pool : pool'[q] = IF q = p THEN P ELSE pool[q]
  BY <1>4, OneChanged
<1>8. Quietly(t)
  BY <1>2, <1>3, <1>4, QuietWake
<1>9. \A q \in Pool : /\ pool'[q].active = pool[q].active
                      /\ pool'[q].idle <=> pool[q].idle /\ ~(q = p /\ o.clear)
                      /\ pool'[q].idleTasks = pool[q].idleTasks
  BY <1>5, <1>6, <1>7
<1>10. IdlersInv'
  BY <1>2, <1>9, IdlersKept DEF CountInv
<1>11. QED
  BY <1>1, <1>2, <1>4, <1>8, <1>9, <1>10, NoStep, SteadyCount

\* What StopPool, LetGo and GetTask do to a pool does not count.
Uncounted == \A q \in Pool : /\ pool'[q].active = pool[q].active
                             /\ pool'[q].idle <=> pool[q].idle
                             /\ pool'[q].idleTasks = pool[q].idleTasks

LEMMA UncountedStep ==
  ASSUME BaseTypes, TaskInv, CountInv, NEW t \in Thread, NEW s, Pushes(t, s), Quietly(t), Uncounted,
         \A o \in OpSet : (\E i \in 1..Len(s) : o = s[i]) => Placed(t, o)',
         activePools' = activePools, globalIdle' = globalIdle, threadIdle' = threadIdle, stack' = stack
  PROVE  CountInv'
<1>1. IdlersInv'
  BY IdlersKept DEF CountInv, Uncounted
<1>2. QED
  BY <1>1, StillCount DEF Uncounted

LEMMA StopPoolCount ==
  ASSUME BaseTypes, TaskInv, CountInv, NEW t \in Thread, StopPool(t) PROVE CountInv'
<1>1. PICK p, s : /\ p = Head(ops[t]).pool /\ ops[t] # <<>> /\ p \in Pool /\ Pushes(t, s)
                  /\ \A i \in 1..Len(s) : \/ s[i].op = "release" \/ s[i].op = "join"
                                          \/ s[i] = [op |-> "unlock", pool |-> p]
  <2>1. ops[t] # <<>> /\ Head(ops[t]).pool \in Pool
    BY StopPoolOps
  <2>2. CASE Head(ops[t]).type = "FORCE"
    BY <2>1, <2>2, StopPoolOps
  <2>3. CASE Head(ops[t]).type # "FORCE"
    BY <2>1, <2>3, StopPoolOps
  <2>4. QED
    BY <2>2, <2>3
<1>2. /\ activePools' = activePools /\ globalIdle' = globalIdle /\ made' = made /\ started' = started
      /\ threadIdle' = threadIdle /\ stack' = stack
      /\ pc' = pc \/ pc' = WakeAll(p, pc)
  BY <1>1 DEF StopPool, shared
<1>3. PICK ac, ru, qu, ow :
        pool' = [pool EXCEPT ![p] = [pool[p] EXCEPT !.live = TRUE, !.accept = ac, !.running = ru,
                                                    !.queue = qu, !.owner = ow]]
  <2> DEFINE force == Head(ops[t]).type = "FORCE"
             a == p \in Persistent
             r == Head(ops[t]).type = "NORMAL" /\ p \in Persistent
             Q == IF force THEN {} ELSE pool[p].queue
             w == IF force THEN t ELSE None
  <2>1. pool' = [pool EXCEPT ![p] = [pool[p] EXCEPT !.live = TRUE, !.accept = a, !.running = r,
                                                    !.queue = Q, !.owner = w]]
    BY <1>1 DEF StopPool
  <2> HIDE DEF a, r, Q, w
  <2>2. QED
    BY <2>1
<1> DEFINE P == [pool[p] EXCEPT !.live = TRUE, !.accept = ac, !.running = ru, !.queue = qu, !.owner = ow]
<1>4. pool[p] \in PoolState
  BY <1>1, PoolFacts
<1>5. P.active = pool[p].active /\ P.idle = pool[p].idle /\ P.idleTasks = pool[p].idleTasks
  BY <1>4 DEF PoolState
<1> HIDE DEF P
<1>6. \A q \in Pool : pool'[q] = IF q = p THEN P ELSE pool[q]
  BY <1>3, OneChanged DEF P
<1>7. Uncounted
  BY <1>5, <1>6 DEF Uncounted
<1>8. pc[t] \notin {"unborn", "starting"}
  BY <1>1, Working DEF CountInv
<1>9. Quietly(t)
  BY <1>2, <1>8, QuietWake
<1>10. ASSUME NEW k \in OpSet, NEW i \in 1..Len(s), k = s[i] PROVE Placed(t, k)'
  <2>1. k.op \in {"release", "join", "unlock"}
    BY <1>1, <1>10
  <2>2. ~AtPool(k) /\ \A h : ~Submits(k, h)
    BY <2>1 DEF AtPool, Submits
  <2>3. QED
    BY <2>2 DEF Placed, AtPool, Submits
<1>11. QED
  BY <1>1, <1>2, <1>7, <1>9, <1>10, UncountedStep

LEMMA LetGoCount ==
  ASSUME BaseTypes, TaskInv, CountInv, NEW t \in Thread, LetGo(t) PROVE CountInv'
<1>1. PICK p : p = Head(ops[t]).pool /\ ops[t] # <<>> /\ p \in Pool /\ Pushes(t, <<>>)
  BY MutexOps
<1>2. /\ activePools' = activePools /\ globalIdle' = globalIdle /\ made' = made /\ started' = started
      /\ threadIdle' = threadIdle /\ stack' = stack /\ pc' = WakeAll(p, pc)
      /\ pool' = [pool EXCEPT ![p].owner = None]
  BY <1>1 DEF LetGo, shared
<1>3. Uncounted
  BY <1>2, PoolFacts DEF Uncounted, PoolState, BaseTypes, PoolTypes
<1>4. Quietly(t)
  BY <1>1, <1>2, QuietWake, Working DEF CountInv
<1>5. QED
  BY <1>1, <1>2, <1>3, <1>4, NoStep, UncountedStep

LEMMA GetTaskCount ==
  ASSUME BaseTypes, TaskInv, CountInv, NEW t \in Thread, GetTask(t) PROVE CountInv'
<1>1. /\ Home[t] \in Pool /\ pc[t] \in {"top", "woken"} /\ stack[t] = <<>> /\ ops[t] = <<>>
      /\ Waits(t) \/ Looks(t) \/ Leaves(t)
  BY GetTaskOps
<1>2. /\ activePools' = activePools /\ globalIdle' = globalIdle /\ made' = made /\ started' = started
      /\ threadIdle' = threadIdle /\ stack' = stack
  BY DEF GetTask, shared
<1>3. OpTypes /\ pc \in [Thread -> Pcs] /\ pc[t] \notin {"unborn", "starting"}
  BY <1>1 DEF BaseTypes, ThreadTypes
<1>4. CASE Waits(t)
  <2>1. pool' = pool /\ ops' = ops /\ pc' = [pc EXCEPT ![t] = "wait"]
    BY <1>4 DEF Waits
  <2>2. Pushes(t, <<>>)
    BY <1>1, <1>3, <2>1, NoPush
  <2>3. Quietly(t)
    BY <1>1, <1>2, <1>3, <2>1 DEF Quietly, Alive
  <2>4. Uncounted
    BY <2>1 DEF Uncounted
  <2>5. QED
    BY <1>2, <2>2, <2>3, <2>4, NoStep, UncountedStep
<1>5. CASE Looks(t)
  <2>1. PICK k : /\ pc' = [pc EXCEPT ![t] = "top"] /\ pool' = [pool EXCEPT ![Home[t]].owner = t]
                 /\ Pushes(t, <<k>>) /\ (k = [op |-> "idle"] \/ \E h : k = Attempt(h))
    <3> DEFINE n == IF pool[Home[t]].live /\ pool[Home[t]].queue # {}
                    THEN Attempt(First(pool[Home[t]].queue)) ELSE [op |-> "idle"]
    <3>1. Pushes(t, <<n>>) /\ (n = [op |-> "idle"] \/ \E h : n = Attempt(h))
      BY <1>5 DEF Looks
    <3> HIDE DEF n
    <3>2. QED
      BY <1>5, <3>1 DEF Looks
  <2>2. Quietly(t)
    BY <1>1, <1>2, <1>3, <2>1 DEF Quietly, Alive
  <2>3. Uncounted
    BY <1>1, <2>1, PoolFacts DEF Uncounted, PoolState, BaseTypes, PoolTypes
  <2>4. Placed(t, k)'
    <3>1. \A h : ~Submits([op |-> "idle"], h)
      BY DEF Submits
    <3>2. \A h : ~Submits(k, h)
      BY <2>1, <3>1, LocksFacts DEF Attempt
    <3>3. pc'[t] = "top" /\ stack'[t] = <<>>
      BY <1>1, <1>2, <1>3, <2>1
    <3>4. QED
      BY <3>2, <3>3 DEF Placed, Submits
  <2>5. QED
    BY <1>2, <2>1, <2>2, <2>3, <2>4, OneStep, UncountedStep
<1>6. CASE Leaves(t)
  <2>1. PICK s : Pushes(t, s) /\ \A i \in 1..Len(s) : s[i].op = "stop"
    BY <1>6 DEF Leaves
  <2>2. pool' = pool /\ pc' = WakeAll(Home[t], [pc EXCEPT ![t] = "exited"])
    BY <1>6 DEF Leaves
  <2>3. Quietly(t)
    <3> PICK at : at = [pc EXCEPT ![t] = "exited"]
      OBVIOUS
    <3>1. /\ at = [pc EXCEPT ![t] = "exited"] /\ at \in [Thread -> Pcs]
          /\ at[t] = "exited" /\ \A u \in Thread : u # t => at[u] = pc[u]
      BY <1>3 DEF Pcs
    <3>2. pc' = WakeAll(Home[t], at)
      BY <2>2, <3>1
    <3>3. \A u \in Thread : pc'[u] = at[u] \/ (at[u] = "wait" /\ pc'[u] = "woken")
      <4>1. \A u \in Thread : \/ WakeAll(Home[t], at)[u] = at[u]
                              \/ at[u] = "wait" /\ WakeAll(Home[t], at)[u] = "woken"
        BY <3>1 DEF WakeAll, Waiting
      <4>2. QED
        BY <3>2, <4>1
    <3>4. pc'[t] = "exited"
      BY <3>1, <3>3
    <3>5. \A u \in Thread : u # t => pc'[u] = pc[u] \/ (pc[u] = "wait" /\ pc'[u] = "woken")
      BY <3>1, <3>3
    <3>6. QED
      BY <1>1, <1>2, <1>3, <3>4, <3>5 DEF Quietly, Alive
  <2>4. Uncounted
    BY <2>2 DEF Uncounted
  <2>5. \A i \in 1..Len(s) : Quiet(s[i])
    BY <2>1 DEF Quiet
  <2>6. QED
    BY <1>2, <2>1, <2>3, <2>4, <2>5, QuietPlaced, UncountedStep
<1>7. QED
  BY <1>1, <1>4, <1>5, <1>6

LEMMA CountSteady ==
  ASSUME BaseTypes, CountInv, NEW t \in Thread, Quietly(t), threadIdle' = threadIdle,
         pool' = pool, activePools' = activePools, globalIdle' = globalIdle
  PROVE  ActiveInv' /\ PoolsInv' /\ IdlersInv'
<1>1. ActiveInv'
  BY CountedKept, ActiveKept DEF CountInv
<1>2. PoolsInv'
  <2>1. Home[t] \in Pool /\ made' = made
    BY PoolAssumption DEF Quietly
  <2>2. activePools' = activePools + Cleared(pool[Home[t]], FALSE)
    BY DEF Cleared, BaseTypes, MadeTypes
  <2>3. QED
    BY <2>1, <2>2, PoolsKept DEF CountInv
<1>3. QED
  BY <1>1, <1>2, IdlersKept DEF CountInv

\* The main thread is not counted as idle before its pool is started.
LEMMA SetupAwake ==
  ASSUME ActiveInv, StartInv, NEW t \in Thread, pc[t] \in {"setup", "starting"}
  PROVE  t = MainThread /\ ~threadIdle[t]
<1>1. t = MainThread
  BY DEF StartInv
<1>2. MainPool \in Pool /\ t \in Threads(MainPool)
  BY <1>1, PoolAssumption DEF MainPool
<1>3. ~Counted(MainPool)
  BY <1>1 DEF Counted
<1>4. QED
  BY <1>1, <1>2, <1>3 DEF ActiveInv

LEMMA RunInlineCount ==
  ASSUME BaseTypes, TaskInv, CountInv, NEW t \in Thread, RunInline(t) PROVE CountInv'
<1>1. PICK o : o = Head(ops[t]) /\ ops[t] # <<>> /\ o.op = "inline" /\ o.task \in Inline /\ Pushes(t, <<>>)
  BY RunInlineOps
<1>2. /\ pool' = pool /\ activePools' = activePools /\ globalIdle' = globalIdle /\ made' = made
      /\ started' = started /\ threadIdle' = threadIdle /\ pc' = pc
      /\ stack' = [stack EXCEPT ![t] = <<o.task>> \o stack[t]]
  BY <1>1 DEF RunInline, shared
<1>3. stack[t] # <<>> \/ pc[t] = "setup"
  <2>1. Placed(t, o) /\ Submits(o, o.task)
    BY <1>1, HeadPlaced DEF CountInv, Submits
  <2>2. QED
    BY <1>1, <2>1 DEF Placed
<1>4. stack'[t] # <<>> /\ \A u \in Thread : u # t => stack'[u] = stack[u]
  <2>1. stack \in [Thread -> Seq(Task)] /\ o.task \in Task
    BY <1>1, RunInlineOps DEF BaseTypes, ThreadTypes
  <2>2. <<o.task>> \o stack[t] # <<>>
    BY <2>1
  <2>3. QED
    BY <1>2, <2>1, <2>2
<1>5. Quietly(t)
  BY <1>1, <1>2, <1>4, QuietSame, Working DEF CountInv
<1>6. ActiveInv' /\ PoolsInv' /\ IdlersInv'
  BY <1>2, <1>5, CountSteady
<1>7. \A u \in Thread : threadIdle'[u] => stack'[u] = <<>>
  <2>1. ~threadIdle[t]
    BY <1>3, SetupAwake DEF CountInv, StartInv
  <2>2. QED
    BY <1>2, <1>4, <2>1 DEF CountInv, StartInv
<1>8. StartInv'
  BY <1>1, <1>5, <1>7, StartKept DEF CountInv, BaseTypes
<1>9. PlaceInv'
  BY <1>1, <1>4, <1>5, QuietStays, NoStep, PlaceKept DEF CountInv, BaseTypes, TaskInv
<1>10. IdleInv'
  BY <1>2, <1>3, <1>5, QuietStays, IdleKept DEF CountInv
<1>11. QED
  BY <1>6, <1>8, <1>9, <1>10 DEF CountInv

LEMMA FinishCount ==
  ASSUME BaseTypes, TaskInv, CountInv, NEW t \in Thread, Finish(t) PROVE CountInv'
<1>1. PICK s : /\ ops[t] = <<>> /\ stack[t] # <<>> /\ Pushes(t, s)
               /\ \A i \in 1..Len(s) : s[i].op = "release"
  BY FinishOps
<1>2. /\ pool' = pool /\ activePools' = activePools /\ globalIdle' = globalIdle /\ made' = made
      /\ started' = started /\ threadIdle' = threadIdle /\ pc' = pc
      /\ \A u \in Thread : u # t => stack'[u] = stack[u]
  BY DEF Finish, shared, BaseTypes, ThreadTypes
<1>3. Quietly(t)
  BY <1>1, <1>2, QuietSame, Working DEF CountInv
<1>4. ActiveInv' /\ PoolsInv' /\ IdlersInv'
  BY <1>2, <1>3, CountSteady
<1>5. \A u \in Thread : threadIdle'[u] => stack'[u] = <<>>
  BY <1>1, <1>2 DEF CountInv, StartInv
<1>6. StartInv'
  BY <1>1, <1>3, <1>5, StartKept DEF CountInv, BaseTypes
<1>7. PlaceInv'
  <2>1. \A i \in 1..Len(s) : Quiet(s[i])
    BY <1>1 DEF Quiet
  <2>2. \A o \in OpSet : (\E i \in 1..Len(s) : o = s[i]) => Placed(t, o)'
    BY <2>1, QuietPlaced
  <2>3. QED
    BY <1>1, <1>3, <2>2, QuietStays, PlaceKept DEF CountInv, BaseTypes, TaskInv
<1>8. IdleInv'
  BY <1>1, <1>2, <1>3, QuietStays, IdleKept DEF CountInv
<1>9. QED
  BY <1>4, <1>6, <1>7, <1>8 DEF CountInv

\* What a running task, or the main thread before the start, calls.
LEMMA BodyCount ==
  ASSUME BaseTypes, TaskInv, CountInv, NEW t \in Thread, InBody(t), NEW s, Pushes(t, s),
         \A i \in 1..Len(s) : ~AtPool(s[i]), Uncounted,
         NEW p, pc' = pc \/ pc' \in WakeOne(p, pc),
         activePools' = activePools, made' = made, started' = started,
         threadIdle' = threadIdle, stack' = stack, IdlersInv'
  PROVE  CountInv'
<1>1. stack[t] # <<>> \/ pc[t] = "setup"
  BY DEF InBody
<1>2. Quietly(t)
  BY <1>1, QuietWake, Working DEF CountInv
<1>3. stack'[t] # <<>> \/ pc'[t] = "setup"
  BY <1>1, <1>2 DEF Quietly, Alive
<1>4. ASSUME NEW o \in OpSet, NEW i \in 1..Len(s), o = s[i] PROVE Placed(t, o)'
  <2>1. ~AtPool(o)
    BY <1>4
  <2>2. QED
    BY <1>3, <2>1 DEF Placed, AtPool
<1>5. QED
  BY <1>2, <1>4, StillCount DEF Uncounted

LEMMA SubmitCount ==
  ASSUME BaseTypes, TaskInv, CountInv, NEW t \in Thread, NEW h \in Task, Submit(t, h) PROVE CountInv'
<1>1. PICK k : k = SubmitCall(h) /\ Pushes(t, <<k>>)
  BY SubmitOps
<1>2. /\ InBody(t) /\ pool' = pool /\ activePools' = activePools /\ globalIdle' = globalIdle /\ made' = made
      /\ started' = started /\ threadIdle' = threadIdle /\ pc' = pc /\ stack' = stack
  BY DEF Submit, shared
<1>3. \A i \in 1..Len(<<k>>) : ~AtPool(<<k>>[i])
  BY <1>1, SubmitCallFacts
<1>4. IdlersInv' /\ Uncounted
  BY <1>2, IdlersKept DEF CountInv, Uncounted
<1>5. QED
  BY <1>1, <1>2, <1>3, <1>4, BodyCount

LEMMA ShutdownCount ==
  ASSUME BaseTypes, TaskInv, CountInv, NEW t \in Thread, NEW force, Shutdown(t, force) PROVE CountInv'
<1>1. PICK s : Pushes(t, s) /\ \A i \in 1..Len(s) : ~AtPool(s[i])
  <2> DEFINE c == ForEach(Sorted(OnStop), SubmitCall)
             q == c \o <<[op |-> "halt", type |-> IF force THEN "FORCE" ELSE "NORMAL"]>>
  <2>1. /\ OnStop \in SUBSET Task /\ Pushes(t, q) /\ Len(q) = Len(c) + 1 /\ Len(c) \in Nat
        /\ \A i \in 1..Len(c) : q[i] = c[i]
        /\ q[Len(c) + 1].op = "halt"
    BY ShutdownOps
  <2>2. \A i \in 1..Len(c) : c[i] = SubmitCall(Sorted(OnStop)[i])
    BY <2>1, SubmitCalls
  <2> HIDE DEF c, q
  <2>3. ASSUME NEW i \in 1..Len(q) PROVE ~AtPool(q[i])
    <3>1. i \in 1..Len(c) \/ i = Len(c) + 1
      BY <2>1
    <3>2. CASE i \in 1..Len(c)
      BY <2>1, <2>2, <3>2, SubmitCallFacts
    <3>3. CASE i = Len(c) + 1
      BY <2>1, <3>3 DEF AtPool
    <3>4. QED
      BY <3>1, <3>2, <3>3
  <2>4. QED
    BY <2>1, <2>3
<1>2. /\ InBody(t) /\ pool' = pool /\ activePools' = activePools /\ globalIdle' = globalIdle /\ made' = made
      /\ started' = started /\ threadIdle' = threadIdle /\ pc' = pc /\ stack' = stack
  BY DEF Shutdown, shared, BodyIn
<1>3. IdlersInv' /\ Uncounted
  BY <1>2, IdlersKept DEF CountInv, Uncounted
<1>4. QED
  BY <1>1, <1>2, <1>3, BodyCount

LEMMA AddIdleTaskCount ==
  ASSUME BaseTypes, TaskInv, CountInv, NEW t \in Thread, NEW h \in Task, AddIdleTask(t, h) PROVE CountInv'
<1>1. /\ InBody(t) /\ ops[t] = <<>> /\ activePools' = activePools /\ made' = made
      /\ started' = started /\ threadIdle' = threadIdle /\ stack' = stack
  BY DEF AddIdleTask, BodyIn, InBody
<1>2. PICK s : Pushes(t, s) /\ \A i \in 1..Len(s) : ~AtPool(s[i])
  <2>1. CASE ops' = ops
    <3>1. Pushes(t, <<>>)
      BY <1>1, <2>1, NoPush DEF BaseTypes
    <3>2. QED
      BY <3>1
  <2>2. CASE Pushes(t, <<[op |-> "notify", pool |-> MainPool, clear |-> TRUE]>>)
    <3>1. PICK k : k = [op |-> "notify", pool |-> MainPool, clear |-> TRUE]
      OBVIOUS
    <3>2. ~AtPool(k)
      BY <3>1 DEF AtPool
    <3>3. \A i \in 1..Len(<<k>>) : ~AtPool(<<k>>[i])
      BY <3>2
    <3>4. Pushes(t, <<k>>)
      BY <2>2, <3>1
    <3>5. QED
      BY <3>3, <3>4
  <2>3. QED
    BY <2>1, <2>2, AddIdleTaskOps
<1>3. CASE IdlePool[h] = None
  <2>1. globalIdle' = globalIdle \union {h} /\ pool' = pool /\ pc' = pc
    BY <1>3 DEF AddIdleTask
  <2>2. IdlersInv' /\ Uncounted
    BY <1>3, <2>1 DEF CountInv, IdlersInv, Uncounted
  <2>3. QED
    BY <1>1, <1>2, <2>1, <2>2, BodyCount
<1>4. CASE IdlePool[h] # None
  <2>1. PICK p : /\ pool' = [pool EXCEPT ![p].idleTasks = pool[p].idleTasks \union {h}]
                 /\ pc' \in WakeOne(p, pc) \/ pc' = pc
                 /\ globalIdle' = globalIdle
    BY <1>4 DEF AddIdleTask
  <2>2. /\ \A q \in Pool : /\ pool'[q].active = pool[q].active
                           /\ pool'[q].idle <=> pool[q].idle
        /\ \A q \in Pool : pool'[q].idleTasks \subseteq pool[q].idleTasks \union {h}
    BY <2>1, PoolFacts DEF PoolState, BaseTypes, PoolTypes
  <2>3. IdlersInv'
    BY <1>4, <2>1, <2>2 DEF CountInv, IdlersInv
  <2>4. Quietly(t)
    BY <1>1, <2>1, QuietWake, Working DEF CountInv, InBody
  <2>5. stack'[t] # <<>> \/ pc'[t] = "setup"
    BY <1>1, <2>4 DEF Quietly, Alive, InBody
  <2>6. \A o \in OpSet : (\E i \in 1..Len(s) : o = s[i]) => Placed(t, o)'
    BY <1>2, <2>5 DEF Placed, AtPool
  <2>7. QED
    BY <1>1, <1>2, <2>2, <2>3, <2>4, <2>6, StillCount
<1>5. QED
  BY <1>3, <1>4

LEMMA RemoveIdleTaskCount ==
  ASSUME BaseTypes, TaskInv, CountInv, NEW t \in Thread, NEW h \in Task, RemoveIdleTask(t, h)
  PROVE  CountInv'
<1>1. /\ InBody(t) /\ ops[t] = <<>> /\ ops' = ops /\ activePools' = activePools /\ made' = made
      /\ started' = started /\ threadIdle' = threadIdle /\ stack' = stack /\ pc' = pc
  BY DEF RemoveIdleTask, BodyIn, InBody
<1>2. Pushes(t, <<>>)
  BY <1>1, NoPush DEF BaseTypes
<1>3. /\ \A q \in Pool : /\ pool'[q].active = pool[q].active
                         /\ pool'[q].idle <=> pool[q].idle
      /\ \A q \in Pool : pool'[q].idleTasks \subseteq pool[q].idleTasks
      /\ globalIdle' \subseteq globalIdle
  <2>1. CASE pool' = pool /\ globalIdle' = globalIdle \ {h}
    BY <2>1
  <2>2. CASE globalIdle' = globalIdle /\ \E p \in made : pool' = [pool EXCEPT ![p].idleTasks = @ \ {h}]
    BY <2>2, PoolFacts DEF PoolState, BaseTypes, PoolTypes
  <2>3. QED
    BY <2>1, <2>2 DEF RemoveIdleTask
<1>4. IdlersInv'
  BY <1>3, IdlersKept DEF CountInv
<1>5. Quietly(t)
  BY <1>1, QuietSame, Working DEF CountInv, InBody
<1>6. QED
  BY <1>1, <1>2, <1>3, <1>4, <1>5, NoStep, StillCount

\* A thread at the head of get_task() is counted if its pool counts.
LEMMA TopCounted ==
  ASSUME BaseTypes, StartInv, NEW t \in Thread, pc[t] = "top"
  PROVE  Counted(Home[t]) <=> Home[t] \in CountsForIdle
<1>1. Home[t] \in made /\ started
  BY DEF StartInv, Alive
<1>2. Home[t] = MainPool => pc[MainThread] \notin {"setup", "starting"}
  <2>1. Home[t] = MainPool => t \in Threads(MainPool)
    BY DEF Threads
  <2>2. QED
    BY <2>1, PoolAssumption
<1>3. QED
  BY <1>1, <1>2 DEF Counted

LEMMA BusyFinite == ASSUME NEW p PROVE IsFiniteSet(Busy(p)) /\ Cardinality(Busy(p)) \in Nat
<1>1. Busy(p) \subseteq Thread /\ IsFiniteSet(Thread)
  BY PoolAssumption DEF Busy, Threads
<1>2. QED
  BY <1>1, FS_Subset, FS_CardinalityType

\* The number of active threads of a pool follows what its thread t does.
LEMMA ActiveMoves ==
  ASSUME BaseTypes, ActiveInv, StartInv, NEW t \in Thread, pc[t] = "top", Quietly(t),
         NEW b \in BOOLEAN, threadIdle' = [threadIdle EXCEPT ![t] = b],
         b # threadIdle[t] => Counted(Home[t]),
         \A q \in Pool \ {Home[t]} : pool'[q].active = pool[q].active,
         pool'[Home[t]].active = pool[Home[t]].active + (IF threadIdle[t] THEN 1 ELSE 0)
                                                      - (IF b THEN 1 ELSE 0)
  PROVE  ActiveInv'
<1>1. \A p \in Pool : Counted(p)' <=> Counted(p)
  BY CountedKept
<1>2. threadIdle \in [Thread -> BOOLEAN] /\ Home[t] \in Pool /\ pool[Home[t]].active \in Int
  BY PoolAssumption, PoolFacts DEF BaseTypes, ThreadTypes
<1>3. ASSUME NEW p \in Pool, p # Home[t]
      PROVE  /\ pool'[p].active = IF Counted(p)' THEN Cardinality(Busy(p)') ELSE 0
             /\ ~Counted(p)' => \A u \in Threads(p) : ~threadIdle'[u]
  <2>1. t \notin Threads(p)
    BY <1>3 DEF Threads
  <2>2. \A u \in Threads(p) : threadIdle'[u] = threadIdle[u]
    BY <1>2, <2>1 DEF Threads
  <2>3. Busy(p)' = Busy(p)
    BY <2>2 DEF Busy, Threads
  <2>4. QED
    BY <1>1, <1>3, <2>2, <2>3 DEF ActiveInv
<1>4. /\ pool'[Home[t]].active = IF Counted(Home[t])' THEN Cardinality(Busy(Home[t])') ELSE 0
      /\ ~Counted(Home[t])' => \A u \in Threads(Home[t]) : ~threadIdle'[u]
  <2> DEFINE p == Home[t]
  <2>1. t \in Threads(p) /\ \A u \in Threads(p) : u # t => threadIdle'[u] = threadIdle[u]
    BY <1>2 DEF Threads
  <2>2. threadIdle'[t] = b
    BY <1>2
  <2>3. CASE b = threadIdle[t]
    <3>1. \A u \in Threads(p) : threadIdle'[u] = threadIdle[u]
      BY <2>1, <2>2, <2>3
    <3>2. Busy(p)' = Busy(p)
      BY <3>1 DEF Busy, Threads
    <3>3. pool'[p].active = pool[p].active
      BY <1>2, <2>3
    <3>4. QED
      BY <1>1, <1>2, <3>1, <3>2, <3>3 DEF ActiveInv
  <2>4. CASE b /\ ~threadIdle[t]
    <3>1. Counted(p) /\ pool[p].active = Cardinality(Busy(p))
      BY <1>2, <2>4 DEF ActiveInv
    <3>2. Busy(p)' = Busy(p) \ {t} /\ t \in Busy(p)
      BY <2>1, <2>2, <2>4 DEF Busy, Threads
    <3>3. Cardinality(Busy(p) \ {t}) = Cardinality(Busy(p)) - 1
      BY <3>2, BusyFinite, FS_RemoveElement
    <3>4. pool'[p].active = pool[p].active - 1
      BY <1>2, <2>4
    <3>5. QED
      BY <1>1, <1>2, <3>1, <3>2, <3>3, <3>4
  <2>5. CASE ~b /\ threadIdle[t]
    <3>1. Counted(p) /\ pool[p].active = Cardinality(Busy(p))
      BY <1>2, <2>5 DEF ActiveInv
    <3>2. Busy(p)' = Busy(p) \union {t} /\ t \notin Busy(p)
      BY <2>1, <2>2, <2>5 DEF Busy, Threads
    <3>3. Cardinality(Busy(p) \union {t}) = Cardinality(Busy(p)) + 1
      BY <3>2, BusyFinite, FS_AddElement
    <3>4. pool'[p].active = pool[p].active + 1
      BY <1>2, <2>5
    <3>5. QED
      BY <1>1, <1>2, <3>1, <3>2, <3>3, <3>4
  <2>6. QED
    BY <1>2, <2>3, <2>4, <2>5
<1>5. QED
  BY <1>3, <1>4 DEF ActiveInv

LEMMA TakeTaskCount ==
  ASSUME BaseTypes, TaskInv, CountInv, NEW t \in Thread, TakeTask(t) PROVE CountInv'
<1>1. PICK o : o = Head(ops[t]) /\ ops[t] # <<>> /\ o.op = "take" /\ Home[t] \in Pool /\ Pushes(t, <<>>)
  BY TakeTaskOps
<1>2. /\ globalIdle' = globalIdle /\ made' = made /\ started' = started /\ pc' = pc
      /\ threadIdle' = [threadIdle EXCEPT ![t] = FALSE]
      /\ stack' = [stack EXCEPT ![t] = <<o.task>>]
      /\ activePools' = activePools + Cleared(pool[Home[t]], TRUE)
  BY <1>1 DEF TakeTask, shared
<1>3. pc[t] = "top" /\ stack[t] = <<>>
  BY <1>1, HeadPlaced DEF CountInv, Placed, AtPool
<1>4. /\ \A q \in Pool \ {Home[t]} : pool'[q] = pool[q]
      /\ pool'[Home[t]].idle = FALSE /\ pool'[Home[t]].idleTasks = pool[Home[t]].idleTasks
      /\ pool'[Home[t]].active = pool[Home[t]].active + IF threadIdle[t] THEN 1 ELSE 0
  BY TakeTaskPool
<1>5. /\ stack \in [Thread -> Seq(Task)] /\ threadIdle \in [Thread -> BOOLEAN]
      /\ pool[Home[t]].active \in Int
  BY <1>1, PoolFacts DEF BaseTypes, ThreadTypes
<1>6. stack'[t] # <<>> /\ \A u \in Thread : u # t => stack'[u] = stack[u]
  BY <1>2, <1>5
<1>7. Quietly(t)
  BY <1>2, <1>3, <1>6, QuietSame
<1>8. ActiveInv'
  <2>1. threadIdle[t] => Counted(Home[t])
    BY <1>1 DEF CountInv, ActiveInv, Threads
  <2>2. \A q \in Pool \ {Home[t]} : pool'[q].active = pool[q].active
    BY <1>4
  <2>3. pool'[Home[t]].active = pool[Home[t]].active + (IF threadIdle[t] THEN 1 ELSE 0)
                                                     - (IF FALSE THEN 1 ELSE 0)
    BY <1>4, <1>5
  <2>4. QED
    BY <1>2, <1>3, <1>5, <1>7, <2>1, <2>2, <2>3, ActiveMoves DEF CountInv
<1>9. PoolsInv'
  <2>1. \A q \in Pool : pool'[q].idle <=> pool[q].idle /\ ~(q = Home[t] /\ TRUE)
    BY <1>4
  <2>2. QED
    BY <1>1, <1>2, <2>1, PoolsKept DEF CountInv
<1>10. StartInv'
  <2>1. \A u \in Thread : threadIdle'[u] => stack'[u] = <<>>
    BY <1>2, <1>5, <1>6 DEF CountInv, StartInv
  <2>2. QED
    BY <1>1, <1>7, <2>1, StartKept DEF CountInv, BaseTypes
<1>11. PlaceInv'
  BY <1>1, <1>6, <1>7, QuietStays, NoStep, PlaceKept DEF CountInv, BaseTypes, TaskInv
<1>12. IdleInv'
  <2>1. \A q \in Pool : pool'[q].idle => pool[q].idle
    BY <1>4
  <2>2. ~pool'[Home[t]].idle
    BY <1>4
  <2>3. QED
    BY <1>7, <2>1, <2>2, QuietStays, IdleKept DEF CountInv
<1>13. IdlersInv'
  <2>1. \A q \in Pool : pool'[q].idleTasks \subseteq pool[q].idleTasks
    BY <1>4
  <2>2. QED
    BY <1>2, <2>1, IdlersKept DEF CountInv
<1>14. QED
  BY <1>8, <1>9, <1>10, <1>11, <1>12, <1>13 DEF CountInv

LEMMA BecomeIdleCount ==
  ASSUME BaseTypes, TaskInv, CountInv, NEW t \in Thread, BecomeIdle(t) PROVE CountInv'
<1>1. PICK o, s : /\ o = Head(ops[t]) /\ s = ForEach(Sorted(Fresh(t)), SubmitCall)
                  /\ ops[t] # <<>> /\ o.op = "idle" /\ Home[t] \in Pool /\ Pushes(t, s)
  BY BecomeIdleOps
<1>2. /\ globalIdle' = globalIdle /\ made' = made /\ started' = started /\ stack' = stack
      /\ threadIdle' = [threadIdle EXCEPT ![t] = threadIdle[t] \/ NowIdle(t)]
      /\ activePools' = PoolsLeft(t)
      /\ pc' = [pc EXCEPT ![t] = "wait"] \/ pc' = [pc EXCEPT ![t] = "top"]
  BY DEF BecomeIdle, shared, PoolsLeft, AllIdle, ActiveLeft, NowIdle, CountsNow
<1>3. pc[t] = "top" /\ stack[t] = <<>>
  BY <1>1, HeadPlaced DEF CountInv, Placed, AtPool
<1>4. /\ \A q \in Pool \ {Home[t]} : pool'[q] = pool[q]
      /\ pool'[Home[t]].idleTasks = pool[Home[t]].idleTasks
      /\ pool'[Home[t]].active = ActiveLeft(t)
      /\ pool'[Home[t]].idle <=> (pool[Home[t]].idle \/ AllIdle(t))
  BY BecomeIdlePool
<1>5. /\ pc \in [Thread -> Pcs] /\ threadIdle \in [Thread -> BOOLEAN]
      /\ pool[Home[t]].active \in Int /\ activePools \in Int
  BY <1>1, PoolFacts DEF BaseTypes, ThreadTypes, MadeTypes
<1>6. Quietly(t)
  BY <1>2, <1>3, <1>5 DEF Quietly, Alive
<1>7. Counted(Home[t]) <=> Home[t] \in CountsForIdle
  BY <1>3, TopCounted DEF CountInv
<1>8. ActiveInv'
  <2>1. PICK b \in BOOLEAN : b <=> (threadIdle[t] \/ NowIdle(t))
    OBVIOUS
  <2>2. threadIdle' = [threadIdle EXCEPT ![t] = b]
    BY <1>2, <1>5, <2>1
  <2>3. b # threadIdle[t] => Counted(Home[t])
    BY <1>5, <1>7, <2>1 DEF NowIdle, CountsNow
  <2>4. \A q \in Pool \ {Home[t]} : pool'[q].active = pool[q].active
    BY <1>4
  <2>5. pool'[Home[t]].active = pool[Home[t]].active + (IF threadIdle[t] THEN 1 ELSE 0)
                                                     - (IF b THEN 1 ELSE 0)
    <3>1. NowIdle(t) => ~threadIdle[t]
      BY DEF NowIdle
    <3>2. QED
      BY <1>4, <1>5, <2>1, <3>1 DEF ActiveLeft
  <2>6. QED
    BY <1>3, <1>6, <2>2, <2>3, <2>4, <2>5, ActiveMoves DEF CountInv
<1>9. StartInv'
  <2>1. \A u \in Thread : threadIdle'[u] => stack'[u] = <<>>
    BY <1>2, <1>3, <1>5 DEF CountInv, StartInv
  <2>2. QED
    BY <1>1, <1>6, <2>1, StartKept DEF CountInv, BaseTypes
<1>10. PlaceInv'
  <2>1. \A i \in 1..Len(s) : s[i] = SubmitCall(Sorted(Fresh(t))[i]) /\ Sorted(Fresh(t))[i] \in Fresh(t)
    BY <1>1, FreshType, SubmitCalls
  <2>2. ASSUME NEW k \in OpSet, NEW i \in 1..Len(s), k = s[i] PROVE Placed(t, k)'
    <3>1. PICK h : k = SubmitCall(h) /\ h \notin Inline
      BY <2>1, <2>2, FreshType
    <3>2. ~AtPool(k) /\ \A j \in Inline : ~Submits(k, j)
      BY <3>1, SubmitCallFacts
    <3>3. QED
      BY <3>2 DEF Placed, AtPool, Submits
  <2>3. QED
    BY <1>1, <1>3, <1>6, <2>2, QuietStays, PlaceKept DEF CountInv, BaseTypes, TaskInv
<1>11. AllIdle(t) => /\ Home[t] \in made \intersect CountsForIdle /\ ~pool[Home[t]].idle
                     /\ \A u \in Threads(Home[t]) : threadIdle'[u]
  <2> SUFFICES ASSUME AllIdle(t) PROVE Home[t] \in made \intersect CountsForIdle /\ ~pool[Home[t]].idle
                                       /\ \A u \in Threads(Home[t]) : threadIdle'[u]
    OBVIOUS
  <2>1. Home[t] \in CountsForIdle /\ ~pool[Home[t]].idle /\ ActiveLeft(t) = 0
    BY DEF AllIdle, CountsNow
  <2>2. Counted(Home[t])'
    BY <1>6, <1>7, <2>1, CountedKept
  <2>3. Cardinality(Busy(Home[t])') = 0
    BY <1>1, <1>4, <1>8, <2>1, <2>2 DEF ActiveInv
  <2>4. PICK B : B = Busy(Home[t])' /\ IsFiniteSet(B)
    <3>1. Busy(Home[t])' \subseteq Thread /\ IsFiniteSet(Thread)
      BY PoolAssumption DEF Busy, Threads
    <3>2. QED
      BY <3>1, FS_Subset
  <2>5. B = {}
    BY <2>3, <2>4, FS_EmptySet
  <2>6. QED
    BY <1>7, <2>1, <2>4, <2>5 DEF Busy, Threads, Counted
<1>12. PoolsInv'
  <2>1. CASE ~AllIdle(t)
    <3>1. \A q \in Pool : pool'[q].idle <=> pool[q].idle /\ ~(q = Home[t] /\ FALSE)
      BY <1>4, <2>1
    <3>2. activePools' = activePools + Cleared(pool[Home[t]], FALSE)
      BY <1>2, <1>5, <2>1 DEF PoolsLeft, Cleared
    <3>3. QED
      BY <1>1, <1>2, <3>1, <3>2, PoolsKept DEF CountInv
  <2>2. CASE AllIdle(t)
    <3>1. Busies' = Busies \ {Home[t]} /\ Home[t] \in Busies
      <4>1. \A q \in made : q \in Pool
        BY DEF BaseTypes, MadeTypes
      <4>2. QED
        BY <1>1, <1>2, <1>4, <1>11, <2>2, <4>1 DEF Busies
    <3>2. IsFiniteSet(Busies)
      <4>1. Busies \subseteq made /\ IsFiniteSet(made)
        BY DEF Busies, BaseTypes, MadeTypes
      <4>2. QED
        BY <4>1, FS_Subset
    <3>3. Cardinality(Busies \ {Home[t]}) = Cardinality(Busies) - 1
      BY <3>1, <3>2, FS_RemoveElement
    <3>4. activePools' = activePools - 1
      BY <1>2, <2>2 DEF PoolsLeft
    <3>5. \A p \in Pool : pool'[p].idle => p \in made' \intersect CountsForIdle
      BY <1>1, <1>2, <1>4, <1>11, <2>2 DEF CountInv, PoolsInv
    <3>6. QED
      BY <1>2, <3>1, <3>3, <3>4, <3>5 DEF CountInv, PoolsInv, MainPool
  <2>3. QED
    BY <2>1, <2>2
<1>13. IdleInv'
  <2>1. ASSUME NEW p \in Pool, pool'[p].idle, NEW u \in Threads(p)
        PROVE  stack'[u] = <<>> \/ pc'[u] = "setup"
    <3>1. u \in Thread /\ Home[u] = p
      BY DEF Threads
    <3>2. CASE pool[p].idle
      <4>1. stack[u] = <<>> \/ pc[u] = "setup"
        BY <3>2 DEF CountInv, IdleInv
      <4>2. pc[u] = "setup" => pc'[u] = "setup"
        BY <1>6, <3>1 DEF Quietly, Alive
      <4>3. QED
        BY <1>2, <4>1, <4>2
    <3>3. CASE ~pool[p].idle
      <4>1. p = Home[t] /\ AllIdle(t)
        BY <1>4, <2>1, <3>3
      <4>2. threadIdle'[u]
        BY <1>11, <4>1
      <4>3. QED
        BY <1>9, <3>1, <4>2 DEF StartInv
    <3>4. QED
      BY <3>2, <3>3
  <2>2. QED
    BY <2>1 DEF IdleInv, Threads
<1>14. IdlersInv'
  <2>1. \A q \in Pool : pool'[q].idleTasks \subseteq pool[q].idleTasks
    BY <1>4
  <2>2. QED
    BY <1>2, <2>1, IdlersKept DEF CountInv
<1>15. QED
  BY <1>8, <1>9, <1>10, <1>12, <1>13, <1>14 DEF CountInv

LEMMA ThreadsCount ==
  ASSUME NEW p PROVE IsFiniteSet(Threads(p)) /\ Cardinality(Threads(p)) \in Nat
<1>1. Threads(p) \subseteq Thread /\ IsFiniteSet(Thread)
  BY PoolAssumption DEF Threads
<1>2. QED
  BY <1>1, FS_Subset, FS_CardinalityType

LEMMA MainHome == MainPool \in Pool /\ Home[MainThread] = MainPool /\ MainThread \in Thread
                  /\ \A t \in Thread : Home[t] = MainPool <=> t = MainThread
<1>1. Threads(MainPool) = {MainThread} /\ MainThread \in Thread /\ Home \in [Thread -> Pool]
  BY PoolAssumption
<1>2. QED
  BY <1>1 DEF MainPool, Threads

\* The threads of a pool that is not made, or of any but the main one before the start.
LEMMA Unborn ==
  ASSUME BaseTypes, StartInv, NEW t \in Thread, t # MainThread, ~started \/ Home[t] \notin made
  PROVE  pc[t] = "unborn" /\ stack[t] = <<>> /\ ops[t] = <<>>
<1>1. pc[t] \in Pcs
  BY DEF BaseTypes, ThreadTypes
<1>2. QED
  BY <1>1 DEF StartInv, Alive, Pcs

LEMMA GetPoolCount ==
  ASSUME BaseTypes, TaskInv, CountInv, NEW t \in Thread, GetPool(t) PROVE CountInv'
<1>1. PICK o, p, k :
         /\ o = Head(ops[t]) /\ p = Target[o.task] /\ k = Submission(o.task, Groups[o.task])
         /\ p \in Pool /\ ops[t] # <<>> /\ o.op = "getpool" /\ Pushes(t, <<k>>)
  BY GetPoolOps
<1>2. /\ activePools' = activePools /\ globalIdle' = globalIdle /\ started' = started
      /\ threadIdle' = threadIdle /\ stack' = stack
  BY DEF GetPool
<1>3. Placed(t, o) /\ ~AtPool(k) /\ \A h : Submits(k, h) => Submits(o, h)
  <2>1. Placed(t, o)
    BY <1>1, HeadPlaced DEF CountInv
  <2>2. ~AtPool(k) /\ \A h : Submits(k, h) => h = o.task
    BY <1>1, SubmissionFacts
  <2>3. Submits(o, o.task)
    BY <1>1 DEF Submits
  <2>4. QED
    BY <2>1, <2>2, <2>3
<1>4. pc[t] \notin {"unborn", "starting"}
  BY <1>1, Working DEF CountInv
<1>5. CASE made' = made /\ pool' = pool /\ pc' = pc
  <2>1. Placed(t, k)'
    BY <1>2, <1>3, <1>5, FollowPlaced
  <2>2. QED
    BY <1>1, <1>2, <1>5, <2>1, OneStep, OpsCount
<1>6. CASE /\ p \notin made /\ made' = made \union {p}
           /\ pool' = [pool EXCEPT ![p].idle = p \in CountsForIdle,
                           ![p].active = IF started /\ p \in CountsForIdle
                                         THEN Cardinality(Threads(p)) ELSE 0]
           /\ pc' = [x \in Thread |-> IF started /\ Home[x] = p THEN "top" ELSE pc[x]]
  <2> DEFINE b == p \in CountsForIdle
             n == IF started /\ b THEN Cardinality(Threads(p)) ELSE 0
  <2>1. /\ b \in BOOLEAN /\ n \in Int /\ (b <=> p \in CountsForIdle)
        /\ started /\ p \in CountsForIdle => n = Cardinality(Threads(p))
        /\ ~(started /\ p \in CountsForIdle) => n = 0
    BY ThreadsCount
  <2>2. pool' = [pool EXCEPT ![p].idle = b, ![p].active = n]
    BY <1>6
  <2> HIDE DEF b, n
  <2>3. /\ \A q \in Pool : q # p => pool'[q] = pool[q]
        /\ pool'[p].idle = b /\ pool'[p].active = n /\ pool'[p].idleTasks = pool[p].idleTasks
    <3>1. pool[p] \in PoolState /\ pool \in [Pool -> PoolState]
      BY <1>1, PoolFacts DEF BaseTypes, PoolTypes
    <3>2. pool'[p] = [pool[p] EXCEPT !.idle = b, !.active = n] /\ \A q \in Pool : q # p => pool'[q] = pool[q]
      BY <1>1, <2>2, <3>1
    <3> PICK P : P = [pool[p] EXCEPT !.idle = b, !.active = n]
      OBVIOUS
    <3>3. P.idle = b /\ P.active = n /\ P.idleTasks = pool[p].idleTasks
      BY <2>1, <3>1 DEF PoolState
    <3>4. QED
      BY <3>2, <3>3
  <2>4. p # MainPool /\ MainPool \in made
    BY <1>6 DEF CountInv, PoolsInv
  <2>5. ASSUME NEW u \in Thread, Home[u] = p
        PROVE  pc[u] = "unborn" /\ stack[u] = <<>> /\ ops[u] = <<>> /\ u # t /\ u # MainThread
    <3>1. u # MainThread
      BY <2>4, <2>5, MainHome
    <3>2. pc[u] = "unborn" /\ stack[u] = <<>> /\ ops[u] = <<>>
      BY <1>6, <2>5, <3>1, Unborn DEF CountInv
    <3>3. QED
      BY <1>4, <3>1, <3>2
  <2>6. \A u \in Thread : pc'[u] = pc[u] \/ (Home[u] = p /\ started /\ pc'[u] = "top")
    BY <1>6
  <2>7. \A u \in Thread : Home[u] = p /\ started => pc'[u] = "top"
    BY <1>6
  <2>8. Staying(t) /\ pc'[t] = pc[t] /\ pc'[MainThread] = pc[MainThread]
    BY <1>2, <2>5, <2>6, MainHome DEF Staying
  <2>9. ActiveInv'
    <3>1. \A q \in Pool : Busy(q)' = Busy(q)
      BY <1>2 DEF Busy, Threads
    <3>2. ~Counted(p) /\ (Counted(p)' <=> started /\ p \in CountsForIdle)
      BY <1>2, <1>6, <2>4 DEF Counted, MainPool
    <3>3. \A u \in Threads(p) : ~threadIdle[u]
      BY <1>1, <3>2 DEF CountInv, ActiveInv
    <3>4. Busy(p) = Threads(p)
      BY <3>3 DEF Busy, Threads
    <3>5. pool'[p].active = IF Counted(p)' THEN Cardinality(Busy(p)') ELSE 0
      BY <1>1, <2>1, <2>3, <3>1, <3>2, <3>4
    <3>6. ASSUME NEW q \in Pool, q # p
          PROVE  /\ pool'[q].active = IF Counted(q)' THEN Cardinality(Busy(q)') ELSE 0
                 /\ ~Counted(q)' => \A u \in Threads(q) : ~threadIdle'[u]
      <4>1. Counted(q)' <=> Counted(q)
        BY <1>2, <1>6, <2>8, <3>6 DEF Counted, MainPool
      <4>2. pool'[q] = pool[q]
        BY <2>3, <3>6
      <4>3. QED
        BY <1>2, <3>1, <4>1, <4>2 DEF CountInv, ActiveInv
    <3>7. QED
      BY <1>2, <3>3, <3>5, <3>6 DEF ActiveInv, Threads
  <2>10. PoolsInv'
    <3>1. \A q \in made : q \in Pool /\ q # p
      BY <1>6 DEF BaseTypes, MadeTypes
    <3>2. Busies' = Busies
      BY <1>6, <2>1, <2>3, <3>1 DEF Busies
    <3>3. \A q \in Pool : pool'[q].idle => q \in made' \intersect CountsForIdle
      BY <1>6, <2>1, <2>3 DEF CountInv, PoolsInv
    <3>4. QED
      BY <1>2, <1>6, <2>4, <3>2, <3>3 DEF CountInv, PoolsInv, MainPool
  <2>11. StartInv'
    <3>1. \A u \in Thread : u # t => ops'[u] = ops[u]
      BY <1>1 DEF Pushes, BaseTypes, OpTypes
    <3>2. started' => pc'[MainThread] # "setup"
      BY <1>2, <2>8 DEF CountInv, StartInv
    <3>3. ASSUME NEW u \in Thread
          PROVE  /\ pc'[u] \in {"setup", "starting"} => u = MainThread
                 /\ pc'[u] \in Alive \union {"starting"} => Home[u] \in made' /\ started'
                 /\ pc'[u] \in {"unborn", "starting"} => stack'[u] = <<>> /\ ops'[u] = <<>>
                 /\ pc'[u] = "unborn" => u # MainThread
                 /\ started' /\ Home[u] \in made' => pc'[u] # "unborn"
                 /\ threadIdle'[u] => stack'[u] = <<>>
      <4>1. pc'[u] \in {"unborn", "starting"} => stack'[u] = <<>> /\ ops'[u] = <<>>
        BY <1>2, <1>4, <2>6, <2>8, <3>1 DEF CountInv, StartInv
      <4>2. CASE pc'[u] = pc[u] /\ Home[u] # p
        BY <1>2, <1>6, <4>1, <4>2 DEF CountInv, StartInv
      <4>3. CASE Home[u] = p /\ started /\ pc'[u] = "top"
        BY <1>2, <1>6, <2>5, <4>1, <4>3 DEF Alive
      <4>4. CASE Home[u] = p /\ ~started /\ pc'[u] = pc[u]
        BY <1>2, <2>5, <4>1, <4>4 DEF Alive
      <4>5. QED
        BY <2>6, <2>7, <4>2, <4>3, <4>4
    <3>4. QED
      BY <3>2, <3>3 DEF StartInv, Alive
  <2>12. PlaceInv'
    <3>1. Placed(t, k)'
      BY <1>2, <1>3, <2>8, FollowPlaced
    <3>2. \A c \in OpSet : (\E i \in 1..Len(<<k>>) : c = <<k>>[i]) => Placed(t, c)'
      BY <3>1, OneStep
    <3>3. QED
      BY <1>1, <1>2, <2>8, <3>2, PlaceKept DEF CountInv, BaseTypes, TaskInv
  <2>13. IdleInv'
    <3>1. ASSUME NEW q \in Pool, pool'[q].idle, NEW u \in Threads(q)
          PROVE  stack'[u] = <<>> \/ pc'[u] = "setup"
      <4>1. u \in Thread /\ Home[u] = q
        BY DEF Threads
      <4>2. CASE q = p
        BY <1>2, <2>5, <4>1, <4>2
      <4>3. CASE q # p
        BY <1>2, <2>3, <2>6, <3>1, <4>1, <4>3 DEF CountInv, IdleInv
      <4>4. QED
        BY <4>2, <4>3
    <3>2. QED
      BY <3>1 DEF IdleInv, Threads
  <2>14. IdlersInv'
    <3>1. \A q \in Pool : pool'[q].idleTasks \subseteq pool[q].idleTasks
      BY <2>3
    <3>2. QED
      BY <1>2, <3>1, IdlersKept DEF CountInv
  <2>15. QED
    BY <2>9, <2>10, <2>11, <2>12, <2>13, <2>14 DEF CountInv
<1>7. QED
  BY <1>1, <1>5, <1>6 DEF GetPool

LEMMA StartPoolsCount ==
  ASSUME BaseTypes, TaskInv, CountInv, StartPools PROVE CountInv'
<1>1. /\ pc[MainThread] = "setup" /\ stack[MainThread] = <<>> /\ ops[MainThread] = <<>>
      /\ started' = TRUE /\ activePools' = activePools /\ globalIdle' = globalIdle /\ made' = made
      /\ threadIdle' = threadIdle /\ stack' = stack /\ ops' = ops
      /\ pool' = [p \in Pool |-> IF p \in made /\ p \in CountsForIdle /\ p # MainPool
                                 THEN [pool[p] EXCEPT !.active = Cardinality(Threads(p))]
                                 ELSE pool[p]]
      /\ pc' = [t \in Thread |-> IF t = MainThread THEN "starting"
                                 ELSE IF Home[t] \in made THEN "top" ELSE pc[t]]
  BY DEF StartPools
<1>2. ~started
  BY <1>1 DEF CountInv, StartInv
<1>3. \A t \in Thread : stack[t] = <<>> /\ ops[t] = <<>> /\ (t # MainThread => pc[t] = "unborn")
  BY <1>1, <1>2, Unborn DEF CountInv
<1>4. pc'[MainThread] = "starting" /\ MainThread \in Thread /\ MainPool \in made
  BY <1>1, MainHome DEF CountInv, PoolsInv
<1>5. ASSUME NEW p \in Pool
      PROVE  /\ pool'[p].idle = pool[p].idle /\ pool'[p].idleTasks = pool[p].idleTasks
             /\ pool'[p].active = IF p \in made /\ p \in CountsForIdle /\ p # MainPool
                                  THEN Cardinality(Threads(p)) ELSE pool[p].active
  <2> PICK n : n = Cardinality(Threads(p))
    OBVIOUS
  <2>1. pool[p] \in PoolState
    BY PoolFacts
  <2>2. LET P == [pool[p] EXCEPT !.active = n] IN
        P.idle = pool[p].idle /\ P.idleTasks = pool[p].idleTasks /\ P.active = n
    BY <2>1 DEF PoolState
  <2>3. pool'[p] = IF p \in made /\ p \in CountsForIdle /\ p # MainPool
                   THEN [pool[p] EXCEPT !.active = n] ELSE pool[p]
    BY <1>1
  <2>4. QED
    BY <2>2, <2>3
<1>6. ActiveInv'
  <2>1. ASSUME NEW p \in Pool
        PROVE  /\ pool'[p].active = IF Counted(p)' THEN Cardinality(Busy(p)') ELSE 0
               /\ ~Counted(p)' => \A t \in Threads(p) : ~threadIdle'[t]
    <3>1. ~Counted(p)
      BY <1>1, <1>2 DEF Counted
    <3>2. pool[p].active = 0 /\ \A t \in Threads(p) : ~threadIdle[t]
      BY <3>1 DEF CountInv, ActiveInv
    <3>3. Busy(p)' = Threads(p)
      BY <1>1, <3>2 DEF Busy, Threads
    <3>4. Counted(p)' <=> p \in made /\ p \in CountsForIdle /\ p # MainPool
      BY <1>1, <1>4 DEF Counted, MainPool
    <3>5. QED
      BY <1>1, <1>5, <3>2, <3>3, <3>4
  <2>2. QED
    BY <2>1 DEF ActiveInv, Threads
<1>7. PoolsInv'
  <2>1. \A p \in Pool : pool'[p].idle <=> pool[p].idle /\ ~(p = MainPool /\ FALSE)
    BY <1>5
  <2>2. activePools' = activePools + Cleared(pool[MainPool], FALSE)
    BY <1>1 DEF Cleared, BaseTypes, MadeTypes
  <2>3. QED
    BY <1>1, <2>1, <2>2, MainHome, PoolsKept DEF CountInv
<1>8. StartInv'
  <2>1. ASSUME NEW u \in Thread
        PROVE  /\ pc'[u] \in {"setup", "starting"} => u = MainThread
               /\ pc'[u] \in Alive \union {"starting"} => Home[u] \in made' /\ started'
               /\ pc'[u] = "unborn" => u # MainThread
               /\ started' /\ Home[u] \in made' => pc'[u] # "unborn"
               /\ stack'[u] = <<>> /\ ops'[u] = <<>>
    <3>1. stack'[u] = <<>> /\ ops'[u] = <<>>
      BY <1>1, <1>3
    <3>2. CASE u = MainThread
      BY <1>1, <1>4, <3>1, <3>2, MainHome DEF Alive
    <3>3. CASE u # MainThread
      <4>1. pc[u] = "unborn"
        BY <1>3, <3>3
      <4>2. pc'[u] = IF Home[u] \in made THEN "top" ELSE "unborn"
        BY <1>1, <3>3, <4>1
      <4>3. QED
        BY <1>1, <3>1, <3>3, <4>2 DEF Alive
    <3>4. QED
      BY <3>2, <3>3
  <2>2. started' => pc'[MainThread] # "setup"
    BY <1>4
  <2>3. QED
    BY <2>1, <2>2 DEF StartInv, Alive
<1>9. PlaceInv'
  <2>1. \A t \in Thread : 1..Len(ops'[t]) = {}
    BY <1>1, <1>3
  <2>2. QED
    BY <2>1 DEF PlaceInv, Doing
<1>10. IdleInv'
  BY <1>1, <1>3 DEF IdleInv, Threads
<1>11. IdlersInv'
  BY <1>1, <1>5, IdlersKept DEF CountInv
<1>12. QED
  BY <1>6, <1>7, <1>8, <1>9, <1>10, <1>11 DEF CountInv

LEMMA StartMainCount ==
  ASSUME BaseTypes, TaskInv, CountInv, StartMain PROVE CountInv'
<1> DEFINE n == IF MainPool \in CountsForIdle THEN 1 ELSE 0
<1>1. /\ pc[MainThread] = "starting" /\ pc' = [pc EXCEPT ![MainThread] = "top"]
      /\ pool' = [pool EXCEPT ![MainPool].active = n]
      /\ started' = started /\ activePools' = activePools /\ globalIdle' = globalIdle /\ made' = made
      /\ threadIdle' = threadIdle /\ stack' = stack /\ ops' = ops
  BY DEF StartMain, shared
<1>2. /\ MainPool \in Pool /\ MainPool \in made /\ MainThread \in Thread /\ started
      /\ stack[MainThread] = <<>> /\ ops[MainThread] = <<>> /\ ~threadIdle[MainThread]
  BY <1>1, MainHome, SetupAwake DEF CountInv, PoolsInv, StartInv
<1>3. pc'[MainThread] = "top" /\ \A u \in Thread : u # MainThread => pc'[u] = pc[u]
  BY <1>1, <1>2 DEF BaseTypes, ThreadTypes
<1>4. /\ \A q \in Pool : q # MainPool => pool'[q].active = pool[q].active
      /\ \A q \in Pool : pool'[q].idle = pool[q].idle /\ pool'[q].idleTasks = pool[q].idleTasks
      /\ pool'[MainPool].active = n
  <2>1. pool[MainPool] \in PoolState /\ pool \in [Pool -> PoolState] /\ n \in Int
    BY <1>2, PoolFacts DEF BaseTypes, PoolTypes
  <2> HIDE DEF n
  <2> PICK P : P = [pool[MainPool] EXCEPT !.active = n]
    OBVIOUS
  <2>2. P.idle = pool[MainPool].idle /\ P.idleTasks = pool[MainPool].idleTasks /\ P.active = n
    BY <2>1 DEF PoolState
  <2>3. pool'[MainPool] = P /\ \A q \in Pool : q # MainPool => pool'[q] = pool[q]
    BY <1>1, <1>2, <2>1
  <2>4. QED
    BY <2>2, <2>3
<1>5. ActiveInv'
  <2>1. \A q \in Pool : Busy(q)' = Busy(q)
    BY <1>1 DEF Busy, Threads
  <2>2. /\ pool'[MainPool].active = IF Counted(MainPool)' THEN Cardinality(Busy(MainPool)') ELSE 0
        /\ \A t \in Threads(MainPool) : ~threadIdle'[t]
    <3>1. Threads(MainPool) = {MainThread}
      BY PoolAssumption
    <3>2. Busy(MainPool) = {MainThread}
      BY <1>2, <3>1 DEF Busy
    <3>3. Cardinality(Busy(MainPool)') = 1
      BY <1>2, <2>1, <3>2, FS_Singleton
    <3>4. Counted(MainPool)' <=> MainPool \in CountsForIdle
      BY <1>1, <1>2, <1>3 DEF Counted, MainPool
    <3>5. QED
      BY <1>1, <1>2, <1>4, <3>1, <3>3, <3>4
  <2>3. ASSUME NEW q \in Pool, q # MainPool
        PROVE  /\ pool'[q].active = IF Counted(q)' THEN Cardinality(Busy(q)') ELSE 0
               /\ ~Counted(q)' => \A u \in Threads(q) : ~threadIdle'[u]
    <3>1. Counted(q)' <=> Counted(q)
      BY <1>1, <2>3 DEF Counted, MainPool
    <3>2. QED
      BY <1>1, <1>4, <2>1, <2>3, <3>1 DEF CountInv, ActiveInv
  <2>4. QED
    BY <2>2, <2>3 DEF ActiveInv, Threads, MainPool
<1>6. PoolsInv'
  <2>1. \A p \in Pool : pool'[p].idle <=> pool[p].idle /\ ~(p = MainPool /\ FALSE)
    BY <1>4
  <2>2. activePools' = activePools + Cleared(pool[MainPool], FALSE)
    BY <1>1 DEF Cleared, BaseTypes, MadeTypes
  <2>3. QED
    BY <1>1, <1>2, <2>1, <2>2, PoolsKept DEF CountInv
<1>7. StartInv'
  <2>1. ASSUME NEW u \in Thread
        PROVE  /\ pc'[u] \in {"setup", "starting"} => u = MainThread
               /\ pc'[u] \in Alive \union {"starting"} => Home[u] \in made' /\ started'
               /\ pc'[u] \in {"unborn", "starting"} => stack'[u] = <<>> /\ ops'[u] = <<>>
               /\ pc'[u] = "unborn" => u # MainThread
               /\ started' /\ Home[u] \in made' => pc'[u] # "unborn"
               /\ threadIdle'[u] => stack'[u] = <<>>
    <3>1. CASE u = MainThread
      BY <1>1, <1>2, <1>3, <3>1, MainHome DEF Alive
    <3>2. CASE u # MainThread
      BY <1>1, <1>3, <3>2 DEF CountInv, StartInv
    <3>3. QED
      BY <3>1, <3>2
  <2>2. started' => pc'[MainThread] # "setup"
    BY <1>3
  <2>3. QED
    BY <2>1, <2>2 DEF StartInv, Alive
<1>8. PlaceInv'
  <2>1. ASSUME NEW u \in Thread, NEW o \in OpSet, Doing(u, o)' PROVE Placed(u, o)'
    <3>1. Doing(u, o)
      BY <1>1, <2>1 DEF Doing
    <3>2. u # MainThread
      <4>1. 1..Len(ops[MainThread]) = {}
        BY <1>2
      <4>2. QED
        BY <3>1, <4>1 DEF Doing
    <3>3. Placed(u, o)
      BY <3>1 DEF CountInv, PlaceInv
    <3>4. pc'[u] = pc[u] /\ stack'[u] = stack[u]
      BY <1>1, <1>3, <3>2
    <3>5. QED
      BY <3>3, <3>4, FollowPlaced
  <2>2. QED
    BY <2>1 DEF PlaceInv
<1>9. IdleInv'
  <2>1. ASSUME NEW p \in Pool, pool'[p].idle, NEW u \in Threads(p)
        PROVE  stack'[u] = <<>> \/ pc'[u] = "setup"
    <3>1. u \in Thread /\ pool[p].idle
      BY <1>4, <2>1 DEF Threads
    <3>2. stack[u] = <<>> \/ pc[u] = "setup"
      BY <3>1 DEF CountInv, IdleInv
    <3>3. QED
      BY <1>1, <1>2, <1>3, <3>1, <3>2
  <2>2. QED
    BY <2>1 DEF IdleInv, Threads
<1>10. IdlersInv'
  BY <1>1, <1>4, IdlersKept DEF CountInv
<1>11. QED
  BY <1>5, <1>6, <1>7, <1>8, <1>9, <1>10 DEF CountInv
-----------------------------------------------------------------------------
(* The invariant holds, and what follows for the types and the idle tasks.              *)
LEMMA CountInit == Init => CountInv
<1> SUFFICES ASSUME Init PROVE CountInv
  OBVIOUS
<1>1. BaseTypes
  BY TaskInit
<1>2. /\ activePools = 0 /\ globalIdle = {} /\ made = {MainPool} /\ started = FALSE
      /\ \A t \in Thread : /\ threadIdle[t] = FALSE /\ stack[t] = <<>> /\ ops[t] = <<>>
                           /\ pc[t] = IF t = MainThread THEN "setup" ELSE "unborn"
      /\ \A p \in Pool : /\ pool[p].active = 0 /\ pool[p].idleTasks = {}
                         /\ pool[p].idle <=> p = MainPool /\ p \in CountsForIdle
  BY DEF Init
<1>3. MainThread \in Thread /\ MainPool \in Pool /\ pc[MainThread] = "setup"
  BY <1>2, MainHome
<1>4. ActiveInv
  <2>1. \A p \in Pool : ~Counted(p)
    BY <1>2, <1>3 DEF Counted
  <2>2. QED
    BY <1>2, <2>1 DEF ActiveInv, Threads
<1>5. PoolsInv
  <2>1. Busies = {}
    BY <1>2, <1>3 DEF Busies
  <2>2. QED
    BY <1>2, <2>1, FS_EmptySet DEF PoolsInv
<1>6. StartInv
  BY <1>2, <1>3, MainHome DEF StartInv, Alive
<1>7. PlaceInv
  <2>1. \A t \in Thread : 1..Len(ops[t]) = {}
    BY <1>2
  <2>2. QED
    BY <2>1 DEF PlaceInv, Doing
<1>8. IdleInv /\ IdlersInv
  BY <1>2 DEF IdleInv, IdlersInv, Threads
<1>9. QED
  BY <1>4, <1>5, <1>6, <1>7, <1>8 DEF CountInv

LEMMA CountNext == BaseTypes /\ TaskInv /\ CountInv /\ [Next]_vars => CountInv'
<1> SUFFICES ASSUME BaseTypes, TaskInv, CountInv, [Next]_vars PROVE CountInv'
  OBVIOUS
<1>1. ASSUME NEW t \in Thread, Work(t) PROVE CountInv'
  BY <1>1, GetPoolCount, InsertHandleCount, LockGroupCount, RunInlineCount, AskIdleCount, SubmitToPoolCount,
     ReleaseGroupCount, NotifyCount, GetTaskCount, TakeTaskCount, BecomeIdleCount, FinishCount, HaltCount,
     StopPoolCount, LetGoCount, JoinCount DEF Work
<1>2. ASSUME NEW t \in Thread, NEW h \in Task, Submit(t, h) PROVE CountInv'
  BY <1>2, SubmitCount
<1>3. ASSUME NEW t \in Thread, NEW h \in Task, AddIdleTask(t, h) PROVE CountInv'
  BY <1>3, AddIdleTaskCount
<1>4. ASSUME NEW t \in Thread, NEW h \in Task, RemoveIdleTask(t, h) PROVE CountInv'
  BY <1>4, RemoveIdleTaskCount
<1>5. ASSUME NEW t \in Thread, NEW force \in Forces, Shutdown(t, force) PROVE CountInv'
  BY <1>5, ShutdownCount
<1>6. ASSUME StartPools \/ StartMain PROVE CountInv'
  BY <1>6, StartPoolsCount, StartMainCount
<1>7. CASE UNCHANGED vars
  <2>1. /\ pool' = pool /\ activePools' = activePools /\ globalIdle' = globalIdle /\ made' = made
        /\ started' = started /\ threadIdle' = threadIdle /\ pc' = pc /\ stack' = stack /\ ops' = ops
    BY <1>7 DEF vars
  <2>2. \A p : (Counted(p)' <=> Counted(p)) /\ Busy(p)' = Busy(p)
    BY <2>1 DEF Counted, Busy, Threads, MainPool
  <2>3. ActiveInv'
    BY <2>1, <2>2 DEF CountInv, ActiveInv, Threads
  <2>4. Busies' = Busies /\ MainPool' = MainPool
    BY <2>1 DEF Busies, MainPool
  <2>5. PoolsInv'
    BY <2>1, <2>4 DEF CountInv, PoolsInv
  <2>6. StartInv'
    BY <2>1 DEF CountInv, StartInv
  <2>7. \A t, o : (Doing(t, o)' <=> Doing(t, o)) /\ (Placed(t, o)' <=> Placed(t, o))
    BY <2>1 DEF Doing, Placed, AtPool, Submits
  <2>8. PlaceInv'
    BY <2>7 DEF CountInv, PlaceInv
  <2>9. IdleInv' /\ IdlersInv'
    BY <2>1 DEF CountInv, IdleInv, IdlersInv, Threads
  <2>10. QED
    BY <2>3, <2>5, <2>6, <2>8, <2>9 DEF CountInv
<1>8. QED
  BY <1>1, <1>2, <1>3, <1>4, <1>5, <1>6, <1>7 DEF Next

LEMMA CountAlways == Spec => [](BaseTypes /\ TaskInv /\ CountInv)
<1>1. Init => BaseTypes /\ TaskInv /\ CountInv
  BY TaskInit, CountInit
<1>2. BaseTypes /\ TaskInv /\ CountInv /\ [Next]_vars => (BaseTypes /\ TaskInv /\ CountInv)'
  BY TaskNext, CountNext
<1>3. QED
  BY <1>1, <1>2, PTL DEF Spec

\* Every variable keeps its type.  What is not obvious is that the counters of active threads
\* and of active pools never fall below zero (CountingLock.cpp:30-52), though the locks that
\* count in them are taken and undone by different threads.
THEOREM TypesKept == Spec => []TypeOK
<1>1. BaseTypes /\ CountInv => TypeOK
  <2> SUFFICES ASSUME BaseTypes, CountInv PROVE TypeOK
    OBVIOUS
  <2>1. ASSUME NEW p \in Pool
        PROVE  pool[p] \in [queue : SUBSET Task, live : BOOLEAN, accept : BOOLEAN, running : BOOLEAN,
                            idle : BOOLEAN, active : Nat, owner : Thread \union {None},
                            idleTasks : SUBSET Idlers]
    <3>1. pool[p].active \in Nat
      BY BusyFinite DEF CountInv, ActiveInv
    <3>2. pool[p] \in PoolState
      BY PoolFacts
    <3>3. QED
      BY <3>1, <3>2 DEF PoolState
  <2>2. pool \in [Pool -> [queue : SUBSET Task, live : BOOLEAN, accept : BOOLEAN, running : BOOLEAN,
                           idle : BOOLEAN, active : Nat, owner : Thread \union {None},
                           idleTasks : SUBSET Idlers]]
    BY <2>1, Zenon DEF BaseTypes, PoolTypes
  <2>3. activePools \in Nat
    <3>1. Busies \subseteq made /\ IsFiniteSet(made)
      BY DEF Busies, BaseTypes, MadeTypes
    <3>2. Cardinality(Busies) \in Nat
      BY <3>1, FS_Subset, FS_CardinalityType
    <3>3. QED
      BY <3>2 DEF CountInv, PoolsInv
  <2>4. group \in [Group -> GroupState]
    BY DEF BaseTypes, GroupTypes
  <2>5. globalIdle \subseteq Idlers /\ made \subseteq Pool /\ {started, running, terminated} \subseteq BOOLEAN
    BY DEF BaseTypes, MadeTypes
  <2>6. /\ threadIdle \in [Thread -> BOOLEAN] /\ stack \in [Thread -> Seq(Task)]
        /\ pc \in [Thread -> {"setup", "starting", "unborn", "top", "wait", "woken", "exited"}]
        /\ status \in [Task -> {"new", "submitted", "queued", "running", "done", "dropped"}]
    BY DEF BaseTypes, ThreadTypes, StatusTypes, Pcs
  <2>7. QED
    BY <2>2, <2>3, <2>4, <2>5, <2>6 DEF TypeOK
<1>2. QED
  BY <1>1, CountAlways, PTL

\* When the last pool becomes idle all stacks are empty.
LEMMA LastPoolIdle ==
  ASSUME BaseTypes, TaskInv, CountInv, NEW t \in Thread, BecomeIdle(t), CountInv',
         AllIdle(t), IsLast(PoolsLeft(t)),
         NEW p \in made \intersect CountsForIdle, NEW x \in Threads(p)
  PROVE  stack[x] = <<>>
<1>1. /\ activePools' = PoolsLeft(t) /\ made' = made /\ stack' = stack /\ started' = started
      /\ pc' = [pc EXCEPT ![t] = "wait"] \/ pc' = [pc EXCEPT ![t] = "top"]
  BY DEF BecomeIdle, shared, PoolsLeft, AllIdle, ActiveLeft, NowIdle, CountsNow
<1>2. Cardinality(Busies') = 0
  BY <1>1 DEF CountInv, PoolsInv, IsLast
<1>3. PICK B : B = Busies' /\ IsFiniteSet(B)
  <2>1. Busies' \subseteq made /\ IsFiniteSet(made)
    BY <1>1 DEF Busies, BaseTypes, MadeTypes
  <2>2. QED
    BY <2>1, FS_Subset
<1>4. B = {}
  BY <1>2, <1>3, FS_EmptySet
<1>5. pool'[p].idle /\ p \in Pool
  BY <1>1, <1>3, <1>4 DEF Busies, BaseTypes, MadeTypes
<1>6. stack'[x] = <<>> \/ pc'[x] = "setup"
  BY <1>5 DEF CountInv, IdleInv, Threads
<1>7. pc'[x] # "setup"
  <2>1. ops[t] # <<>> /\ Head(ops[t]).op = "idle"
    BY BecomeIdleOps
  <2>2. pc[t] = "top"
    BY <2>1, HeadPlaced DEF CountInv, Placed, AtPool
  <2>3. started /\ pc[MainThread] # "setup"
    BY <2>2 DEF CountInv, StartInv, Alive
  <2>4. x \in Thread
    BY DEF Threads
  <2>5. pc[x] # "setup"
    BY <2>3, <2>4 DEF CountInv, StartInv
  <2>6. QED
    BY <1>1, <2>4, <2>5 DEF BaseTypes, ThreadTypes
<1>8. QED
  BY <1>1, <1>6, <1>7

\* The idle tasks of all pools are submitted only when no task is in execution in any pool
\* that counts for idle (Pool.cpp:220-269): not by a stale count, and for any number of
\* threads and pools.
THEOREM IdleTaskWhenIdle == Spec => IdleMeansIdle
<1> DEFINE Still(t) == \A h \in globalIdle :
      BecomeIdle(t) /\ status[h] = "new" /\ status'[h] = "submitted" =>
        \A p \in made \intersect CountsForIdle, k \in Task :
           Target[k] = p => ~(\E x \in Threads(p) : Contains(stack[x], k))
<1>1. BaseTypes /\ TaskInv /\ CountInv /\ [Next]_vars /\ CountInv' => \A t \in Thread : Still(t)
  <2> SUFFICES ASSUME BaseTypes, TaskInv, CountInv, CountInv', NEW t \in Thread, NEW h \in globalIdle,
                      BecomeIdle(t), status[h] = "new", status'[h] = "submitted",
                      NEW p \in made \intersect CountsForIdle, NEW k \in Task,
                      NEW x \in Threads(p), Contains(stack[x], k)
               PROVE  FALSE
    OBVIOUS
  <2>1. h \in Fresh(t)
    <3>1. h \in Task
      BY PoolAssumption DEF BaseTypes, MadeTypes
    <3>2. status' = [j \in Task |-> IF j \in Fresh(t) THEN "submitted" ELSE status[j]]
      BY BecomeIdleOps
    <3>3. QED
      BY <3>1, <3>2
  <2>2. IdlePool[h] = None /\ Home[t] \in Pool
    BY PoolAssumption DEF CountInv, IdlersInv
  <2>3. h \notin pool[Home[t]].idleTasks
    BY <2>2 DEF CountInv, IdlersInv
  <2>4. AllIdle(t) /\ IsLast(PoolsLeft(t))
    BY <2>1, <2>3 DEF Fresh, PoolsLeft, AllIdle, ActiveLeft, NowIdle, CountsNow
  <2>5. stack[x] = <<>>
    BY <2>4, LastPoolIdle
  <2>6. QED
    BY <2>5 DEF Contains
<1>2. (BaseTypes /\ TaskInv /\ CountInv) /\ [Next]_vars /\ (BaseTypes /\ TaskInv /\ CountInv)'
      => [\A t \in Thread : Still(t)]_vars
  BY <1>1
<1>3. QED
  BY <1>2, CountAlways, PTL DEF Spec, IdleMeansIdle
-----------------------------------------------------------------------------
(* The invariant of NothingLeftBehind.  A queued task that may lock its groups sees to a   *)
(* live pool, or to a call that is going to notify it (WakeInv): whoever walks through the *)
(* queue leaves nobody behind who may (WalkInv), and whoever makes a task able to lock     *)
(* notifies its pool, since it notifies all that are within the tokens that are left and   *)
(* were not told before (WindowInv).  A live pool has a thread that is awake or about to   *)
(* be woken (LiveInv), and a thread ends only in a pool that is empty and takes nothing    *)
(* more (EndInv).  So if all sleep no queued task may lock.  But the first in the queue of *)
(* a group may, once nobody has a token (HolderInv); so there is none.                    *)
\* The hypotheses: no task has two groups, each pool has a thread.
SingleGroups == \A h \in Task : Len(Groups[h]) <= 1
Manned == \A p \in Pool : Threads(p) # {}

\* o makes the notification of p, or asks for it.
CallsFor(o, p) == \/ o.op = "notify" /\ o.pool = p
                  \/ o.op = "ask" /\ o.next.op = "notify" /\ o.next.pool = p
\* o is between the end of task h and the release of its groups, or o has its locks.
Frees(o, h) == o.op = "release" /\ o.task = h
HasLocks(o, h) == o.op \in {"take", "inline", "release"} /\ o.task = h

Pending(p) == \E t \in Thread, o \in OpSet : Doing(t, o) /\ CallsFor(o, p)
Unlocking(p) == \E t \in Thread, o \in OpSet : Doing(t, o) /\ Unlocks(o, p)
InCall(h) == \E t \in Thread, o \in OpSet : Doing(t, o) /\ (Submits(o, h) \/ Frees(o, h))
Holds(h) == \E t \in Thread, o \in OpSet : Doing(t, o) /\ HasLocks(o, h)

\* What a call has still to do with the groups of its task is all of them.
Shaped(o) == o.op \in {"insert", "lock", "release"} => o.groups = Groups[o.task]
ShapeInv == \A t \in Thread, o \in OpSet : Doing(t, o) => Shaped(o)

\* The handles of h are in the queues of its groups.
Handled(h) == \A i \in 1..Len(Groups[h]) : h \in group[Groups[h][i]].queue
Housed(h) == terminated \/ Target[h] \in made
\* From its handles on a task stays in the queues of its groups until it is released, and
\* is in the queue of its pool when it is queued.
OnWay(o) == \A h \in Task : Submits(o, h) /\ o.op # "getpool" =>
               Housed(h) /\ (o.op = "insert" \/ Handled(h))
Queued(h) == Handled(h) /\ Housed(h) /\ h \in pool[Target[h]].queue
HandleInv == /\ \A t \in Thread, o \in OpSet : Doing(t, o) => OnWay(o)
             /\ \A h \in Task : status[h] = "queued" => Queued(h)

\* Who is in the queue of a group is on its way, queued, running, or on its way out; who has
\* a token runs or is about to, or about to release it.
HolderInv == \A g \in Group : \A h \in group[g].queue :
    /\ Groups[h] = <<g>>
    /\ status[h] = "queued" \/ Active(h) \/ InCall(h)
    /\ h \in group[g].locked => Active(h) \/ Holds(h)

\* Who was notified may lock.
WindowInv == \A g \in Group : \A h \in group[g].queue \ group[g].locked :
    h \in group[g].notified => Free(group[g], h) >= 0

Takeable(h) == \A i \in 1..Len(Groups[h]) : Lockable(group[Groups[h][i]], h)
\* If a queued task may lock, its pool is live, or a notification is under way.
WakeInv == \A p \in Pool : \A h \in pool[p].queue :
    Takeable(h) => pool[p].live \/ Pending(p)
\* Whom a walk through a queue has left behind, or all if it is over, cannot lock, or a
\* notification is under way.
Passed(o, h) == o.op = "idle" \/ (o.op = "lock" /\ o.last = "take" /\ Before(h, o.task))
Walked(t, o) == \A h \in pool[Home[t]].queue : Passed(o, h) /\ Takeable(h) => Pending(Home[t])
WalkInv == \A t \in Thread, o \in OpSet : Doing(t, o) => Walked(t, o)

\* A live pool has no waiting thread, or one that is awake or about to be woken.
Ready(p) == \/ \A t \in Threads(p) : pc[t] # "wait"
            \/ \E t \in Threads(p) : pc[t] \in {"top", "woken"}
            \/ Unlocking(p)
LiveInv == \A p \in Pool : pool[p].live => Ready(p)
EndInv == /\ \A p \in Pool : pool[p].running \/ ~pool[p].accept
          /\ \A t \in Thread : pc[t] = "exited" =>
                ~pool[Home[t]].running /\ pool[Home[t]].queue = {}
SleepInv == \A t \in Thread : pc[t] \in {"wait", "woken", "exited"} => stack[t] = <<>>
-----------------------------------------------------------------------------
LEMMA PushNew ==
  ASSUME OpTypes, NEW t \in Thread, NEW s, Pushes(t, s), NEW i \in 1..Len(s)
  PROVE  Doing(t, s[i])' /\ s[i] \in OpSet
<1> DEFINE r == Rest(t)
<1>1. r \in Seq(OpSet) /\ s \in Seq(OpSet) /\ Len(s) \in Nat /\ Len(r) \in Nat
  BY RestType, LenProperties DEF Pushes
<1>2. ops'[t] = s \o r
  BY DEF Pushes, OpTypes
<1> HIDE DEF r
<1>3. /\ Len(s \o r) = Len(s) + Len(r)
      /\ \A k \in 1..(Len(s) + Len(r)) : (s \o r)[k] = IF k <= Len(s) THEN s[k] ELSE r[k - Len(s)]
  BY <1>1, ConcatProperties
<1>4. i \in 1..(Len(s) + Len(r)) /\ i <= Len(s)
  BY <1>1
<1>5. i \in 1..Len(ops'[t]) /\ ops'[t][i] = s[i]
  BY <1>2, <1>3, <1>4
<1>6. s[i] \in OpSet
  BY <1>1
<1>7. QED
  BY <1>5, <1>6 DEF Doing

LEMMA PushKeeps ==
  ASSUME OpTypes, NEW t \in Thread, NEW s, Pushes(t, s), NEW u \in Thread, NEW o, Doing(u, o)
  PROVE  Doing(u, o)' \/ (u = t /\ ops[t] # <<>> /\ o = Head(ops[t]))
<1> DEFINE r == Rest(t)
<1>1. r \in Seq(OpSet) /\ s \in Seq(OpSet) /\ Len(s) \in Nat /\ Len(r) \in Nat
  BY RestType, LenProperties DEF Pushes
<1>2. ops' = [ops EXCEPT ![t] = s \o r] /\ ops \in [Thread -> Seq(OpSet)]
  BY DEF Pushes, OpTypes
<1>3. PICK i \in 1..Len(ops[u]) : ops[u][i] = o
  BY DEF Doing
<1>4. CASE u # t
  BY <1>2, <1>3, <1>4 DEF Doing
<1>5. CASE u = t
  <2>1. ops[t] \in Seq(OpSet) /\ Len(ops[t]) \in Nat
    BY <1>2, LenProperties
  <2>2. ops[t] # <<>>
    BY <1>3, <1>5
  <2>3. r = Tail(ops[t])
    BY <2>2 DEF Rest
  <2>4. /\ Head(ops[t]) = ops[t][1] /\ Len(r) = Len(ops[t]) - 1
        /\ \A k \in 1..Len(r) : r[k] = ops[t][k + 1]
    BY <2>1, <2>2, <2>3, HeadTailProperties
  <2>5. CASE i = 1
    BY <2>2, <2>4, <2>5, <1>3, <1>5
  <2>6. CASE i # 1
    <3> HIDE DEF r
    <3>1. i - 1 \in 1..Len(r) /\ r[i - 1] = o
      BY <2>1, <2>4, <2>6, <1>3, <1>5
    <3>2. /\ Len(s \o r) = Len(s) + Len(r)
          /\ \A k \in 1..(Len(s) + Len(r)) : (s \o r)[k] = IF k <= Len(s) THEN s[k] ELSE r[k - Len(s)]
      BY <1>1, ConcatProperties
    <3>3. Len(s) + (i - 1) \in 1..(Len(s) + Len(r)) /\ ~(Len(s) + (i - 1) <= Len(s))
      BY <3>1, <1>1
    <3>4. (s \o r)[Len(s) + (i - 1)] = r[(Len(s) + (i - 1)) - Len(s)]
      BY <3>2, <3>3
    <3>5. (Len(s) + (i - 1)) - Len(s) = i - 1
      BY <3>1, <1>1
    <3>6. ops'[t] = s \o r
      BY <1>2
    <3>7. QED
      BY <3>1, <3>2, <3>3, <3>4, <3>5, <3>6, <1>5 DEF Doing
  <2>7. QED
    BY <2>5, <2>6
<1>6. QED
  BY <1>4, <1>5

\* What is under way stays so unless it was the head, and what is pushed is under way.
LEMMA PendingKept ==
  ASSUME OpTypes, NEW t \in Thread, NEW s, Pushes(t, s), NEW p, Pending(p),
         ops[t] # <<>> /\ CallsFor(Head(ops[t]), p) => \E i \in 1..Len(s) : CallsFor(s[i], p)
  PROVE  Pending(p)'
<1>1. PICK u \in Thread, o \in OpSet : Doing(u, o) /\ CallsFor(o, p)
  BY DEF Pending
<1>2. CASE Doing(u, o)'
  BY <1>1, <1>2 DEF Pending
<1>3. CASE u = t /\ ops[t] # <<>> /\ o = Head(ops[t])
  <2>1. PICK i \in 1..Len(s) : CallsFor(s[i], p)
    BY <1>1, <1>3
  <2>2. PICK k : k = s[i] /\ Doing(t, k)' /\ k \in OpSet
    BY PushNew
  <2>3. QED
    BY <2>1, <2>2 DEF Pending
<1>4. QED
  BY <1>1, <1>2, <1>3, PushKeeps

LEMMA PendingNew ==
  ASSUME OpTypes, NEW t \in Thread, NEW s, Pushes(t, s), NEW p, NEW i \in 1..Len(s), CallsFor(s[i], p)
  PROVE  Pending(p)'
<1>1. PICK k : k = s[i] /\ Doing(t, k)' /\ k \in OpSet
  BY PushNew
<1>2. QED
  BY <1>1 DEF Pending

LEMMA InCallKept ==
  ASSUME OpTypes, NEW t \in Thread, NEW s, Pushes(t, s), NEW h, InCall(h),
         ops[t] # <<>> /\ (Submits(Head(ops[t]), h) \/ Frees(Head(ops[t]), h)) =>
            \E i \in 1..Len(s) : Submits(s[i], h) \/ Frees(s[i], h)
  PROVE  InCall(h)'
<1>1. PICK u \in Thread, o \in OpSet : Doing(u, o) /\ (Submits(o, h) \/ Frees(o, h))
  BY DEF InCall
<1>2. CASE Doing(u, o)'
  BY <1>1, <1>2 DEF InCall
<1>3. CASE u = t /\ ops[t] # <<>> /\ o = Head(ops[t])
  <2>1. PICK i \in 1..Len(s) : Submits(s[i], h) \/ Frees(s[i], h)
    BY <1>1, <1>3
  <2>2. PICK k : k = s[i] /\ Doing(t, k)' /\ k \in OpSet
    BY PushNew
  <2>3. QED
    BY <2>1, <2>2 DEF InCall
<1>4. QED
  BY <1>1, <1>2, <1>3, PushKeeps

LEMMA InCallNew ==
  ASSUME OpTypes, NEW t \in Thread, NEW s, Pushes(t, s), NEW h, NEW i \in 1..Len(s),
         Submits(s[i], h) \/ Frees(s[i], h)
  PROVE  InCall(h)'
<1>1. PICK k : k = s[i] /\ Doing(t, k)' /\ k \in OpSet
  BY PushNew
<1>2. QED
  BY <1>1 DEF InCall

LEMMA HoldsKept ==
  ASSUME OpTypes, NEW t \in Thread, NEW s, Pushes(t, s), NEW h, Holds(h),
         ~(ops[t] # <<>> /\ HasLocks(Head(ops[t]), h))
  PROVE  Holds(h)'
<1>1. PICK u \in Thread, o \in OpSet : Doing(u, o) /\ HasLocks(o, h)
  BY DEF Holds
<1>2. Doing(u, o)'
  BY <1>1, PushKeeps
<1>3. QED
  BY <1>1, <1>2 DEF Holds

LEMMA HoldsNew ==
  ASSUME OpTypes, NEW t \in Thread, NEW s, Pushes(t, s), NEW h, NEW i \in 1..Len(s), HasLocks(s[i], h)
  PROVE  Holds(h)'
<1>1. PICK k : k = s[i] /\ Doing(t, k)' /\ k \in OpSet
  BY PushNew
<1>2. QED
  BY <1>1 DEF Holds

LEMMA UnlockingKept ==
  ASSUME OpTypes, NEW t \in Thread, NEW s, Pushes(t, s), NEW p, Unlocking(p),
         ~(ops[t] # <<>> /\ Unlocks(Head(ops[t]), p))
  PROVE  Unlocking(p)'
<1>1. PICK u \in Thread, o \in OpSet : Doing(u, o) /\ Unlocks(o, p)
  BY DEF Unlocking
<1>2. Doing(u, o)'
  BY <1>1, PushKeeps
<1>3. QED
  BY <1>1, <1>2 DEF Unlocking

-----------------------------------------------------------------------------
(* What a step must do for each part of the invariant to be kept.                      *)
LEMMA ShapeKept ==
  ASSUME BaseTypes, TaskInv, ShapeInv, NEW t \in Thread, NEW s, Pushes(t, s),
         \A i \in 1..Len(s) : Shaped(s[i])
  PROVE  ShapeInv'
<1> SUFFICES ASSUME NEW u \in Thread, NEW o \in OpSet, Doing(u, o)' PROVE Shaped(o)
  BY DEF ShapeInv, Shaped
<1>1. CASE \E i \in 1..Len(s) : o = s[i]
  BY <1>1
<1>2. CASE Stays(t, u, o)
  BY <1>2 DEF Stays, ShapeInv
<1>3. QED
  BY <1>1, <1>2, PushDoing DEF BaseTypes, TaskInv

LEMMA HandleKept ==
  ASSUME BaseTypes, TaskInv, TaskInv', HandleInv, NEW t \in Thread, NEW s, Pushes(t, s),
         made \subseteq made', terminated => terminated',
         \A h \in Task : Handled(h) /\ status'[h] \in {"submitted", "queued"} => Handled(h)',
         \A h \in Task : status'[h] = "queued" =>
            \/ Queued(h)'
            \/ status[h] = "queued" /\ (h \in pool[Target[h]].queue => h \in pool'[Target[h]].queue),
         \A i \in 1..Len(s) : OnWay(s[i])'
  PROVE  HandleInv'
<1>1. \A h : Housed(h) => Housed(h)'
  BY DEF Housed
<1>2. ASSUME NEW u \in Thread, NEW o \in OpSet, Doing(u, o)' PROVE OnWay(o)'
  <2>1. CASE \E i \in 1..Len(s) : o = s[i]
    BY <2>1
  <2>2. CASE Stays(t, u, o)
    <3>1. OnWay(o)
      BY <2>2 DEF Stays, HandleInv
    <3>2. OpInv(u, o)'
      BY <1>2 DEF TaskInv, OpsInv
    <3>3. \A h \in Task : Submits(o, h) => status'[h] = "submitted"
      BY <3>2 DEF OpInv, Submits
    <3>4. QED
      BY <3>1, <3>3, <1>1 DEF OnWay, Submits
  <2>3. QED
    BY <1>2, <2>1, <2>2, PushDoing DEF BaseTypes, TaskInv
<1>3. ASSUME NEW h \in Task, status'[h] = "queued" PROVE Queued(h)'
  BY <1>1, <1>3 DEF HandleInv, Queued
<1>4. QED
  BY <1>2, <1>3 DEF HandleInv

\* A step that changes no group and no stack, and no status but of new tasks.
Keeps(t, s) ==
    /\ group' = group /\ stack' = stack
    /\ \A h \in Task : status'[h] = status[h] \/ (status[h] = "new" /\ status'[h] # "queued")
    /\ ops[t] # <<>> => /\ Head(ops[t]).op \notin {"take", "inline", "release"}
                        /\ \A h : Submits(Head(ops[t]), h) => \E i \in 1..Len(s) : Submits(s[i], h)

LEMMA HolderSame ==
  ASSUME BaseTypes, TaskInv, HolderInv, NEW t \in Thread, NEW s, Pushes(t, s), Keeps(t, s)
  PROVE  HolderInv'
<1> SUFFICES ASSUME NEW g \in Group, NEW h \in group[g].queue
             PROVE /\ Groups[h] = <<g>>
                   /\ status'[h] = "queued" \/ Active(h)' \/ InCall(h)'
                   /\ h \in group[g].locked => Active(h)' \/ Holds(h)'
  BY DEF HolderInv, Keeps
<1>1. h \in Task
  BY DEF BaseTypes, GroupTypes, GroupState
<1>2. Active(h)' <=> Active(h)
  BY DEF Keeps, Active
<1>3. ASSUME Holds(h) PROVE Holds(h)'
  BY <1>3, HoldsKept DEF Keeps, HasLocks, BaseTypes
<1>4. ASSUME InCall(h) PROVE InCall(h)'
  BY <1>4, InCallKept DEF Keeps, Frees, BaseTypes
<1>5. status[h] = "queued" => status'[h] = "queued"
  BY <1>1 DEF Keeps
<1>6. QED
  BY <1>2, <1>3, <1>4, <1>5 DEF HolderInv

LEMMA ScanKept ==
  ASSUME BaseTypes, TaskInv, WakeInv, WalkInv, NEW t \in Thread, NEW s, Pushes(t, s),
         \A p \in Pool : \A h \in pool'[p].queue : Takeable(h)' =>
            \/ h \in pool[p].queue /\ Takeable(h)
            \/ Pending(p)'
            \/ pool'[p].live /\ pool[p].owner = None,
         \A p \in Pool : pool[p].live =>
            \/ pool'[p].live
            \/ \A h \in pool[p].queue : Takeable(h) => Pending(p),
         \A p \in Pool : ops[t] # <<>> /\ CallsFor(Head(ops[t]), p) =>
            \/ \E i \in 1..Len(s) : CallsFor(s[i], p)
            \/ pool'[p].live /\ pool[p].owner = None,
         \A i \in 1..Len(s) : Walked(t, s[i])'
  PROVE  WakeInv' /\ WalkInv'
<1>1. ASSUME NEW p \in Pool, Pending(p)
      PROVE  Pending(p)' \/ (pool'[p].live /\ pool[p].owner = None)
  BY <1>1, PendingKept DEF BaseTypes
<1>2. ASSUME NEW p \in Pool, NEW h \in pool'[p].queue, Takeable(h)'
      PROVE  pool'[p].live \/ Pending(p)'
  BY <1>1, <1>2 DEF WakeInv
<1>3. ASSUME NEW u \in Thread, NEW o \in OpSet, Stays(t, u, o),
             NEW h \in pool'[Home[u]].queue, Passed(o, h), Takeable(h)'
      PROVE  Pending(Home[u])'
  <2>1. Doing(u, o) /\ Home[u] \in Pool
    BY <1>3, PoolAssumption DEF Stays
  <2>2. pool[Home[u]].owner = u /\ u # None
    BY <2>1, <1>3, PoolAssumption DEF TaskInv, OpsInv, OpInv, AtPool, Passed
  <2>3. CASE h \in pool[Home[u]].queue /\ Takeable(h)
    <3>1. Pending(Home[u])
      BY <2>1, <2>3, <1>3 DEF WalkInv, Walked
    <3>2. QED
      BY <3>1, <2>1, <2>2, <1>1
  <2>4. QED
    BY <2>1, <2>2, <2>3, <1>3
<1>4. ASSUME NEW u \in Thread, NEW o \in OpSet, Doing(u, o)' PROVE Walked(u, o)'
  <2>1. CASE u = t /\ \E i \in 1..Len(s) : o = s[i]
    BY <2>1
  <2>2. CASE Stays(t, u, o)
    BY <2>2, <1>3 DEF Walked, Passed
  <2>3. QED
    BY <1>4, <2>1, <2>2, PushDoing DEF BaseTypes, TaskInv
<1>5. QED
  BY <1>2, <1>4 DEF WakeInv, WalkInv

LEMMA LiveKept ==
  ASSUME BaseTypes, LiveInv, NEW t \in Thread, NEW s, Pushes(t, s),
         \A p \in Pool : pool'[p].live =>
            \/ Ready(p)'
            \/ /\ pool[p].live /\ ~(ops[t] # <<>> /\ Unlocks(Head(ops[t]), p))
               /\ \A u \in Threads(p) :
                     /\ pc'[u] = "wait" => pc[u] = "wait"
                     /\ pc[u] \in {"top", "woken"} => pc'[u] \in {"top", "woken"}
  PROVE  LiveInv'
<1> SUFFICES ASSUME NEW p \in Pool, pool'[p].live PROVE Ready(p)'
  BY DEF LiveInv
<1> SUFFICES ASSUME pool[p].live, ~(ops[t] # <<>> /\ Unlocks(Head(ops[t]), p)),
                    \A u \in Threads(p) :
                       /\ pc'[u] = "wait" => pc[u] = "wait"
                       /\ pc[u] \in {"top", "woken"} => pc'[u] \in {"top", "woken"}
             PROVE  Ready(p)'
  OBVIOUS
<1>1. Ready(p)
  BY DEF LiveInv
<1>2. Unlocking(p) => Unlocking(p)'
  BY UnlockingKept DEF BaseTypes
<1>3. Threads(p)' = Threads(p)
  BY DEF Threads
<1>4. QED
  BY <1>1, <1>2, <1>3 DEF Ready

\* The threads that sleep after a step slept before it, with their stacks, or are waking.
Sleepers == \A u \in Thread :
    pc'[u] \in {"wait", "woken", "exited"} =>
        \/ stack'[u] = <<>>
        \/ pc[u] \in {"wait", "woken", "exited"} /\ stack'[u] = stack[u]

LEMMA SleepKept == ASSUME SleepInv, Sleepers PROVE SleepInv'
  BY DEF SleepInv, Sleepers

LEMMA EndKept ==
  ASSUME EndInv,
         \A p \in Pool : /\ pool'[p].running => pool[p].running
                         /\ pool'[p].accept => pool[p].accept /\ pool'[p].running = pool[p].running
                         /\ ~pool[p].accept => pool'[p].queue \subseteq pool[p].queue,
         \A u \in Thread : pc'[u] = "exited" =>
            pc[u] = "exited" \/ (~pool'[Home[u]].running /\ pool'[Home[u]].queue = {})
  PROVE  EndInv'
<1>1. \A u \in Thread : Home[u] \in Pool
  BY PoolAssumption
<1>2. \A p \in Pool : pool'[p].running \/ ~pool'[p].accept
  BY DEF EndInv
<1>3. QED
  BY <1>1, <1>2 DEF EndInv

LEMMA WindowSame == ASSUME WindowInv, group' = group PROVE WindowInv'
  BY DEF WindowInv, Free

LEMMA SameTakeable == ASSUME group' = group PROVE \A h : Takeable(h)' <=> Takeable(h)
  BY DEF Takeable, Lockable, Free

QueuesInv == ShapeInv /\ HandleInv /\ HolderInv /\ WindowInv /\ WakeInv /\ WalkInv
AwakeInv == LiveInv /\ EndInv /\ SleepInv
LeftInv == QueuesInv /\ AwakeInv

\* A step that has to do with no task's handles.
Silent(o) == o.op \in {"getpool", "notify", "stop", "join", "halt", "unlock"}
             \/ (o.op = "ask" /\ o.next.op = "notify")
Welcome(t, o) == Shaped(o) /\ OnWay(o)' /\ Walked(t, o)'

LEMMA SilentWelcome ==
  ASSUME NEW t, NEW o, Silent(o) PROVE Welcome(t, o)
<1>1. Shaped(o)
  BY DEF Silent, Shaped
<1>2. OnWay(o)'
  BY DEF Silent, OnWay, Submits
<1>3. Walked(t, o)'
  BY DEF Silent, Walked, Passed
<1>4. QED
  BY <1>1, <1>2, <1>3 DEF Welcome

LEMMA OneWelcome ==
  ASSUME NEW t, NEW k, Welcome(t, k) PROVE \A i \in 1..Len(<<k>>) : Welcome(t, <<k>>[i])
  OBVIOUS

LEMMA SubmissionWelcome ==
  ASSUME NEW t, NEW h \in Task, NEW s, s = <<>> \/ s = Groups[h],
         s = <<>> => Handled(h)', Housed(h)'
  PROVE  /\ Welcome(t, Submission(h, s)) /\ Submits(Submission(h, s), h)
         /\ Submission(h, s).op \notin {"getpool", "release", "take", "unlock"}
<1> DEFINE k == Submission(h, s)
<1>1. CASE s # <<>>
  <2>1. k = [op |-> "insert", task |-> h, groups |-> s]
    BY <1>1 DEF Submission
  <2>2. k.op = "insert" /\ k.task = h /\ k.groups = s
    BY <2>1
  <2> HIDE DEF k
  <2>3. Shaped(k) /\ Submits(k, h)
    BY <2>2, <1>1 DEF Shaped, Submits
  <2>4. OnWay(k)'
    BY <2>2 DEF OnWay, Submits
  <2>5. Walked(t, k)'
    BY <2>2 DEF Walked, Passed
  <2>6. QED
    BY <2>2, <2>3, <2>4, <2>5 DEF Welcome, k
<1>2. CASE s = <<>> /\ h \in Inline /\ Groups[h] # <<>>
  <2>1. k = [op |-> "lock", task |-> h, groups |-> Groups[h], last |-> "inline"]
    BY <1>2 DEF Submission, Locks
  <2>2. k.op = "lock" /\ k.task = h /\ k.groups = Groups[h] /\ k.last = "inline"
    BY <2>1
  <2> HIDE DEF k
  <2>3. Shaped(k) /\ Submits(k, h)
    BY <2>2 DEF Shaped, Submits
  <2>4. OnWay(k)'
    BY <2>2, <1>2 DEF OnWay, Submits
  <2>5. Walked(t, k)'
    BY <2>2 DEF Walked, Passed
  <2>6. QED
    BY <2>2, <2>3, <2>4, <2>5 DEF Welcome, k
<1>3. CASE s = <<>> /\ h \in Inline /\ Groups[h] = <<>>
  <2>1. k = [op |-> "inline", task |-> h]
    BY <1>3 DEF Submission, Locks
  <2>2. k.op = "inline" /\ k.task = h
    BY <2>1
  <2> HIDE DEF k
  <2>3. Shaped(k) /\ Submits(k, h)
    BY <2>2 DEF Shaped, Submits
  <2>4. OnWay(k)'
    BY <2>2, <1>3 DEF OnWay, Submits
  <2>5. Walked(t, k)'
    BY <2>2 DEF Walked, Passed
  <2>6. QED
    BY <2>2, <2>3, <2>4, <2>5 DEF Welcome, k
<1>4. CASE s = <<>> /\ h \notin Inline
  <2>1. k = Enqueue(h)
    BY <1>4 DEF Submission
  <2>2. k.op = "ask" /\ k.next.op = "submit" /\ k.next.task = h
    BY <2>1, EnqueueFacts
  <2> HIDE DEF k
  <2>3. Shaped(k) /\ Submits(k, h)
    BY <2>2 DEF Shaped, Submits
  <2>4. OnWay(k)'
    BY <2>2, <1>4 DEF OnWay, Submits
  <2>5. Walked(t, k)'
    BY <2>2 DEF Walked, Passed
  <2>6. QED
    BY <2>2, <2>3, <2>4, <2>5 DEF Welcome, k
<1>5. QED
  BY <1>1, <1>2, <1>3, <1>4

LEMMA EnqueueWelcome ==
  ASSUME NEW t, NEW h \in Task, Handled(h)', Housed(h)'
  PROVE  Welcome(t, Enqueue(h)) /\ Submits(Enqueue(h), h)
<1>1. PICK k : k = Enqueue(h)
  OBVIOUS
<1>2. k.op = "ask" /\ k.next.op = "submit" /\ k.next.task = h
  BY <1>1, EnqueueFacts
<1>3. Shaped(k) /\ Submits(k, h)
  BY <1>2 DEF Shaped, Submits
<1>4. OnWay(k)'
  BY <1>2 DEF OnWay, Submits
<1>5. Walked(t, k)'
  BY <1>2 DEF Walked, Passed
<1>6. QED
  BY <1>1, <1>3, <1>4, <1>5 DEF Welcome

\* The queues and what is read with their mutex stay as they are.
SamePools4 == \A p \in Pool :
    /\ pool'[p].queue = pool[p].queue /\ pool'[p].live = pool[p].live
    /\ pool'[p].accept = pool[p].accept /\ pool'[p].running = pool[p].running
Onward == \A u \in Thread : \/ pc'[u] = pc[u] \/ pc'[u] = "top"
                            \/ pc[u] = "wait" /\ pc'[u] = "woken"
                            \/ pc[u] = "setup" /\ pc'[u] = "starting"

LEMMA QueuesKept ==
  ASSUME BaseTypes, TaskInv, TaskInv', QueuesInv, NEW t \in Thread, NEW s, Pushes(t, s), Keeps(t, s),
         made \subseteq made', terminated => terminated',
         \A p \in Pool : pool'[p].queue = pool[p].queue,
         \A p \in Pool : pool[p].live =>
            \/ pool'[p].live
            \/ \A h \in pool[p].queue : Takeable(h) => Pending(p),
         \A p \in Pool : ops[t] # <<>> /\ CallsFor(Head(ops[t]), p) =>
            \/ \E i \in 1..Len(s) : CallsFor(s[i], p)
            \/ pool'[p].live /\ pool[p].owner = None,
         \A i \in 1..Len(s) : Welcome(t, s[i])
  PROVE  QueuesInv'
<1>1. /\ \A i \in 1..Len(s) : Shaped(s[i])
      /\ \A i \in 1..Len(s) : OnWay(s[i])'
      /\ \A i \in 1..Len(s) : Walked(t, s[i])'
  BY DEF Welcome
<1>2. ShapeInv'
  BY <1>1, ShapeKept DEF QueuesInv
<1>3. HandleInv'
  <2>1. \A h : Handled(h)' <=> Handled(h)
    BY DEF Handled, Keeps
  <2>2. \A h \in Task : Target[h] \in Pool
    BY TaskFacts
  <2>3. \A h \in Task : status'[h] = "queued" =>
            \/ Queued(h)'
            \/ status[h] = "queued" /\ (h \in pool[Target[h]].queue => h \in pool'[Target[h]].queue)
    BY <2>2 DEF Keeps
  <2>4. QED
    BY <1>1, <2>1, <2>3, HandleKept DEF QueuesInv
<1>4. HolderInv'
  BY HolderSame DEF QueuesInv
<1>5. WindowInv'
  BY WindowSame DEF QueuesInv, Keeps
<1>6. WakeInv' /\ WalkInv'
  <2>1. \A h : Takeable(h)' <=> Takeable(h)
    BY SameTakeable DEF Keeps
  <2>2. \A p \in Pool : \A h \in pool'[p].queue : Takeable(h)' =>
            \/ h \in pool[p].queue /\ Takeable(h)
            \/ Pending(p)'
            \/ pool'[p].live /\ pool[p].owner = None
    BY <2>1
  <2>3. QED
    BY <1>1, <2>2, ScanKept DEF QueuesInv
<1>7. QED
  BY <1>2, <1>3, <1>4, <1>5, <1>6 DEF QueuesInv

LEMMA AwakeKept ==
  ASSUME BaseTypes, AwakeInv, NEW t \in Thread, NEW s, Pushes(t, s), SamePools4, Onward,
         stack' = stack, \A p \in Pool : ~(ops[t] # <<>> /\ Unlocks(Head(ops[t]), p))
  PROVE  AwakeInv'
<1>1. LiveInv'
  <2>1. \A p : \A u \in Threads(p) : u \in Thread
    BY DEF Threads
  <2>2. \A p \in Pool : \A u \in Threads(p) : /\ pc'[u] = "wait" => pc[u] = "wait"
                                              /\ pc[u] \in {"top", "woken"} => pc'[u] \in {"top", "woken"}
    BY <2>1 DEF Onward
  <2>3. QED
    BY <2>2, LiveKept DEF AwakeInv, SamePools4
<1>2. EndInv'
  BY EndKept DEF AwakeInv, SamePools4, Onward
<1>3. SleepInv'
  <2>1. Sleepers
    BY DEF Onward, Sleepers
  <2>2. QED
    BY <2>1, SleepKept DEF AwakeInv
<1>4. QED
  BY <1>1, <1>2, <1>3 DEF AwakeInv

LEMMA PlainStep ==
  ASSUME BaseTypes, TaskInv, TaskInv', LeftInv, NEW t \in Thread, NEW s, Pushes(t, s), Keeps(t, s),
         made \subseteq made', terminated => terminated', SamePools4, Onward,
         ops[t] # <<>> => /\ Head(ops[t]).op # "unlock"
                          /\ \A p \in Pool : CallsFor(Head(ops[t]), p) =>
                                \E i \in 1..Len(s) : CallsFor(s[i], p),
         \A i \in 1..Len(s) : Welcome(t, s[i])
  PROVE  LeftInv'
<1>1. QueuesInv'
  BY QueuesKept DEF LeftInv, SamePools4
<1>2. AwakeInv'
  BY AwakeKept DEF LeftInv, Keeps, Unlocks
<1>3. QED
  BY <1>1, <1>2 DEF LeftInv

-----------------------------------------------------------------------------
(* The steps that leave groups, queues and stacks alone.                               *)
LEMMA GetPoolLeft ==
  ASSUME BaseTypes, TaskInv, TaskInv', LeftInv, NEW t \in Thread, GetPool(t) PROVE LeftInv'
<1> DEFINE o == Head(ops[t])
<1>0. PICK h, p, k : h = o.task /\ p = Target[h] /\ k = Submission(h, Groups[h])
  OBVIOUS
<1>1. /\ h \in Task /\ p \in Pool /\ ops[t] # <<>> /\ o \in OpSet /\ o.op = "getpool"
      /\ Pushes(t, <<k>>)
  BY <1>0, GetPoolOps
<1>2. group' = group /\ stack' = stack /\ status' = status
  BY DEF GetPool
<1>3. SamePools4
  <2> DEFINE d == Target[Head(ops[t]).task]
  <2>1. CASE UNCHANGED pool
    BY <2>1 DEF SamePools4
  <2>2. CASE pool' = [pool EXCEPT ![d].idle = d \in CountsForIdle,
                           ![d].active = IF started /\ d \in CountsForIdle
                                         THEN Cardinality(Threads(d)) ELSE 0]
    <3>1. d \in Pool
      BY <1>0, <1>1
    <3> HIDE DEF d
    <3>2. QED
      BY <2>2, <3>1 DEF BaseTypes, PoolTypes, PoolState, SamePools4
  <2>3. QED
    BY <2>1, <2>2 DEF GetPool
<1>4. Onward
  <2>1. CASE pc' = pc
    BY <2>1 DEF Onward
  <2>2. CASE pc' # pc
    BY <2>2 DEF GetPool, Onward
  <2>3. QED
    BY <2>1, <2>2
<1>5. made \subseteq made' /\ (terminated => terminated') /\ Housed(h)'
  <2> DEFINE d == Target[Head(ops[t]).task]
  <2>1. \/ d \in made /\ made' = made /\ terminated' = terminated
        \/ made' = made /\ terminated' = TRUE
        \/ made' = made \union {d} /\ terminated' = terminated
    BY Zenon DEF GetPool
  <2> HIDE DEF d
  <2>2. made \subseteq made' /\ (d \in made' \/ terminated' = TRUE)
    BY <2>1
  <2>3. terminated => terminated'
    BY <2>1, Zenon
  <2>4. QED
    BY <2>2, <2>3, <1>0, Zenon DEF Housed, d
<1>6. Groups[h] = <<>> => Handled(h)'
  BY DEF Handled
<1>7. Welcome(t, k) /\ Submits(k, h)
  BY <1>0, <1>1, <1>5, <1>6, SubmissionWelcome
<1>8. \A j : Submits(o, j) => j = h
  BY <1>0, <1>1 DEF Submits
<1>9. \A j : Submits(o, j) => \E i \in 1..Len(<<k>>) : Submits(<<k>>[i], j)
  BY <1>7, <1>8
<1>10. Keeps(t, <<k>>)
  BY <1>1, <1>2, <1>9 DEF Keeps
<1>11. \A q \in Pool : ~CallsFor(o, q)
  BY <1>1 DEF CallsFor
<1>12. QED
  BY <1>1, <1>3, <1>4, <1>5, <1>7, <1>10, <1>11, OneWelcome, PlainStep

LEMMA AskIdleLeft ==
  ASSUME BaseTypes, TaskInv, TaskInv', LeftInv, NEW t \in Thread, AskIdle(t) PROVE LeftInv'
<1> DEFINE o == Head(ops[t])
<1>0. PICK k : k = [o.next EXCEPT !.clear = ~pool[Home[t]].idle]
  OBVIOUS
<1>1. /\ ops[t] # <<>> /\ o \in OpSet /\ o.op = "ask" /\ o.next \in SubmitOp \union NotifyOp
      /\ k \in SubmitOp \union NotifyOp /\ k.op = o.next.op
      /\ o.next \in SubmitOp => k.task = o.next.task
      /\ Pushes(t, <<k>>)
  BY <1>0, AskIdleOps
<1>2. /\ group' = group /\ stack' = stack /\ status' = status /\ pool' = pool /\ pc' = pc
      /\ made' = made /\ terminated' = terminated
  BY DEF AskIdle, shared
<1>3. o.next \in NotifyOp => k.pool = o.next.pool
  BY <1>0 DEF NotifyOp
<1>4. /\ \A j \in SubmitOp : j.op = "submit"
      /\ \A j \in NotifyOp : j.op = "notify"
  BY DEF SubmitOp, NotifyOp
<1>5. \A j : Submits(o, j) => Submits(k, j)
  BY <1>1, <1>4 DEF Submits
<1>6. \A j : Submits(k, j) => Submits(o, j)
  BY <1>1, <1>4 DEF Submits
<1>7. \A q : CallsFor(o, q) => CallsFor(k, q)
  BY <1>1, <1>3, <1>4 DEF CallsFor
<1>8. Welcome(t, k)
  <2>1. k.op \in {"submit", "notify"}
    BY <1>1, <1>4
  <2>2. Shaped(k) /\ Walked(t, k)'
    BY <2>1 DEF Shaped, Walked, Passed
  <2>3. OnWay(o)
    BY <1>1, HeadInv DEF LeftInv, QueuesInv, HandleInv, BaseTypes, TaskInv
  <2>4. OnWay(k)'
    BY <2>3, <1>1, <1>2, <1>6 DEF OnWay, Handled, Housed, Submits
  <2>5. QED
    BY <2>2, <2>4 DEF Welcome
<1>9. Keeps(t, <<k>>)
  <2>1. \A j : Submits(o, j) => \E i \in 1..Len(<<k>>) : Submits(<<k>>[i], j)
    BY <1>5
  <2>2. QED
    BY <2>1, <1>1, <1>2 DEF Keeps
<1>10. \A q : CallsFor(o, q) => \E i \in 1..Len(<<k>>) : CallsFor(<<k>>[i], q)
  BY <1>7
<1>11. SamePools4 /\ Onward
  BY <1>2 DEF SamePools4, Onward
<1>12. QED
  BY <1>1, <1>2, <1>8, <1>9, <1>10, <1>11, OneWelcome, PlainStep

\* Steps whose head claims nothing and that push nothing but what is silent.
LEMMA SilentStep ==
  ASSUME BaseTypes, TaskInv, TaskInv', LeftInv, NEW t \in Thread, NEW s, Pushes(t, s),
         ops[t] # <<>> => Head(ops[t]).op \in {"halt", "join"},
         \A i \in 1..Len(s) : Silent(s[i]),
         group' = group, stack' = stack,
         \A h \in Task : status'[h] = status[h] \/ (status[h] = "new" /\ status'[h] # "queued"),
         made \subseteq made', terminated' = terminated, SamePools4, Onward
  PROVE  LeftInv'
<1>1. ops[t] # <<>> => \A h : ~Submits(Head(ops[t]), h) /\ ~CallsFor(Head(ops[t]), h)
  BY DEF Submits, CallsFor
<1>2. Keeps(t, s)
  BY <1>1 DEF Keeps
<1>3. \A i \in 1..Len(s) : Welcome(t, s[i])
  BY SilentWelcome
<1>4. QED
  BY <1>1, <1>2, <1>3, PlainStep

LEMMA HaltLeft ==
  ASSUME BaseTypes, TaskInv, TaskInv', LeftInv, NEW t \in Thread, Halt(t) PROVE LeftInv'
<1>1. PICK s : Pushes(t, s) /\ \A i \in 1..Len(s) : s[i].op = "stop"
  BY HaltOps
<1>2. ops[t] # <<>> /\ Head(ops[t]).op = "halt"
  BY HaltOps
<1>3. /\ group' = group /\ stack' = stack /\ status' = status /\ pool' = pool /\ pc' = pc
      /\ made' = made /\ terminated' = terminated
  BY DEF Halt
<1>4. SamePools4 /\ Onward /\ \A i \in 1..Len(s) : Silent(s[i])
  BY <1>1, <1>3 DEF SamePools4, Onward, Silent
<1>5. QED
  BY <1>1, <1>2, <1>3, <1>4, SilentStep

LEMMA JoinLeft ==
  ASSUME BaseTypes, TaskInv, TaskInv', LeftInv, NEW t \in Thread, Join(t) PROVE LeftInv'
<1>1. ops[t] # <<>> /\ Head(ops[t]).op = "join" /\ Pushes(t, <<>>)
  <2>1. Head(ops[t]).op = "join"
    BY DEF Join, Op
  <2>2. QED
    BY <2>1, MutexOps
<1>2. /\ group' = group /\ stack' = stack /\ status' = status /\ pool' = pool /\ pc' = pc
      /\ made' = made /\ terminated' = terminated
  BY DEF Join, shared
<1>3. SamePools4 /\ Onward /\ \A i \in 1..Len(<<>>) : Silent(<<>>[i])
  BY <1>2 DEF SamePools4, Onward
<1>4. QED
  BY <1>1, <1>2, <1>3, SilentStep

LEMMA SubmitLeft ==
  ASSUME BaseTypes, TaskInv, TaskInv', LeftInv, NEW t \in Thread, NEW h \in Task, Submit(t, h)
  PROVE  LeftInv'
<1>1. ops[t] = <<>> /\ Pushes(t, <<SubmitCall(h)>>)
  BY SubmitOps
<1>2. /\ group' = group /\ stack' = stack /\ pool' = pool /\ pc' = pc
      /\ made' = made /\ terminated' = terminated
  BY DEF Submit, shared
<1>3. \A j \in Task : status'[j] = status[j] \/ (status[j] = "new" /\ status'[j] # "queued")
  BY DEF Submit, BaseTypes, StatusTypes
<1>4. Silent(SubmitCall(h))
  BY SubmitCallFacts DEF Silent
<1>5. SamePools4 /\ Onward /\ \A i \in 1..Len(<<SubmitCall(h)>>) : Silent(<<SubmitCall(h)>>[i])
  BY <1>2, <1>4 DEF SamePools4, Onward
<1>6. QED
  BY <1>1, <1>2, <1>3, <1>5, SilentStep

LEMMA ShutdownLeft ==
  ASSUME BaseTypes, TaskInv, TaskInv', LeftInv, NEW t \in Thread, NEW force, Shutdown(t, force)
  PROVE  LeftInv'
<1> DEFINE c == ForEach(Sorted(OnStop), SubmitCall)
           s == c \o <<[op |-> "halt", type |-> IF force THEN "FORCE" ELSE "NORMAL"]>>
<1>1. /\ ops[t] = <<>> /\ OnStop \in SUBSET Task
      /\ Pushes(t, s) /\ Len(s) = Len(c) + 1 /\ Len(c) \in Nat
      /\ \A i \in 1..Len(c) : s[i] = c[i]
      /\ s[Len(c) + 1].op = "halt"
  BY ShutdownOps
<1>2. \A i \in 1..Len(c) : Silent(c[i])
  <2>1. \A i \in 1..Len(c) : c[i] = SubmitCall(Sorted(OnStop)[i])
    BY <1>1, SubmitCalls
  <2> HIDE DEF c
  <2>2. QED
    BY <2>1, SubmitCallFacts DEF Silent
<1> HIDE DEF c, s
<1>3. \A i \in 1..Len(s) : Silent(s[i])
  <2>1. \A i \in 1..(Len(c) + 1) : i \in 1..Len(c) \/ i = Len(c) + 1
    BY <1>1
  <2>2. QED
    BY <2>1, <1>1, <1>2 DEF Silent
<1>4. /\ group' = group /\ stack' = stack /\ pool' = pool /\ pc' = pc
      /\ made' = made /\ terminated' = terminated
  BY DEF Shutdown, shared
<1>5. \A j \in Task : status'[j] = status[j] \/ (status[j] = "new" /\ status'[j] # "queued")
  BY DEF Shutdown
<1>6. SamePools4 /\ Onward
  BY <1>4 DEF SamePools4, Onward
<1>7. QED
  BY <1>1, <1>3, <1>4, <1>5, <1>6, SilentStep

NoneSilent == \A i \in 1..Len(<<>>) : Silent(<<>>[i])

LEMMA NothingPushed == NoneSilent
  BY DEF NoneSilent

LEMMA AddIdleTaskLeft ==
  ASSUME BaseTypes, TaskInv, TaskInv', LeftInv, NEW t \in Thread, NEW h \in Task, AddIdleTask(t, h)
  PROVE  LeftInv'
<1> DEFINE p == IdlePool[h]
           k == [op |-> "notify", pool |-> MainPool, clear |-> TRUE]
<1>1. ops[t] = <<>> /\ (Pushes(t, <<k>>) \/ ops' = ops)
  BY AddIdleTaskOps
<1>2. k.op = "notify"
  OBVIOUS
<1> HIDE DEF k
<1>3. PICK s : Pushes(t, s) /\ \A i \in 1..Len(s) : Silent(s[i])
  <2>1. Silent(k)
    BY <1>2 DEF Silent
  <2>2. \A i \in 1..Len(<<k>>) : Silent(<<k>>[i])
    BY <2>1
  <2>3. ops' = ops => Pushes(t, <<>>)
    BY <1>1, NoPush DEF BaseTypes
  <2>4. QED
    BY <1>1, <2>2, <2>3, NothingPushed DEF NoneSilent
<1>4. SamePools4
  <2>1. CASE pool' = pool
    BY <2>1 DEF SamePools4
  <2>2. CASE pool' = [pool EXCEPT ![p].idleTasks = pool[p].idleTasks \union {h}]
    BY <2>2 DEF BaseTypes, PoolTypes, PoolState, SamePools4
  <2>3. QED
    BY <2>1, <2>2 DEF AddIdleTask
<1>5. Onward
  <2>1. pc' = pc \/ \E q : pc' \in WakeOne(q, pc)
    BY DEF AddIdleTask
  <2>2. pc \in [Thread -> Pcs]
    BY DEF BaseTypes, ThreadTypes
  <2>3. QED
    BY <2>1, <2>2, WakeFacts DEF Onward
<1>6. /\ group' = group /\ stack' = stack /\ status' = status
      /\ made' = made /\ terminated' = terminated
  BY DEF AddIdleTask
<1>7. QED
  BY <1>1, <1>3, <1>4, <1>5, <1>6, SilentStep

LEMMA RemoveIdleTaskLeft ==
  ASSUME BaseTypes, TaskInv, TaskInv', LeftInv, NEW t \in Thread, NEW h \in Task, RemoveIdleTask(t, h)
  PROVE  LeftInv'
<1>1. SamePools4
  <2>1. CASE pool' = pool
    BY <2>1 DEF SamePools4
  <2>2. ASSUME NEW p \in made, pool' = [pool EXCEPT ![p].idleTasks = pool[p].idleTasks \ {h}]
        PROVE  SamePools4
    BY <2>2 DEF BaseTypes, PoolTypes, PoolState, SamePools4
  <2>3. pool' = pool \/ \E p \in made : pool' = [pool EXCEPT ![p].idleTasks = pool[p].idleTasks \ {h}]
    BY DEF RemoveIdleTask
  <2>4. QED
    BY <2>1, <2>2, <2>3
<1>2. /\ group' = group /\ stack' = stack /\ ops' = ops /\ ops[t] = <<>> /\ pc' = pc
      /\ made' = made /\ terminated' = terminated
  BY DEF RemoveIdleTask, BodyIn, InBody
<1>3. \A j \in Task : status'[j] = status[j] \/ (status[j] = "new" /\ status'[j] # "queued")
  BY DEF RemoveIdleTask, BaseTypes, StatusTypes
<1>4. Pushes(t, <<>>) /\ Onward
  BY <1>2, NoPush DEF BaseTypes, Onward
<1>5. QED
  BY <1>1, <1>2, <1>3, <1>4, NothingPushed, SilentStep DEF NoneSilent

LEMMA StartLeft ==
  ASSUME BaseTypes, TaskInv, TaskInv', CountInv, LeftInv, StartPools \/ StartMain
  PROVE  LeftInv'
<1>1. SamePools4
  <2>1. CASE StartPools
    <3> SUFFICES ASSUME NEW q \in Pool
                 PROVE  /\ pool'[q].queue = pool[q].queue /\ pool'[q].live = pool[q].live
                        /\ pool'[q].accept = pool[q].accept /\ pool'[q].running = pool[q].running
      BY DEF SamePools4
    <3> DEFINE n == Cardinality(Threads(q))
    <3>1. pool'[q] = pool[q] \/ pool'[q] = [pool[q] EXCEPT !.active = n]
      BY <2>1 DEF StartPools
    <3>2. pool[q] \in PoolState
      BY PoolFacts
    <3> HIDE DEF n
    <3>3. QED
      BY <3>1, <3>2 DEF PoolState
  <2>2. CASE StartMain
    BY <2>2 DEF StartMain, BaseTypes, PoolTypes, PoolState, SamePools4
  <2>3. QED
    BY <2>1, <2>2
<1>2. MainThread \in Thread /\ ops[MainThread] = <<>>
  BY MainHome DEF StartPools, StartMain, CountInv, StartInv
<1>3. /\ group' = group /\ stack' = stack /\ ops' = ops /\ status' = status
      /\ made' = made /\ terminated' = terminated
  BY DEF StartPools, StartMain, shared
<1>4. Onward
  <2>1. CASE StartPools
    BY <2>1 DEF StartPools, Onward
  <2>2. CASE StartMain
    BY <2>2 DEF StartMain, Onward, BaseTypes, ThreadTypes
  <2>3. QED
    BY <2>1, <2>2
<1>5. Pushes(MainThread, <<>>)
  BY <1>2, <1>3, NoPush DEF BaseTypes
<1>6. QED
  BY <1>1, <1>2, <1>3, <1>4, <1>5, NothingPushed, SilentStep DEF NoneSilent

\* Nobody waits in a pool whose threads were all notified, or one is awake if one was.
LEMMA WakeAllReady ==
  ASSUME NEW p, NEW at \in [Thread -> Pcs], pc' = WakeAll(p, at) PROVE Ready(p)'
<1>1. \A u \in Threads(p) : u \in Thread
  BY DEF Threads
<1>2. \A u \in Threads(p) : pc'[u] # "wait"
  BY <1>1 DEF WakeAll, Waiting
<1>3. Threads(p)' = Threads(p)
  BY DEF Threads
<1>4. QED
  BY <1>2, <1>3 DEF Ready

LEMMA WakeOneReady ==
  ASSUME BaseTypes, NEW p, pc' \in WakeOne(p, pc) PROVE Ready(p)'
<1>1. Threads(p)' = Threads(p) /\ pc \in [Thread -> Pcs]
  BY DEF Threads, BaseTypes, ThreadTypes
<1>2. CASE Waiting(p, pc) = {}
  <2>1. pc' = pc
    BY <1>2 DEF WakeOne
  <2>2. \A u \in Threads(p) : pc'[u] # "wait"
    BY <2>1, <1>2 DEF Waiting
  <2>3. QED
    BY <2>2, <1>1 DEF Ready
<1>3. CASE Waiting(p, pc) # {}
  <2>1. PICK u \in Waiting(p, pc) : pc' = [pc EXCEPT ![u] = "woken"]
    BY <1>3 DEF WakeOne
  <2>2. u \in Threads(p) /\ u \in Thread
    BY DEF Waiting, Threads
  <2>3. pc'[u] = "woken"
    BY <2>1, <2>2, <1>1
  <2>4. QED
    BY <2>2, <2>3, <1>1 DEF Ready
<1>4. QED
  BY <1>2, <1>3

LEMMA LetGoLeft ==
  ASSUME BaseTypes, TaskInv, TaskInv', LeftInv, NEW t \in Thread, LetGo(t) PROVE LeftInv'
<1> DEFINE o == Head(ops[t])
<1>0. PICK p : p = o.pool
  OBVIOUS
<1>1. ops[t] # <<>> /\ o \in OpSet /\ o.op = "unlock" /\ p \in Pool /\ Pushes(t, <<>>)
  BY <1>0, MutexOps
<1>2. /\ pool' = [pool EXCEPT ![p].owner = None] /\ pc' = WakeAll(p, pc)
      /\ group' = group /\ stack' = stack /\ status' = status
      /\ made' = made /\ terminated' = terminated
  BY <1>0 DEF LetGo, shared
<1>3. SamePools4
  BY <1>1, <1>2 DEF BaseTypes, PoolTypes, PoolState, SamePools4
<1>4. Onward
  BY <1>2, WakeFacts DEF Onward, BaseTypes, ThreadTypes
<1>5. /\ \A q : ~CallsFor(o, q) /\ ~Submits(o, q)
      /\ \A q : Unlocks(o, q) => q = p
  BY <1>0, <1>1 DEF CallsFor, Submits, Unlocks
<1>6. Keeps(t, <<>>)
  BY <1>1, <1>2, <1>5 DEF Keeps
<1>7. QueuesInv'
  <2>1. \A i \in 1..Len(<<>>) : Welcome(t, <<>>[i])
    OBVIOUS
  <2>2. QED
    BY <2>1, <1>1, <1>2, <1>3, <1>5, <1>6, QueuesKept DEF LeftInv, SamePools4
<1>8. LiveInv'
  <2>1. Ready(p)'
    BY <1>2, WakeAllReady DEF BaseTypes, ThreadTypes
  <2>2. \A q : \A u \in Threads(q) : u \in Thread
    BY DEF Threads
  <2>3. \A q \in Pool : \A u \in Threads(q) : /\ pc'[u] = "wait" => pc[u] = "wait"
                                              /\ pc[u] \in {"top", "woken"} => pc'[u] \in {"top", "woken"}
    BY <2>2, <1>4 DEF Onward
  <2>4. QED
    BY <2>1, <2>3, <1>1, <1>3, <1>5, LiveKept DEF LeftInv, AwakeInv, SamePools4
<1>9. EndInv'
  BY <1>3, <1>4, EndKept DEF LeftInv, AwakeInv, SamePools4, Onward
<1>10. SleepInv'
  <2>1. Sleepers
    BY <1>2, <1>4 DEF Onward, Sleepers
  <2>2. QED
    BY <2>1, SleepKept DEF LeftInv, AwakeInv
<1>11. QED
  BY <1>7, <1>8, <1>9, <1>10 DEF LeftInv, AwakeInv

\* A walk that has passed only tasks that cannot be taken, or are about to be notified.
LEMMA AttemptWelcome ==
  ASSUME NEW t, NEW h \in Task,
         \A j \in pool'[Home[t]].queue : Before(j, h) /\ Takeable(j)' => Pending(Home[t])'
  PROVE  Welcome(t, Attempt(h))
<1>1. PICK k : k = Attempt(h)
  OBVIOUS
<1>2. /\ k.op \in {"lock", "take"} /\ k.task = h
      /\ k.op = "lock" => k.groups = Groups[h] /\ k.last = "take"
  BY <1>1, LocksFacts DEF Attempt
<1>3. Shaped(k)
  BY <1>2 DEF Shaped
<1>4. OnWay(k)'
  BY <1>2 DEF OnWay, Submits
<1>5. Walked(t, k)'
  BY <1>2 DEF Walked, Passed
<1>6. QED
  BY <1>1, <1>3, <1>4, <1>5 DEF Welcome

LEMMA IdleWelcome ==
  ASSUME NEW t, \A j \in pool'[Home[t]].queue : Takeable(j)' => Pending(Home[t])'
  PROVE  Welcome(t, [op |-> "idle"])
<1>1. PICK k : k = [op |-> "idle"]
  OBVIOUS
<1>2. k.op = "idle"
  BY <1>1
<1>3. Shaped(k) /\ OnWay(k)'
  BY <1>2 DEF Shaped, OnWay, Submits
<1>4. Walked(t, k)'
  BY <1>2 DEF Walked, Passed
<1>5. QED
  BY <1>1, <1>3, <1>4 DEF Welcome

\* A step of a thread that is in no call.
LEMMA FreeKeeps ==
  ASSUME NEW t, NEW s, ops[t] = <<>>, group' = group, stack' = stack, status' = status
  PROVE  Keeps(t, s)
  BY DEF Keeps

LEMMA GetTaskSleeps ==
  ASSUME BaseTypes, NEW t \in Thread, GetTask(t), Waits(t) PROVE pool[Home[t]].live = FALSE
<1>1. pc \in [Thread -> Pcs] /\ pc'[t] = "wait" /\ pool[Home[t]].live \in BOOLEAN
  <2>1. Home[t] \in Pool
    BY PoolAssumption
  <2>2. pool[Home[t]] \in PoolState
    BY <2>1, PoolFacts
  <2>3. QED
    BY <2>2 DEF BaseTypes, ThreadTypes, Waits, PoolState
<1>2. \A p : WakeAll(p, [pc EXCEPT ![t] = "exited"])[t] = "exited"
  BY <1>1 DEF WakeAll, Waiting
<1>3. QED
  BY <1>1, <1>2 DEF GetTask

LEMMA GetTaskEnds ==
  ASSUME BaseTypes, NEW t \in Thread, GetTask(t), Leaves(t)
  PROVE  pool[Home[t]].running = FALSE /\ pool[Home[t]].queue = {}
<1>1. pc \in [Thread -> Pcs] /\ pool[Home[t]].running \in BOOLEAN
  <2>1. Home[t] \in Pool
    BY PoolAssumption
  <2>2. pool[Home[t]] \in PoolState
    BY <2>1, PoolFacts
  <2>3. QED
    BY <2>2 DEF BaseTypes, ThreadTypes, PoolState
<1>2. pc'[t] = "exited"
  BY <1>1 DEF Leaves, WakeAll, Waiting
<1>3. QED
  BY <1>1, <1>2 DEF GetTask

LEMMA WaitsLeft ==
  ASSUME BaseTypes, TaskInv, TaskInv', LeftInv, NEW t \in Thread, GetTask(t), Waits(t) PROVE LeftInv'
<1>1. ops[t] = <<>> /\ stack[t] = <<>>
  BY GetTaskOps
<1>2. /\ pc' = [pc EXCEPT ![t] = "wait"] /\ pool' = pool /\ ops' = ops
      /\ group' = group /\ stack' = stack /\ status' = status
      /\ made' = made /\ terminated' = terminated
  BY DEF GetTask, Waits, shared
<1>3. Pushes(t, <<>>)
  BY <1>1, <1>2, NoPush DEF BaseTypes
<1>4. QueuesInv'
  <2>1. Keeps(t, <<>>)
    BY <1>1, <1>2, FreeKeeps
  <2>2. \A i \in 1..Len(<<>>) : Welcome(t, <<>>[i])
    OBVIOUS
  <2>3. QED
    BY <2>1, <2>2, <1>1, <1>2, <1>3, QueuesKept DEF LeftInv
<1>5. LiveInv'
  <2>1. pool[Home[t]].live = FALSE
    BY GetTaskSleeps
  <2>2. ASSUME NEW q \in Pool, q # Home[t], NEW u \in Threads(q) PROVE u # t /\ u \in Thread /\ pc'[u] = pc[u]
    BY <2>2, <1>2 DEF Threads, BaseTypes, ThreadTypes
  <2>3. QED
    BY <2>1, <2>2, <1>1, <1>2, <1>3, LiveKept DEF LeftInv, AwakeInv
<1>6. EndInv'
  BY <1>2, EndKept DEF LeftInv, AwakeInv, BaseTypes, ThreadTypes
<1>7. SleepInv'
  <2>1. Sleepers
    BY <1>1, <1>2 DEF Sleepers, BaseTypes, ThreadTypes
  <2>2. QED
    BY <2>1, SleepKept DEF LeftInv, AwakeInv
<1>8. QED
  BY <1>4, <1>5, <1>6, <1>7 DEF LeftInv, AwakeInv

LEMMA LooksLeft ==
  ASSUME BaseTypes, TaskInv, TaskInv', LeftInv, NEW t \in Thread, GetTask(t), Looks(t) PROVE LeftInv'
<1>0. PICK p, k : /\ p = Home[t]
                  /\ k = IF pool[p].live /\ pool[p].queue # {} THEN Attempt(First(pool[p].queue))
                         ELSE [op |-> "idle"]
  OBVIOUS
<1>1. p \in Pool /\ ops[t] = <<>> /\ stack[t] = <<>> /\ pool[p].queue \in SUBSET Task
  BY <1>0, GetTaskOps, PoolFacts
<1>2. pc' = [pc EXCEPT ![t] = "top"] /\ pool' = [pool EXCEPT ![p].owner = t] /\ Pushes(t, <<k>>)
  BY <1>0 DEF Looks
<1>3. /\ group' = group /\ stack' = stack /\ status' = status
      /\ made' = made /\ terminated' = terminated
  BY DEF GetTask, shared
<1>4. SamePools4
  BY <1>1, <1>2 DEF BaseTypes, PoolTypes, PoolState, SamePools4
<1>5. Onward
  BY <1>2 DEF Onward, BaseTypes, ThreadTypes
<1>6. \A h : Takeable(h)' <=> Takeable(h)
  BY <1>3, SameTakeable
<1>7. pool'[p].queue = pool[p].queue
  BY <1>1, <1>4 DEF SamePools4
<1>8. Welcome(t, k)
  <2>1. CASE pool[p].live /\ pool[p].queue # {}
    <3>1. PICK h : h = First(pool[p].queue)
      OBVIOUS
    <3>2. h \in pool[p].queue /\ h \in Task /\ \A j \in pool[p].queue \ {h} : Before(h, j)
      BY <3>1, <2>1, <1>1, FirstOf
    <3>3. \A j \in pool[p].queue : ~Before(j, h)
      BY <3>2, <1>1, BeforeTotal
    <3>4. k = Attempt(h)
      BY <3>1, <2>1, <1>0
    <3>5. QED
      BY <3>2, <3>3, <3>4, <1>0, <1>7, AttemptWelcome
  <2>2. CASE ~(pool[p].live /\ pool[p].queue # {})
    <3>1. ASSUME NEW j \in pool[p].queue, Takeable(j) PROVE Pending(p)'
      <4>1. Pending(p)
        BY <3>1, <2>2, <1>1 DEF LeftInv, QueuesInv, WakeInv
      <4>2. QED
        BY <4>1, <1>1, <1>2, PendingKept DEF BaseTypes
    <3>2. k = [op |-> "idle"]
      BY <2>2, <1>0
    <3>3. QED
      BY <3>1, <3>2, <1>0, <1>6, <1>7, IdleWelcome
  <2>3. QED
    BY <2>1, <2>2
<1>9. Keeps(t, <<k>>)
  BY <1>1, <1>3, FreeKeeps
<1>10. QED
  BY <1>1, <1>2, <1>3, <1>4, <1>5, <1>8, <1>9, OneWelcome, PlainStep

LEMMA LeavesLeft ==
  ASSUME BaseTypes, TaskInv, TaskInv', LeftInv, NEW t \in Thread, GetTask(t), Leaves(t) PROVE LeftInv'
<1>0. PICK p, at : p = Home[t] /\ at = [pc EXCEPT ![t] = "exited"]
  OBVIOUS
<1>1. p \in Pool /\ ops[t] = <<>> /\ stack[t] = <<>>
  BY <1>0, GetTaskOps
<1>2. /\ pc' = WakeAll(p, at) /\ pool' = pool
      /\ group' = group /\ stack' = stack /\ status' = status
      /\ made' = made /\ terminated' = terminated
  BY <1>0 DEF GetTask, Leaves, shared
<1>3. PICK s : Pushes(t, s) /\ \A i \in 1..Len(s) : s[i].op = "stop"
  BY DEF Leaves
<1>4. QueuesInv'
  <2>1. Keeps(t, s)
    BY <1>1, <1>2, FreeKeeps
  <2>2. \A i \in 1..Len(s) : Welcome(t, s[i])
    BY <1>3, SilentWelcome DEF Silent
  <2>3. QED
    BY <2>1, <2>2, <1>1, <1>2, <1>3, QueuesKept DEF LeftInv
<1>5. pc \in [Thread -> Pcs] /\ at \in [Thread -> Pcs] /\ at[t] = "exited"
      /\ \A u \in Thread : u # t => at[u] = pc[u]
  BY <1>0 DEF BaseTypes, ThreadTypes, Pcs
<1>6. \A u \in Thread : pc'[u] = at[u] \/ (at[u] = "wait" /\ pc'[u] = "woken")
  BY <1>2, <1>5, WakeFacts
<1>7. LiveInv'
  <2>1. Ready(p)'
    BY <1>2, <1>5, WakeAllReady
  <2>2. ASSUME NEW q \in Pool, q # p, NEW u \in Threads(q)
        PROVE /\ pc'[u] = "wait" => pc[u] = "wait"
              /\ pc[u] \in {"top", "woken"} => pc'[u] \in {"top", "woken"}
    <3>1. u # t /\ u \in Thread
      BY <2>2, <1>0 DEF Threads
    <3>2. QED
      BY <3>1, <1>5, <1>6
  <2>3. QED
    BY <2>1, <2>2, <1>1, <1>2, <1>3, LiveKept DEF LeftInv, AwakeInv
<1>8. EndInv'
  <2>1. pool[p].running = FALSE /\ pool[p].queue = {}
    BY <1>0, GetTaskEnds
  <2>2. QED
    BY <2>1, <1>0, <1>2, <1>5, <1>6, EndKept DEF LeftInv, AwakeInv
<1>9. SleepInv'
  <2>1. Sleepers
    BY <1>1, <1>2, <1>5, <1>6 DEF Sleepers
  <2>2. QED
    BY <2>1, SleepKept DEF LeftInv, AwakeInv
<1>10. QED
  BY <1>4, <1>7, <1>8, <1>9 DEF LeftInv, AwakeInv

LEMMA GetTaskLeft ==
  ASSUME BaseTypes, TaskInv, TaskInv', LeftInv, NEW t \in Thread, GetTask(t) PROVE LeftInv'
  BY GetTaskOps, WaitsLeft, LooksLeft, LeavesLeft

LEMMA BecomeIdleLeft ==
  ASSUME BaseTypes, TaskInv, TaskInv', CountInv, LeftInv, NEW t \in Thread, BecomeIdle(t) PROVE LeftInv'
<1>0. PICK p : p = Home[t]
  OBVIOUS
<1>1. /\ ops[t] # <<>> /\ Head(ops[t]) \in OpSet /\ Head(ops[t]).op = "idle" /\ p \in Pool
      /\ Pushes(t, ForEach(Sorted(Fresh(t)), SubmitCall))
      /\ status' = [h \in Task |-> IF h \in Fresh(t) THEN "submitted" ELSE status[h]]
  BY <1>0, BecomeIdleOps
<1>2. Fresh(t) \in SUBSET Task /\ \A h \in Fresh(t) : status[h] = "new"
  BY FreshType
<1>3. PICK s : Pushes(t, s) /\ \A i \in 1..Len(s) : Silent(s[i])
  <2>1. PICK s, q : s = ForEach(Sorted(Fresh(t)), SubmitCall) /\ q = Sorted(Fresh(t))
    OBVIOUS
  <2>2. \A i \in 1..Len(s) : s[i] = SubmitCall(q[i])
    BY <2>1, <1>2, SubmitCalls
  <2>3. \A i \in 1..Len(s) : Silent(s[i])
    BY <2>2, SubmitCallFacts DEF Silent
  <2>4. QED
    BY <2>1, <2>3, <1>1
<1>4. /\ \A q \in Pool \ {p} : pool'[q] = pool[q]
      /\ pool'[p].queue = pool[p].queue
  BY <1>0, BecomeIdlePool
<1>5. pool'[p].live = FALSE /\ pool'[p].accept = pool[p].accept /\ pool'[p].running = pool[p].running
  <2>1. PICK n, b : pool' = [pool EXCEPT ![p] = [pool[p] EXCEPT !.live = FALSE, !.active = n, !.idle = b,
                                                               !.owner = None]]
    BY <1>0 DEF BecomeIdle
  <2>2. pool[p] \in PoolState /\ pool \in [Pool -> PoolState]
    BY <1>1, PoolFacts DEF BaseTypes, PoolTypes
  <2>3. PICK P : P = [pool[p] EXCEPT !.live = FALSE, !.active = n, !.idle = b, !.owner = None]
    OBVIOUS
  <2>4. P.live = FALSE /\ P.accept = pool[p].accept /\ P.running = pool[p].running
    BY <2>2, <2>3 DEF PoolState
  <2>5. pool'[p] = P
    BY <2>1, <2>2, <2>3, <1>1
  <2>6. QED
    BY <2>4, <2>5
<1>6. /\ group' = group /\ stack' = stack /\ made' = made /\ terminated' = terminated
      /\ \E x \in {"wait", "top"} : pc' = [pc EXCEPT ![t] = x]
  BY DEF BecomeIdle, shared
<1>7. \A q : ~CallsFor(Head(ops[t]), q) /\ ~Unlocks(Head(ops[t]), q) /\ ~Submits(Head(ops[t]), q)
  BY <1>1 DEF CallsFor, Unlocks, Submits
<1>8. \A u \in Thread : u # t => pc'[u] = pc[u]
  BY <1>6 DEF BaseTypes, ThreadTypes
<1>9. QueuesInv'
  <2>1. Keeps(t, s)
    BY <1>1, <1>2, <1>6, <1>7 DEF Keeps
  <2>2. \A i \in 1..Len(s) : Welcome(t, s[i])
    BY <1>3, SilentWelcome
  <2>3. \A h \in pool[p].queue : Takeable(h) => Pending(p)
    <3>1. Walked(t, Head(ops[t]))
      BY <1>1, HeadInv DEF LeftInv, QueuesInv, WalkInv, BaseTypes, TaskInv
    <3>2. QED
      BY <3>1, <1>0, <1>1 DEF Walked, Passed
  <2>4. \A q \in Pool : pool'[q].queue = pool[q].queue
    BY <1>4
  <2>5. \A q \in Pool : pool[q].live =>
            pool'[q].live \/ \A h \in pool[q].queue : Takeable(h) => Pending(q)
    BY <2>3, <1>4
  <2>6. QED
    BY <2>1, <2>2, <2>4, <2>5, <1>3, <1>6, <1>7, QueuesKept DEF LeftInv
<1>10. LiveInv'
  <2>1. ASSUME NEW q \in Pool, q # p, NEW u \in Threads(q) PROVE pc'[u] = pc[u]
    BY <2>1, <1>0, <1>8 DEF Threads
  <2>2. QED
    BY <2>1, <1>3, <1>4, <1>5, <1>7, LiveKept DEF LeftInv, AwakeInv
<1>11. EndInv'
  <2>1. \A u \in Thread : pc'[u] = "exited" => pc[u] = "exited"
    BY <1>6, <1>8 DEF BaseTypes, ThreadTypes
  <2>2. \A q \in Pool : /\ pool'[q].queue = pool[q].queue
                        /\ pool'[q].accept = pool[q].accept /\ pool'[q].running = pool[q].running
    BY <1>4, <1>5
  <2>3. QED
    BY <2>1, <2>2, EndKept DEF LeftInv, AwakeInv
<1>12. SleepInv'
  <2>1. stack[t] = <<>>
    BY <1>1, HeadPlaced DEF CountInv, Placed, AtPool
  <2>2. Sleepers
    BY <2>1, <1>6, <1>8 DEF Sleepers
  <2>3. QED
    BY <2>2, SleepKept DEF LeftInv, AwakeInv
<1>13. QED
  BY <1>9, <1>10, <1>11, <1>12 DEF LeftInv, AwakeInv

-----------------------------------------------------------------------------
(* The steps that notify, run and end a task.                                          *)
\* A pool is made live, and one of its threads is woken.
LEMMA WokenAwake ==
  ASSUME BaseTypes, AwakeInv, NEW t \in Thread, NEW s, Pushes(t, s), NEW p \in Pool,
         \A q \in Pool \ {p} : pool'[q] = pool[q],
         pool'[p].running = pool[p].running, pool'[p].accept = pool[p].accept,
         ~pool[p].accept => pool'[p].queue = pool[p].queue,
         pc' \in WakeOne(p, pc), stack' = stack, ops[t] # <<>> => Head(ops[t]).op # "unlock"
  PROVE  AwakeInv'
<1>1. \A u \in Thread : pc'[u] = pc[u] \/ (pc[u] = "wait" /\ pc'[u] = "woken")
  BY WakeFacts DEF BaseTypes, ThreadTypes
<1>2. LiveInv'
  <2>1. Ready(p)'
    BY WakeOneReady
  <2>2. \A q : \A u \in Threads(q) : u \in Thread
    BY DEF Threads
  <2>3. \A q \in Pool : \A u \in Threads(q) : /\ pc'[u] = "wait" => pc[u] = "wait"
                                              /\ pc[u] \in {"top", "woken"} => pc'[u] \in {"top", "woken"}
    BY <1>1, <2>2
  <2>4. \A q : ~(ops[t] # <<>> /\ Unlocks(Head(ops[t]), q))
    BY DEF Unlocks
  <2>5. QED
    BY <2>1, <2>3, <2>4, LiveKept DEF AwakeInv
<1>3. EndInv'
  BY <1>1, EndKept DEF AwakeInv
<1>4. SleepInv'
  <2>1. Sleepers
    BY <1>1 DEF Sleepers
  <2>2. QED
    BY <2>1, SleepKept DEF AwakeInv
<1>5. QED
  BY <1>2, <1>3, <1>4 DEF AwakeInv

LEMMA NotifyLeft ==
  ASSUME BaseTypes, TaskInv, TaskInv', LeftInv, NEW t \in Thread, Notify(t) PROVE LeftInv'
<1> DEFINE o == Head(ops[t])
<1>0. PICK p, C : p = o.pool /\ C = ClearIdle(pool[p], o.clear)
  OBVIOUS
<1>1. ops[t] # <<>> /\ o \in OpSet /\ o.op = "notify" /\ p \in Pool /\ Pushes(t, <<>>)
  BY <1>0, NotifyOps
<1>2. /\ pool' = [pool EXCEPT ![p] = [C EXCEPT !.live = TRUE]] /\ pool[p].owner = None
      /\ group' = group /\ stack' = stack /\ status' = status /\ pc' \in WakeOne(p, pc)
      /\ made' = made /\ terminated' = terminated
  BY <1>0 DEF Notify, Unlocked, shared
<1>3. /\ \A q \in Pool \ {p} : pool'[q] = pool[q]
      /\ pool'[p].queue = pool[p].queue /\ pool'[p].live = TRUE
      /\ pool'[p].accept = pool[p].accept /\ pool'[p].running = pool[p].running
  <2>1. C \in PoolState /\ C.queue = pool[p].queue /\ C.accept = pool[p].accept
        /\ C.running = pool[p].running
    BY <1>0, <1>1, PoolFacts, Clearing
  <2>2. PICK P : P = [C EXCEPT !.live = TRUE]
    OBVIOUS
  <2>3. P.queue = C.queue /\ P.live = TRUE /\ P.accept = C.accept /\ P.running = C.running
    BY <2>1, <2>2 DEF PoolState
  <2>4. pool'[p] = P /\ \A q \in Pool \ {p} : pool'[q] = pool[q]
    BY <1>1, <1>2, <2>2 DEF BaseTypes, PoolTypes
  <2>5. QED
    BY <2>1, <2>3, <2>4
<1>4. /\ \A q : CallsFor(o, q) => q = p
      /\ \A q : ~Submits(o, q)
  BY <1>0, <1>1 DEF CallsFor, Submits
<1>5. QueuesInv'
  <2>1. Keeps(t, <<>>)
    BY <1>1, <1>2, <1>4 DEF Keeps
  <2>2. \A i \in 1..Len(<<>>) : Welcome(t, <<>>[i])
    OBVIOUS
  <2>3. /\ \A q \in Pool : pool'[q].queue = pool[q].queue
        /\ \A q \in Pool : pool[q].live => pool'[q].live
        /\ \A q \in Pool : CallsFor(o, q) => pool'[q].live /\ pool[q].owner = None
    BY <1>2, <1>3, <1>4
  <2>4. QED
    BY <2>1, <2>2, <2>3, <1>1, <1>2, QueuesKept DEF LeftInv
<1>6. AwakeInv'
  BY <1>1, <1>2, <1>3, WokenAwake DEF LeftInv
<1>7. QED
  BY <1>5, <1>6 DEF LeftInv

-----------------------------------------------------------------------------
(* The steps that begin and end a task.                                                *)
\* One task changes hands; the others stay who they are.
LEMMA HolderMoved ==
  ASSUME BaseTypes, TaskInv, HolderInv, NEW t \in Thread, NEW s, Pushes(t, s), NEW h \in Task,
         group' = group,
         \A j \in Task \ {h} : /\ status[j] = "queued" => status'[j] = "queued"
                               /\ Active(j) => Active(j)',
         ops[t] # <<>> => \A j \in Task \ {h} : /\ ~Submits(Head(ops[t]), j)
                                                /\ ~Frees(Head(ops[t]), j)
                                                /\ ~HasLocks(Head(ops[t]), j),
         \A g \in Group : h \in group[g].queue /\ Groups[h] = <<g>> =>
            /\ status'[h] = "queued" \/ Active(h)' \/ InCall(h)'
            /\ h \in group[g].locked => Active(h)' \/ Holds(h)'
  PROVE  HolderInv'
<1> SUFFICES ASSUME NEW g \in Group, NEW j \in group[g].queue
             PROVE /\ Groups[j] = <<g>>
                   /\ status'[j] = "queued" \/ Active(j)' \/ InCall(j)'
                   /\ j \in group[g].locked => Active(j)' \/ Holds(j)'
  BY DEF HolderInv
<1>1. j \in Task
  BY DEF BaseTypes, GroupTypes, GroupState
<1>2. Groups[j] = <<g>>
  BY DEF HolderInv
<1>3. CASE j = h
  BY <1>2, <1>3
<1>4. CASE j # h
  <2>1. Holds(j) => Holds(j)'
    BY <1>1, <1>4, HoldsKept DEF BaseTypes
  <2>2. InCall(j) => InCall(j)'
    BY <1>1, <1>4, InCallKept DEF BaseTypes
  <2>3. QED
    BY <1>1, <1>2, <1>4, <2>1, <2>2 DEF HolderInv
<1>5. QED
  BY <1>3, <1>4

\* Tasks leave queues, and nobody's notification is taken.
LEMMA FewerQueued ==
  ASSUME BaseTypes, TaskInv, TaskInv', QueuesInv, NEW t \in Thread, NEW s, Pushes(t, s), HolderInv',
         group' = group, made' = made, terminated' = terminated,
         \A p \in Pool : /\ pool'[p].queue \subseteq pool[p].queue
                         /\ pool[p].live => pool'[p].live,
         \A h \in Task : status'[h] = "queued" =>
            status[h] = "queued" /\ (h \in pool[Target[h]].queue => h \in pool'[Target[h]].queue),
         ops[t] # <<>> => \A p \in Pool : ~CallsFor(Head(ops[t]), p),
         \A i \in 1..Len(s) : Welcome(t, s[i])
  PROVE  QueuesInv'
<1>1. /\ \A i \in 1..Len(s) : Shaped(s[i])
      /\ \A i \in 1..Len(s) : OnWay(s[i])'
      /\ \A i \in 1..Len(s) : Walked(t, s[i])'
  BY DEF Welcome
<1>2. ShapeInv'
  BY <1>1, ShapeKept DEF QueuesInv
<1>3. HandleInv'
  <2>1. \A h : Handled(h)' <=> Handled(h)
    BY DEF Handled
  <2>2. QED
    BY <1>1, <2>1, HandleKept DEF QueuesInv
<1>4. WindowInv'
  BY WindowSame DEF QueuesInv
<1>5. WakeInv' /\ WalkInv'
  <2>1. \A h : Takeable(h)' <=> Takeable(h)
    BY SameTakeable
  <2>2. \A p \in Pool : \A h \in pool'[p].queue : Takeable(h)' => h \in pool[p].queue /\ Takeable(h)
    BY <2>1
  <2>3. QED
    BY <1>1, <2>2, ScanKept DEF QueuesInv
<1>6. QED
  BY <1>2, <1>3, <1>4, <1>5 DEF QueuesInv

\* The threads are where they were.
LEMMA QuietAwake ==
  ASSUME BaseTypes, AwakeInv, NEW t \in Thread, NEW s, Pushes(t, s), pc' = pc,
         \A p \in Pool : /\ pool'[p].queue \subseteq pool[p].queue /\ pool'[p].live = pool[p].live
                         /\ pool'[p].accept = pool[p].accept /\ pool'[p].running = pool[p].running,
         \A u \in Thread : pc[u] \in {"wait", "woken", "exited"} => stack'[u] = stack[u],
         ops[t] # <<>> => Head(ops[t]).op # "unlock"
  PROVE  AwakeInv'
<1>1. LiveInv'
  <2>1. \A q : ~(ops[t] # <<>> /\ Unlocks(Head(ops[t]), q))
    BY DEF Unlocks
  <2>2. QED
    BY <2>1, LiveKept DEF AwakeInv
<1>2. EndInv'
  <2>1. \A u \in Thread : Home[u] \in Pool
    BY PoolAssumption
  <2>2. QED
    BY <2>1, EndKept DEF AwakeInv
<1>3. SleepInv'
  <2>1. Sleepers
    BY DEF Sleepers
  <2>2. QED
    BY <2>1, SleepKept DEF AwakeInv
<1>4. QED
  BY <1>1, <1>2, <1>3 DEF AwakeInv

LEMMA ActivePush ==
  ASSUME BaseTypes, NEW t \in Thread, NEW h \in Task, stack' = [stack EXCEPT ![t] = <<h>> \o stack[t]]
  PROVE  Active(h)' /\ \A j : Active(j) => Active(j)'
<1> DEFINE r == <<h>> \o stack[t]
<1>1. stack \in [Thread -> Seq(Task)]
  BY DEF BaseTypes, ThreadTypes
<1>2. /\ Len(stack[t]) \in Nat /\ Len(r) = 1 + Len(stack[t])
      /\ \A i \in 1..(1 + Len(stack[t])) : r[i] = IF i <= 1 THEN <<h>>[i] ELSE stack[t][i - 1]
  <2>1. <<h>> \in Seq(Task) /\ Len(<<h>>) = 1
    OBVIOUS
  <2>2. QED
    BY <1>1, <2>1, ConcatProperties, LenProperties
<1>3. stack'[t] = r /\ \A u \in Thread : u # t => stack'[u] = stack[u]
  BY <1>1
<1> HIDE DEF r
<1>4. Active(h)'
  <2>1. 1 \in 1..Len(r) /\ r[1] = h
    BY <1>2
  <2>2. Contains(stack'[t], h)
    BY <2>1, <1>3 DEF Contains
  <2>3. QED
    BY <2>2 DEF Active
<1>5. ASSUME NEW j, Active(j) PROVE Active(j)'
  <2>0. PICK u \in Thread : Contains(stack[u], j)
    BY <1>5 DEF Active
  <2>1. PICK i \in 1..Len(stack[u]) : stack[u][i] = j
    BY <2>0 DEF Contains
  <2>2. CASE u # t
    BY <2>0, <2>2, <1>3 DEF Active
  <2>3. CASE u = t
    <3>1. i + 1 \in 1..Len(r) /\ r[i + 1] = j
      BY <2>1, <2>3, <1>2
    <3>2. Contains(stack'[t], j)
      BY <3>1, <1>3 DEF Contains
    <3>3. QED
      BY <3>2 DEF Active
  <2>4. QED
    BY <2>2, <2>3
<1>6. QED
  BY <1>4, <1>5

LEMMA ActiveOne ==
  ASSUME BaseTypes, NEW t \in Thread, NEW h \in Task, stack[t] = <<>>, stack' = [stack EXCEPT ![t] = <<h>>]
  PROVE  Active(h)' /\ \A j : Active(j) => Active(j)'
<1>1. stack'[t] = <<h>> /\ \A u \in Thread : u # t => stack'[u] = stack[u]
  BY DEF BaseTypes, ThreadTypes
<1>2. Contains(stack'[t], h)
  <2>1. 1 \in 1..Len(<<h>>) /\ <<h>>[1] = h
    OBVIOUS
  <2>2. QED
    BY <2>1, <1>1 DEF Contains
<1>3. ASSUME NEW j, Active(j) PROVE Active(j)'
  <2>1. PICK u \in Thread : Contains(stack[u], j)
    BY <1>3 DEF Active
  <2>2. u # t
    BY <2>1 DEF Contains
  <2>3. QED
    BY <2>1, <2>2, <1>1 DEF Active
<1>4. QED
  BY <1>2, <1>3 DEF Active

LEMMA ActivePop ==
  ASSUME BaseTypes, NEW t \in Thread, stack[t] # <<>>, stack' = [stack EXCEPT ![t] = Tail(stack[t])],
         NEW j, j # Head(stack[t]), Active(j)
  PROVE  Active(j)'
<1> DEFINE r == Tail(stack[t])
<1>1. stack \in [Thread -> Seq(Task)]
  BY DEF BaseTypes, ThreadTypes
<1>2. /\ Len(stack[t]) \in Nat /\ Len(r) = Len(stack[t]) - 1 /\ Head(stack[t]) = stack[t][1]
      /\ \A i \in 1..Len(r) : r[i] = stack[t][i + 1]
  BY <1>1, HeadTailProperties, LenProperties
<1>3. stack'[t] = r /\ \A u \in Thread : u # t => stack'[u] = stack[u]
  BY <1>1
<1> HIDE DEF r
<1>0. PICK u \in Thread : Contains(stack[u], j)
  BY DEF Active
<1>4. PICK i \in 1..Len(stack[u]) : stack[u][i] = j
  BY <1>0 DEF Contains
<1>5. CASE u # t
  BY <1>0, <1>3, <1>5 DEF Active
<1>6. CASE u = t
  <2>1. i # 1
    BY <1>2, <1>4, <1>6
  <2>2. i - 1 \in 1..Len(r) /\ (i - 1) + 1 = i
    BY <2>1, <1>2, <1>4, <1>6
  <2>3. r[i - 1] = j
    BY <2>2, <1>2, <1>4, <1>6
  <2>4. Contains(stack'[t], j)
    BY <2>2, <2>3, <1>3 DEF Contains
  <2>5. QED
    BY <2>4 DEF Active
<1>7. QED
  BY <1>5, <1>6

LEMMA RunInlineLeft ==
  ASSUME BaseTypes, TaskInv, TaskInv', CountInv, LeftInv, NEW t \in Thread, RunInline(t) PROVE LeftInv'
<1> DEFINE o == Head(ops[t])
<1>0. PICK h : h = o.task
  OBVIOUS
<1>1. /\ ops[t] # <<>> /\ o \in OpSet /\ o.op = "inline" /\ h \in Task /\ h \in Inline
      /\ Pushes(t, <<>>)
  BY <1>0, RunInlineOps
<1>2. /\ stack' = [stack EXCEPT ![t] = <<h>> \o stack[t]]
      /\ status' = [status EXCEPT ![h] = "running"]
      /\ group' = group /\ pool' = pool /\ pc' = pc /\ made' = made /\ terminated' = terminated
  BY <1>0 DEF RunInline, shared
<1>3. \A j \in Task : status'[j] = IF j = h THEN "running" ELSE status[j]
  BY <1>2 DEF BaseTypes, StatusTypes
<1>4. Active(h)' /\ \A j : Active(j) => Active(j)'
  BY <1>1, <1>2, ActivePush
<1>5. /\ Submits(o, h)
      /\ \A j : j # h => ~Submits(o, j) /\ ~Frees(o, j) /\ ~HasLocks(o, j)
      /\ \A p : ~CallsFor(o, p)
  BY <1>0, <1>1 DEF Submits, Frees, HasLocks, CallsFor
<1>6. HolderInv'
  BY <1>1, <1>2, <1>3, <1>4, <1>5, HolderMoved DEF LeftInv, QueuesInv
<1>7. QueuesInv'
  <2>1. \A i \in 1..Len(<<>>) : Welcome(t, <<>>[i])
    OBVIOUS
  <2>2. \A j \in Task : status'[j] = "queued" => status[j] = "queued"
    BY <1>3
  <2>3. \A p \in Pool : pool'[p].queue \subseteq pool[p].queue /\ (pool[p].live => pool'[p].live)
    BY <1>2
  <2>4. QED
    BY <2>1, <2>2, <2>3, <1>1, <1>2, <1>5, <1>6, FewerQueued DEF LeftInv
<1>8. AwakeInv'
  <2>1. Placed(t, o)
    BY <1>1, HeadPlaced DEF CountInv
  <2>2. stack[t] # <<>> \/ pc[t] = "setup"
    BY <2>1, <1>1, <1>5 DEF Placed
  <2>3. pc[t] \notin {"wait", "woken", "exited"}
    BY <2>2 DEF LeftInv, AwakeInv, SleepInv
  <2>4. \A u \in Thread : u # t => stack'[u] = stack[u]
    BY <1>2
  <2>5. QED
    BY <2>3, <2>4, <1>1, <1>2, QuietAwake DEF LeftInv
<1>9. QED
  BY <1>7, <1>8 DEF LeftInv

LEMMA TakeTaskLeft ==
  ASSUME BaseTypes, TaskInv, TaskInv', CountInv, LeftInv, NEW t \in Thread, TakeTask(t) PROVE LeftInv'
<1> DEFINE o == Head(ops[t])
<1>0. PICK h, p : h = o.task /\ p = Home[t]
  OBVIOUS
<1>1. /\ ops[t] # <<>> /\ o \in OpSet /\ o.op = "take" /\ h \in Task /\ p \in Pool
      /\ Pushes(t, <<>>)
  BY <1>0, TakeTaskOps
<1>2. /\ stack' = [stack EXCEPT ![t] = <<h>>] /\ status' = [status EXCEPT ![h] = "running"]
      /\ group' = group /\ pc' = pc /\ made' = made /\ terminated' = terminated
  BY <1>0 DEF TakeTask, shared
<1>3. \A j \in Task : status'[j] = IF j = h THEN "running" ELSE status[j]
  BY <1>2 DEF BaseTypes, StatusTypes
<1>4. /\ \A q \in Pool \ {p} : pool'[q] = pool[q]
      /\ pool'[p].queue = pool[p].queue \ {h}
  BY <1>0, TakeTaskPool
<1>5. pool'[p].live = pool[p].live /\ pool'[p].accept = pool[p].accept
      /\ pool'[p].running = pool[p].running
  <2>1. PICK C : C = ClearIdle(pool[p], TRUE)
    OBVIOUS
  <2>2. PICK Q, n : pool' = [pool EXCEPT ![p] = [C EXCEPT !.queue = Q, !.owner = None, !.active = n]]
    BY <2>1, <1>0 DEF TakeTask
  <2>3. PICK P : P = [C EXCEPT !.queue = Q, !.owner = None, !.active = n]
    OBVIOUS
  <2>4. pool[p] \in PoolState /\ C \in PoolState /\ C.accept = pool[p].accept /\ C.running = pool[p].running
    BY <2>1, <1>1, PoolFacts, Clearing
  <2>5. C.live = pool[p].live
    <3>1. PICK b : C = [pool[p] EXCEPT !.idle = b]
      BY <2>1 DEF ClearIdle
    <3>2. QED
      BY <3>1, <2>4 DEF PoolState
  <2>6. P.live = C.live /\ P.accept = C.accept /\ P.running = C.running
    BY <2>3, <2>4 DEF PoolState
  <2>7. pool'[p] = P
    BY <2>2, <2>3, <1>1 DEF BaseTypes, PoolTypes
  <2>8. QED
    BY <2>4, <2>5, <2>6, <2>7
<1>6. Placed(t, o) /\ AtPool(o)
  BY <1>1, HeadPlaced DEF CountInv, AtPool
<1>7. stack[t] = <<>> /\ pc[t] = "top"
  BY <1>6 DEF Placed
<1>8. Active(h)' /\ \A j : Active(j) => Active(j)'
  BY <1>1, <1>2, <1>7, ActiveOne
<1>9. /\ \A j : ~Submits(o, j) /\ ~Frees(o, j) /\ (j # h => ~HasLocks(o, j))
      /\ \A q : ~CallsFor(o, q)
  BY <1>0, <1>1 DEF Submits, Frees, HasLocks, CallsFor
<1>10. HolderInv'
  BY <1>1, <1>2, <1>3, <1>8, <1>9, HolderMoved DEF LeftInv, QueuesInv
<1>11. QueuesInv'
  <2>1. \A i \in 1..Len(<<>>) : Welcome(t, <<>>[i])
    OBVIOUS
  <2>2. \A j \in Task : status'[j] = "queued" =>
            status[j] = "queued" /\ (j \in pool[Target[j]].queue => j \in pool'[Target[j]].queue)
    <3> SUFFICES ASSUME NEW j \in Task, status'[j] = "queued"
                 PROVE  status[j] = "queued" /\ (j \in pool[Target[j]].queue => j \in pool'[Target[j]].queue)
      OBVIOUS
    <3>1. j # h /\ status[j] = "queued" /\ Target[j] \in Pool
      BY <1>3, TaskFacts
    <3>2. QED
      BY <3>1, <1>4
  <2>3. \A q \in Pool : pool'[q].queue \subseteq pool[q].queue /\ (pool[q].live => pool'[q].live)
    BY <1>4, <1>5
  <2>4. QED
    BY <2>1, <2>2, <2>3, <1>1, <1>2, <1>9, <1>10, FewerQueued DEF LeftInv
<1>12. AwakeInv'
  <2>1. \A u \in Thread : u # t => stack'[u] = stack[u]
    BY <1>2
  <2>2. \A q \in Pool : /\ pool'[q].queue \subseteq pool[q].queue /\ pool'[q].live = pool[q].live
                        /\ pool'[q].accept = pool[q].accept /\ pool'[q].running = pool[q].running
    BY <1>4, <1>5
  <2>3. QED
    BY <2>1, <2>2, <1>1, <1>2, <1>7, QuietAwake DEF LeftInv
<1>13. QED
  BY <1>11, <1>12 DEF LeftInv

\* The release of a task that is destroyed.
LEMMA ReleasesOf ==
  ASSUME NEW h \in Task
  PROVE  LET s == Releases(h, Groups[h]) IN
         /\ Groups[h] # <<>> => 1 \in 1..Len(s) /\ Frees(s[1], h) /\ HasLocks(s[1], h)
         /\ \A t : \A i \in 1..Len(s) : Welcome(t, s[i])
<1>1. PICK k : k = [op |-> "release", task |-> h, groups |-> Groups[h]]
  OBVIOUS
<1>2. k.op = "release" /\ k.task = h /\ k.groups = Groups[h]
  BY <1>1
<1>3. Frees(k, h) /\ HasLocks(k, h)
  BY <1>2 DEF Frees, HasLocks
<1>4. ASSUME NEW t PROVE Welcome(t, k)
  <2>1. Shaped(k)
    BY <1>2 DEF Shaped
  <2>2. OnWay(k)'
    BY <1>2 DEF OnWay, Submits
  <2>3. Walked(t, k)'
    BY <1>2 DEF Walked, Passed
  <2>4. QED
    BY <2>1, <2>2, <2>3 DEF Welcome
<1>5. CASE Groups[h] = <<>>
  <2>1. Releases(h, Groups[h]) = <<>>
    BY <1>5 DEF Releases
  <2>2. QED
    BY <2>1, <1>5
<1>6. CASE Groups[h] # <<>>
  <2>1. Releases(h, Groups[h]) = <<k>>
    BY <1>1, <1>6 DEF Releases
  <2>2. QED
    BY <2>1, <1>3, <1>4
<1>7. QED
  BY <1>5, <1>6

LEMMA FinishLeft ==
  ASSUME BaseTypes, TaskInv, TaskInv', LeftInv, NEW t \in Thread, Finish(t) PROVE LeftInv'
<1>0. PICK h, s : h = Head(stack[t]) /\ s = Releases(h, Groups[h])
  OBVIOUS
<1>1. ops[t] = <<>> /\ stack[t] # <<>> /\ h \in Task /\ Pushes(t, s)
  BY <1>0, FinishOps
<1>2. /\ stack' = [stack EXCEPT ![t] = Tail(stack[t])] /\ status' = [status EXCEPT ![h] = "done"]
      /\ group' = group /\ pool' = pool /\ pc' = pc /\ made' = made /\ terminated' = terminated
  BY <1>0 DEF Finish, shared
<1>3. \A j \in Task : status'[j] = IF j = h THEN "done" ELSE status[j]
  BY <1>2 DEF BaseTypes, StatusTypes
<1>4. \A j : j # h /\ Active(j) => Active(j)'
  BY <1>0, <1>1, <1>2, ActivePop
<1>5. \A i \in 1..Len(s) : Welcome(t, s[i])
  BY <1>0, <1>1, ReleasesOf
<1>6. ASSUME NEW g, Groups[h] = <<g>> PROVE InCall(h)' /\ Holds(h)'
  <2>1. Groups[h] # <<>>
    BY <1>6
  <2>2. 1 \in 1..Len(s) /\ Frees(s[1], h) /\ HasLocks(s[1], h)
    BY <2>1, <1>0, <1>1, ReleasesOf
  <2>3. QED
    BY <2>2, <1>1, InCallNew, HoldsNew DEF BaseTypes
<1>7. HolderInv'
  BY <1>1, <1>2, <1>3, <1>4, <1>6, HolderMoved DEF LeftInv, QueuesInv
<1>8. QueuesInv'
  <2>1. \A j \in Task : status'[j] = "queued" => status[j] = "queued"
    BY <1>3
  <2>2. \A p \in Pool : pool'[p].queue \subseteq pool[p].queue /\ (pool[p].live => pool'[p].live)
    BY <1>2
  <2>3. QED
    BY <2>1, <2>2, <1>1, <1>2, <1>5, <1>7, FewerQueued DEF LeftInv
<1>9. AwakeInv'
  <2>1. pc[t] \notin {"wait", "woken", "exited"}
    BY <1>1 DEF LeftInv, AwakeInv, SleepInv
  <2>2. \A u \in Thread : u # t => stack'[u] = stack[u]
    BY <1>2
  <2>3. QED
    BY <2>1, <2>2, <1>1, <1>2, QuietAwake DEF LeftInv
<1>10. QED
  BY <1>8, <1>9 DEF LeftInv

LEMMA AcceptLeft ==
  ASSUME BaseTypes, TaskInv, TaskInv', LeftInv, NEW t \in Thread, SubmitToPool(t),
         pool[Target[Head(ops[t]).task]].accept
  PROVE  LeftInv'
<1> DEFINE o == Head(ops[t])
<1>0. PICK h, p, C : h = o.task /\ p = Target[h] /\ C = ClearIdle(pool[p], o.clear)
  OBVIOUS
<1>1. /\ ops[t] # <<>> /\ o \in OpSet /\ o.op = "submit" /\ h \in Task /\ p \in Pool
      /\ Pushes(t, <<>>)
  BY <1>0, SubmitToPoolOps
<1>2. /\ pool' = [pool EXCEPT ![p] = [C EXCEPT !.queue = C.queue \union {h}, !.live = TRUE]]
      /\ pool[p].owner = None
      /\ stack' = stack /\ status' = [status EXCEPT ![h] = "queued"]
      /\ group' = group /\ pc' \in WakeOne(p, pc) /\ made' = made /\ terminated' = terminated
  BY <1>0 DEF SubmitToPool, Unlocked, shared
<1>3. /\ \A q \in Pool \ {p} : pool'[q] = pool[q]
      /\ pool'[p].queue = pool[p].queue \union {h} /\ pool'[p].live = TRUE
      /\ pool'[p].accept = pool[p].accept /\ pool'[p].running = pool[p].running
  <2>1. C \in PoolState /\ C.queue = pool[p].queue /\ C.accept = pool[p].accept
        /\ C.running = pool[p].running
    BY <1>0, <1>1, PoolFacts, Clearing
  <2>2. PICK P : P = [C EXCEPT !.queue = C.queue \union {h}, !.live = TRUE]
    OBVIOUS
  <2>3. /\ P.queue = C.queue \union {h} /\ P.live = TRUE /\ P.accept = C.accept
        /\ P.running = C.running
    BY <2>1, <2>2 DEF PoolState
  <2>4. pool'[p] = P /\ \A q \in Pool \ {p} : pool'[q] = pool[q]
    BY <1>1, <1>2, <2>2 DEF BaseTypes, PoolTypes
  <2>5. QED
    BY <2>1, <2>3, <2>4
<1>4. /\ Submits(o, h) /\ \A j : j # h => ~Submits(o, j)
      /\ \A j : ~Frees(o, j) /\ ~HasLocks(o, j)
      /\ \A q : ~CallsFor(o, q)
  BY <1>0, <1>1 DEF Submits, Frees, HasLocks, CallsFor
<1>5. \A j \in Task : status'[j] = IF j = h THEN "queued" ELSE status[j]
  BY <1>2 DEF BaseTypes, StatusTypes
<1>6. \A j : (Handled(j)' <=> Handled(j)) /\ (Housed(j)' <=> Housed(j)) /\ (Active(j)' <=> Active(j))
  BY <1>2 DEF Handled, Housed, Active
<1>7. ShapeInv'
  BY <1>1, ShapeKept DEF LeftInv, QueuesInv
<1>8. HandleInv'
  <2>1. Handled(h) /\ Housed(h)
    <3>1. OnWay(o)
      BY <1>1, HeadInv DEF LeftInv, QueuesInv, HandleInv, BaseTypes, TaskInv
    <3>2. QED
      BY <3>1, <1>1, <1>4 DEF OnWay
  <2>2. Queued(h)'
    BY <2>1, <1>0, <1>3, <1>6 DEF Queued
  <2>3. \A q \in Pool : pool[q].queue \subseteq pool'[q].queue
    BY <1>3
  <2>4. \A j \in Task : status'[j] = "queued" =>
            \/ Queued(j)'
            \/ status[j] = "queued" /\ (j \in pool[Target[j]].queue => j \in pool'[Target[j]].queue)
    BY <2>2, <2>3, <1>5, TaskFacts
  <2>5. QED
    BY <2>4, <1>1, <1>2, <1>6, HandleKept DEF LeftInv, QueuesInv
<1>9. HolderInv'
  <2>1. ASSUME NEW g \in Group, h \in group[g].queue, h \in group[g].locked PROVE Active(h)' \/ Holds(h)'
    <3>1. Active(h) \/ Holds(h)
      BY <2>1 DEF LeftInv, QueuesInv, HolderInv
    <3>2. QED
      BY <3>1, <1>1, <1>4, <1>6, HoldsKept DEF BaseTypes
  <2>2. status'[h] = "queued"
    BY <1>1, <1>5
  <2>3. QED
    BY <2>1, <2>2, <1>1, <1>2, <1>4, <1>5, <1>6, HolderMoved DEF LeftInv, QueuesInv
<1>10. WindowInv'
  BY <1>2, WindowSame DEF LeftInv, QueuesInv
<1>11. WakeInv' /\ WalkInv'
  <2>1. \A j : Takeable(j)' <=> Takeable(j)
    BY <1>2, SameTakeable
  <2>2. \A q \in Pool : \A j \in pool'[q].queue : Takeable(j)' =>
            (j \in pool[q].queue /\ Takeable(j)) \/ (pool'[q].live /\ pool[q].owner = None)
    BY <2>1, <1>2, <1>3
  <2>3. \A q \in Pool : pool[q].live => pool'[q].live
    BY <1>3
  <2>4. QED
    BY <2>2, <2>3, <1>1, <1>4, ScanKept DEF LeftInv, QueuesInv
<1>12. AwakeInv'
  <2>1. pool[p].accept
    BY <1>0
  <2>2. QED
    BY <2>1, <1>1, <1>2, <1>3, WokenAwake DEF LeftInv
<1>13. QED
  BY <1>7, <1>8, <1>9, <1>10, <1>11, <1>12 DEF LeftInv, QueuesInv

LEMMA RejectLeft ==
  ASSUME BaseTypes, TaskInv, TaskInv', LeftInv, NEW t \in Thread, SubmitToPool(t),
         ~pool[Target[Head(ops[t]).task]].accept
  PROVE  LeftInv'
<1> DEFINE o == Head(ops[t])
<1>0. PICK h, s : h = o.task /\ s = Releases(h, Groups[h])
  OBVIOUS
<1>1. /\ ops[t] # <<>> /\ o \in OpSet /\ o.op = "submit" /\ h \in Task /\ Pushes(t, s)
  BY <1>0, SubmitToPoolOps
<1>2. /\ stack' = stack /\ status' = [status EXCEPT ![h] = "dropped"] /\ pool' = pool
      /\ group' = group /\ pc' = pc /\ made' = made /\ terminated' = terminated
  BY <1>0 DEF SubmitToPool, shared
<1>3. /\ \A j : j # h => ~Submits(o, j)
      /\ \A j : ~Frees(o, j) /\ ~HasLocks(o, j)
      /\ \A q : ~CallsFor(o, q)
  BY <1>0, <1>1 DEF Submits, Frees, HasLocks, CallsFor
<1>4. \A j \in Task : status'[j] = IF j = h THEN "dropped" ELSE status[j]
  BY <1>2 DEF BaseTypes, StatusTypes
<1>5. \A j : Active(j)' <=> Active(j)
  BY <1>2 DEF Active
<1>6. \A i \in 1..Len(s) : Welcome(t, s[i])
  BY <1>0, <1>1, ReleasesOf
<1>7. ASSUME NEW g, Groups[h] = <<g>> PROVE InCall(h)' /\ Holds(h)'
  <2>1. Groups[h] # <<>>
    BY <1>7
  <2>2. 1 \in 1..Len(s) /\ Frees(s[1], h) /\ HasLocks(s[1], h)
    BY <2>1, <1>0, <1>1, ReleasesOf
  <2>3. QED
    BY <2>2, <1>1, InCallNew, HoldsNew DEF BaseTypes
<1>8. HolderInv'
  BY <1>1, <1>2, <1>3, <1>4, <1>5, <1>7, HolderMoved DEF LeftInv, QueuesInv
<1>9. QueuesInv'
  <2>1. \A j \in Task : status'[j] = "queued" => status[j] = "queued"
    BY <1>4
  <2>2. \A p \in Pool : pool'[p].queue \subseteq pool[p].queue /\ (pool[p].live => pool'[p].live)
    BY <1>2
  <2>3. QED
    BY <2>1, <2>2, <1>1, <1>2, <1>3, <1>6, <1>8, FewerQueued DEF LeftInv
<1>10. AwakeInv'
  BY <1>1, <1>2, QuietAwake DEF LeftInv
<1>11. QED
  BY <1>9, <1>10 DEF LeftInv

LEMMA SubmitToPoolLeft ==
  ASSUME BaseTypes, TaskInv, TaskInv', LeftInv, NEW t \in Thread, SubmitToPool(t) PROVE LeftInv'
  BY AcceptLeft, RejectLeft

-----------------------------------------------------------------------------
(* The tokens that are left for a handle, before and after a step of its group.        *)
Ahead(g, h) == {s \in g.queue \ g.locked : (s = h) \/ Before(s, h)}

LEMMA FreeOf ==
  ASSUME NEW g \in GroupState, NEW h
  PROVE  /\ Free(g, h) = g.tokens - Cardinality(Ahead(g, h)) /\ Free(g, h) \in Int
         /\ IsFiniteSet(Ahead(g, h)) /\ Cardinality(Ahead(g, h)) \in Nat /\ g.tokens \in Int
<1>1. Ahead(g, h) \in SUBSET Task /\ g.tokens \in Int
  BY DEF Ahead, GroupState
<1>2. IsFiniteSet(Ahead(g, h)) /\ Cardinality(Ahead(g, h)) \in Nat
  BY <1>1, FiniteTasks
<1>3. Free(g, h) = g.tokens - Cardinality(Ahead(g, h))
  BY DEF Free, Ahead
<1>4. QED
  BY <1>1, <1>2, <1>3

\* Fewer tokens or more handles ahead leave no more for h.
LEMMA FreeLess ==
  ASSUME NEW g \in GroupState, NEW k \in GroupState, NEW h,
         k.tokens <= g.tokens, Ahead(g, h) \subseteq Ahead(k, h)
  PROVE  Free(k, h) <= Free(g, h)
<1>1. Cardinality(Ahead(g, h)) <= Cardinality(Ahead(k, h))
  BY FreeOf, FS_Subset
<1>2. QED
  BY <1>1, FreeOf

LEMMA InsertFree ==
  ASSUME NEW g \in GroupState, NEW h \in Task, NEW j \in Task
  PROVE  /\ Free(Insert(g, h), j) <= Free(g, j)
         /\ j \in Insert(g, h).notified => Free(Insert(g, h), j) >= 0
         /\ Insert(g, h).queue = g.queue \union {h} /\ Insert(g, h).locked = g.locked
<1> DEFINE q == [g EXCEPT !.queue = g.queue \union {h}]
           k == Insert(g, h)
<1>1. q.tokens = g.tokens /\ q.queue = g.queue \union {h} /\ q.locked = g.locked
      /\ q.notified = g.notified /\ q \in GroupState
  BY DEF GroupState
<1>2. k = [q EXCEPT !.notified = {s \in q.notified : Free(q, s) >= 0}]
  BY DEF Insert
<1> HIDE DEF q
<1>3. /\ k.tokens = q.tokens /\ k.queue = q.queue /\ k.locked = q.locked
      /\ k.notified = {s \in q.notified : Free(q, s) >= 0} /\ k \in GroupState
  BY <1>1, <1>2 DEF GroupState
<1> HIDE DEF k
<1>4. \A s : Free(k, s) = Free(q, s)
  BY <1>3 DEF Free
<1>5. Ahead(g, j) \subseteq Ahead(k, j) /\ g.tokens \in Int
  BY <1>1, <1>3 DEF Ahead, GroupState
<1>6. Free(k, j) <= Free(g, j)
  BY <1>1, <1>3, <1>5, FreeLess
<1>7. j \in k.notified => Free(k, j) >= 0
  BY <1>3, <1>4
<1>8. QED
  BY <1>1, <1>3, <1>6, <1>7 DEF k

LEMMA LockFree ==
  ASSUME NEW g \in GroupState, NEW h \in Task, NEW j \in Task, Lockable(g, h)
  PROVE  /\ j # h => Free(Lock(g, h), j) <= Free(g, j)
         /\ j \in g.queue \ (g.locked \union {h}) /\ Free(g, j) >= 0 => Free(Lock(g, h), j) >= 0
         /\ Lock(g, h).queue = g.queue /\ Lock(g, h).locked = g.locked \union {h}
         /\ Lock(g, h).notified = g.notified
<1> DEFINE k == Lock(g, h)
<1>1. CASE h \in g.locked
  <2>1. k = g
    BY <1>1 DEF Lock
  <2>2. Free(g, j) \in Int
    BY FreeOf
  <2>3. g.locked = g.locked \union {h}
    BY <1>1
  <2>4. QED
    BY <2>1, <2>2, <2>3
<1>2. CASE h \notin g.locked
  <2>0. PICK L, n : L = g.locked \union {h} /\ n = g.tokens - 1
    OBVIOUS
  <2>1. k = [g EXCEPT !.locked = L, !.tokens = n] /\ L \in SUBSET Task /\ n \in Int
    BY <2>0, <1>2 DEF Lock, GroupState
  <2> HIDE DEF k
  <2>2. k.tokens = g.tokens - 1 /\ k.queue = g.queue /\ k.locked = g.locked \union {h}
        /\ k.notified = g.notified /\ k \in GroupState
    BY <2>0, <2>1 DEF GroupState
  <2>3. h \in g.queue /\ Free(g, h) >= 0
    BY <1>2 DEF Lockable
  <2>4. CASE j # h /\ Before(h, j)
    <3>1. Ahead(k, j) = Ahead(g, j) \ {h} /\ h \in Ahead(g, j)
      BY <2>2, <2>3, <2>4, <1>2 DEF Ahead
    <3>2. Cardinality(Ahead(k, j)) = Cardinality(Ahead(g, j)) - 1
      BY <3>1, FreeOf, FS_RemoveElement
    <3>3. Free(k, j) = Free(g, j)
      BY <3>2, <2>2, FreeOf
    <3>4. Free(g, j) \in Int
      BY FreeOf
    <3>5. QED
      BY <3>3, <3>4, <2>2 DEF k
  <2>5. CASE j # h /\ ~Before(h, j)
    <3>1. Before(j, h) /\ \A s \in Task : Before(s, j) => Before(s, h)
      BY <2>5, BeforeTotal
    <3>2. Ahead(k, j) = Ahead(g, j) /\ h \notin Ahead(g, j)
      BY <2>2, <2>5 DEF Ahead
    <3>3. Free(k, j) = Free(g, j) - 1
      BY <3>2, <2>2, FreeOf
    <3>4. Ahead(g, j) \union {h} \subseteq Ahead(g, h)
      BY <3>1, <2>3, <1>2 DEF Ahead, GroupState
    <3>5. Cardinality(Ahead(g, j) \union {h}) = Cardinality(Ahead(g, j)) + 1
      BY <3>2, FreeOf, FS_AddElement
    <3>6. Cardinality(Ahead(g, j) \union {h}) <= Cardinality(Ahead(g, h))
      BY <3>4, FreeOf, FS_Subset
    <3>7. Free(g, j) >= 1
      BY <3>5, <3>6, <2>3, FreeOf
    <3>8. Free(g, j) \in Int
      BY FreeOf
    <3>9. Free(k, j) <= Free(g, j) /\ Free(k, j) >= 0
      BY <3>3, <3>7, <3>8
    <3>10. QED
      BY <3>9, <2>2 DEF k
  <2>6. CASE j = h
    BY <2>2, <2>6 DEF k
  <2>7. QED
    BY <2>4, <2>5, <2>6
<1>3. QED
  BY <1>1, <1>2

\* A step on a group: the tasks of its queue stay whose they are, and no queued task may
\* lock that could not before, or its pool is about to be notified.
LEMMA GroupStepLeft ==
  ASSUME BaseTypes, TaskInv, TaskInv', LeftInv, NEW t \in Thread, NEW s, Pushes(t, s),
         pool' = pool, pc' = pc, stack' = stack, status' = status,
         made' = made, terminated' = terminated,
         ops[t] # <<>>, Head(ops[t]).op # "unlock", \A p \in Pool : ~CallsFor(Head(ops[t]), p),
         \A h \in Task : Handled(h) /\ status[h] \in {"submitted", "queued"} => Handled(h)',
         HolderInv', WindowInv',
         \A p \in Pool : \A h \in pool[p].queue : Takeable(h)' => Takeable(h) \/ Pending(p)',
         \A i \in 1..Len(s) : Welcome(t, s[i])
  PROVE  LeftInv'
<1>1. /\ \A i \in 1..Len(s) : Shaped(s[i])
      /\ \A i \in 1..Len(s) : OnWay(s[i])'
      /\ \A i \in 1..Len(s) : Walked(t, s[i])'
  BY DEF Welcome
<1>2. ShapeInv'
  BY <1>1, ShapeKept DEF LeftInv, QueuesInv
<1>3. HandleInv'
  BY <1>1, HandleKept DEF LeftInv, QueuesInv
<1>4. WakeInv' /\ WalkInv'
  <2>1. \A p \in Pool : \A h \in pool'[p].queue : Takeable(h)' =>
            (h \in pool[p].queue /\ Takeable(h)) \/ Pending(p)'
    OBVIOUS
  <2>2. QED
    BY <2>1, <1>1, ScanKept DEF LeftInv, QueuesInv
<1>5. AwakeInv'
  BY QuietAwake DEF LeftInv
<1>6. QED
  BY <1>2, <1>3, <1>4, <1>5 DEF LeftInv, QueuesInv

LEMMA SoleGroup ==
  ASSUME SingleGroups, NEW h \in Task, Groups[h] # <<>>
  PROVE  LET g == Head(Groups[h]) IN
         /\ g \in Group /\ Groups[h] = <<g>> /\ Tail(Groups[h]) = <<>>
         /\ Handled(h) <=> h \in group[g].queue
         /\ Takeable(h) <=> Lockable(group[g], h)
<1> DEFINE s == Groups[h]
<1>1. s \in Seq(Group) /\ s # <<>> /\ Len(s) \in Nat /\ Len(s) <= 1
  BY TaskFacts, LenProperties DEF SingleGroups
<1> HIDE DEF s
<1>2. Len(s) = 1
  <2>1. Len(s) \in Nat \ {0}
    BY <1>1, EmptySeq, Zenon
  <2>2. \A n \in Nat \ {0} : n <= 1 => n = 1
    OBVIOUS
  <2>3. QED
    BY <1>1, <2>1, <2>2, Zenon
<1>3. /\ Head(s) \in Group /\ Head(s) = s[1] /\ Tail(s) \in Seq(Group) /\ Len(Tail(s)) = 0
      /\ 1 \in 1..Len(s) /\ 1..Len(s) = {1}
  <2>1. s # <<>> /\ s[1] \in Group
    BY <1>1, <1>2, ElementOfSeq
  <2>2. /\ Head(s) = s[1] /\ Tail(s) \in Seq(Group) /\ Len(Tail(s)) = Len(s) - 1
    BY <1>1, <2>1, HeadTailProperties
  <2> HIDE DEF s
  <2>3. QED
    BY <2>1, <2>2, <1>2
<1>4. Tail(s) = <<>>
  BY <1>3, EmptySeq
<1>5. s = <<Head(s)>>
  <2>1. <<s[1]>> \in Seq(Group) /\ Len(<<s[1]>>) = 1 /\ <<s[1]>>[1] = s[1]
    BY <1>3
  <2>2. Len(s) = Len(<<s[1]>>) /\ \A i \in 1..Len(s) : s[i] = <<s[1]>>[i]
    BY <2>1, <1>2, <1>3
  <2>3. s = <<s[1]>>
    BY <2>1, <2>2, <1>1, SeqEqual
  <2>4. QED
    BY <2>3, <1>3
<1>6. /\ Handled(h) <=> h \in group[Head(s)].queue
      /\ Takeable(h) <=> Lockable(group[Head(s)], h)
  BY <1>3 DEF s, Handled, Takeable
<1>7. QED
  BY <1>3, <1>4, <1>5, <1>6 DEF s

LEMMA GroupNow ==
  ASSUME BaseTypes, NEW g \in Group, NEW x, group' = [group EXCEPT ![g] = x]
  PROVE  /\ group'[g] = x /\ \A a \in Group : a # g => group'[a] = group[a]
         /\ \A a \in Group : group[a] \in GroupState
         /\ \A a \in Group : group[a].queue \in SUBSET Task
  BY DEF BaseTypes, GroupTypes, GroupState

LEMMA HandledKept ==
  ASSUME BaseTypes, NEW g \in Group, NEW x, group' = [group EXCEPT ![g] = x], NEW h \in Task,
         h \in group[g].queue => h \in x.queue, Handled(h)
  PROVE  Handled(h)'
<1> SUFFICES ASSUME NEW i \in 1..Len(Groups[h]) PROVE h \in group'[Groups[h][i]].queue
  BY DEF Handled
<1>1. Groups[h][i] \in Group /\ h \in group[Groups[h][i]].queue
  BY TaskFacts, ElementOfSeq DEF Handled
<1>2. QED
  BY <1>1, GroupNow

LEMMA TakeableKept ==
  ASSUME BaseTypes, NEW g \in Group, NEW x, group' = [group EXCEPT ![g] = x], NEW h \in Task,
         Lockable(x, h) => Lockable(group[g], h), Takeable(h)'
  PROVE  Takeable(h)
<1> SUFFICES ASSUME NEW i \in 1..Len(Groups[h]) PROVE Lockable(group[Groups[h][i]], h)
  BY DEF Takeable
<1>1. Groups[h][i] \in Group /\ Lockable(group'[Groups[h][i]], h)
  <2>1. Groups[h][i] \in Group
    BY TaskFacts, ElementOfSeq
  <2>2. Lockable(group[Groups[h][i]], h)'
    BY DEF Takeable
  <2>3. QED
    BY <2>1, <2>2 DEF Lockable, Free
<1>2. QED
  BY <1>1, GroupNow

-----------------------------------------------------------------------------
(* The steps on groups.                                                                *)
LEMMA InsertHandleLeft ==
  ASSUME SingleGroups, GroupsInv, BaseTypes, TaskInv, TaskInv', LeftInv, NEW t \in Thread, InsertHandle(t)
  PROVE  LeftInv'
<1> DEFINE o == Head(ops[t])
<1>0. PICK h, g, k, x : h = o.task /\ g = Head(o.groups) /\ k = Submission(h, <<>>)
                        /\ x = Insert(group[g], h)
  OBVIOUS
<1>1. /\ ops[t] # <<>> /\ o \in OpSet /\ o.op = "insert" /\ h \in Task /\ o.groups # <<>> /\ g \in Group
      /\ Doing(t, o) /\ OpInv(t, o)
  BY <1>0, InsertHandleOps, HeadInv DEF GroupsOp, BaseTypes, TaskInv
<1>2. o.groups = Groups[h]
  BY <1>0, <1>1 DEF LeftInv, QueuesInv, ShapeInv, Shaped
<1>3. Groups[h] = <<g>> /\ Tail(o.groups) = <<>>
  BY <1>0, <1>1, <1>2, SoleGroup
<1>4. Pushes(t, <<k>>)
  BY <1>0, <1>3, InsertHandleOps
<1>5. /\ group' = [group EXCEPT ![g] = x] /\ pool' = pool /\ pc' = pc /\ stack' = stack
      /\ status' = status /\ made' = made /\ terminated' = terminated
  BY <1>0 DEF InsertHandle, shared
<1>6. /\ group'[g] = x /\ \A a \in Group : a # g => group'[a] = group[a]
      /\ \A a \in Group : group[a] \in GroupState /\ group[a].queue \in SUBSET Task
  BY <1>1, <1>5, GroupNow
<1>7. /\ x.queue = group[g].queue \union {h} /\ x.locked = group[g].locked
      /\ \A j \in Task : /\ Free(x, j) <= Free(group[g], j)
                         /\ j \in x.notified => Free(x, j) >= 0
  <2>1. PICK y \in GroupState : y = group[g]
    BY <1>1, <1>6
  <2>2. ASSUME NEW j \in Task
        PROVE /\ Free(x, j) <= Free(y, j) /\ (j \in x.notified => Free(x, j) >= 0)
              /\ x.queue = y.queue \union {h} /\ x.locked = y.locked
    <3>1. x = Insert(y, h)
      BY <2>1, <1>0
    <3>2. QED
      BY <3>1, <1>1, InsertFree
  <2>3. QED
    BY <2>1, <2>2, <1>1
<1>8. Submits(o, h) /\ status[h] = "submitted" /\ \A j : j # h => ~Submits(o, j)
  BY <1>0, <1>1 DEF OpInv, Submits
<1>9. /\ \A j : ~Frees(o, j) /\ ~HasLocks(o, j)
      /\ \A q : ~CallsFor(o, q)
  BY <1>1 DEF Frees, HasLocks, CallsFor
<1>10. Housed(h)' /\ Handled(h)'
  <2>1. Housed(h)
    BY <1>1, <1>8 DEF LeftInv, QueuesInv, HandleInv, OnWay
  <2>2. Housed(h)'
    BY <2>1, <1>5 DEF Housed
  <2>3. \A i \in 1..Len(<<g>>) : h \in group'[<<g>>[i]].queue
    BY <1>6, <1>7
  <2>4. QED
    BY <2>2, <2>3, <1>3 DEF Handled
<1>11. Welcome(t, k) /\ Submits(k, h)
  BY <1>0, <1>1, <1>10, SubmissionWelcome
<1>12. \A j \in Task : Handled(j) => Handled(j)'
  BY <1>1, <1>5, <1>7, HandledKept
<1>13. HolderInv'
  <2> SUFFICES ASSUME NEW a \in Group, NEW j \in group'[a].queue
               PROVE /\ Groups[j] = <<a>>
                     /\ status'[j] = "queued" \/ Active(j)' \/ InCall(j)'
                     /\ j \in group'[a].locked => Active(j)' \/ Holds(j)'
    BY DEF HolderInv
  <2>1. Active(j)' <=> Active(j)
    BY <1>5 DEF Active
  <2>2. InCall(h)'
    <3>1. 1 \in 1..Len(<<k>>) /\ Submits(<<k>>[1], h)
      BY <1>11
    <3>2. QED
      BY <3>1, <1>4, InCallNew DEF BaseTypes
  <2>3. InCall(j) => InCall(j)'
    <3>1. CASE j = h
      BY <3>1, <2>2
    <3>2. CASE j # h
      BY <3>2, <1>4, <1>8, <1>9, InCallKept DEF BaseTypes
    <3>3. QED
      BY <3>1, <3>2
  <2>4. Holds(j) => Holds(j)'
    BY <1>4, <1>9, HoldsKept DEF BaseTypes
  <2>5. group'[a].locked = group[a].locked
    BY <1>6, <1>7
  <2>6. CASE j \in group[a].queue
    BY <2>1, <2>3, <2>4, <2>5, <2>6, <1>5 DEF LeftInv, QueuesInv, HolderInv
  <2>7. CASE j \notin group[a].queue
    <3>1. a = g /\ j = h
      BY <2>7, <1>6, <1>7
    <3>2. j \notin group[a].locked
      BY <2>7 DEF GroupsInv, GroupInv
    <3>3. QED
      BY <3>1, <3>2, <2>2, <2>5, <1>3
  <2>8. QED
    BY <2>6, <2>7
<1>14. WindowInv'
  <2> SUFFICES ASSUME NEW a \in Group, NEW j \in group'[a].queue \ group'[a].locked, j \in group'[a].notified
               PROVE  Free(group'[a], j) >= 0
    BY DEF WindowInv, Free
  <2>1. CASE a = g
    <3>1. j \in Task
      BY <2>1, <1>1, <1>6, <1>7
    <3>2. QED
      BY <2>1, <3>1, <1>6, <1>7
  <2>2. CASE a # g
    <3>1. group'[a] = group[a]
      BY <2>2, <1>6
    <3>2. QED
      BY <3>1 DEF LeftInv, QueuesInv, WindowInv
  <2>3. QED
    BY <2>1, <2>2
<1>15. \A p \in Pool : \A j \in pool[p].queue : Takeable(j)' => Takeable(j)
  <2> SUFFICES ASSUME NEW p \in Pool, NEW j \in pool[p].queue, Takeable(j)' PROVE Takeable(j)
    OBVIOUS
  <2>1. j \in Task /\ j # h
    BY <1>8, PoolFacts DEF TaskInv, QueueInv
  <2>2. Lockable(x, j) => Lockable(group[g], j)
    <3>1. Free(group[g], j) \in Int /\ Free(x, j) <= Free(group[g], j)
      BY <2>1, <1>1, <1>6, <1>7, FreeOf
    <3>2. Free(x, j) \in Int
      <4>1. x \in GroupState
        BY <1>0, <1>1, <1>6, InsertType
      <4>2. QED
        BY <4>1, FreeOf
    <3>3. Free(x, j) >= 0 => Free(group[g], j) >= 0
      BY <3>1, <3>2
    <3>4. QED
      BY <3>3, <2>1, <1>7 DEF Lockable
  <2>3. QED
    BY <2>1, <2>2, <1>1, <1>5, TakeableKept
<1>16. QED
  BY <1>1, <1>4, <1>5, <1>9, <1>11, <1>12, <1>13, <1>14, <1>15, OneWelcome, GroupStepLeft

LEMMA LockTakenLeft ==
  ASSUME SingleGroups, BaseTypes, TaskInv, TaskInv', LeftInv, NEW t \in Thread, LockGroup(t),
         Lockable(group[Head(Head(ops[t]).groups)], Head(ops[t]).task)
  PROVE  LeftInv'
<1> DEFINE o == Head(ops[t])
<1>0. PICK h, g, l, k, x : h = o.task /\ g = Head(o.groups) /\ l = o.last /\ k = Locks(h, <<>>, l)
                           /\ x = Lock(group[g], h)
  OBVIOUS
<1>1. /\ ops[t] # <<>> /\ o \in OpSet /\ o.op = "lock" /\ h \in Task /\ o.groups # <<>> /\ g \in Group
      /\ l \in {"inline", "take"} /\ Lockable(group[g], h)
      /\ Pushes(t, <<Locks(h, Tail(o.groups), l)>>)
  BY <1>0, LockGroupOps
<1>2. Doing(t, o) /\ OpInv(t, o)
  BY <1>1, HeadInv DEF BaseTypes, TaskInv
<1>3. o.groups = Groups[h]
  BY <1>0, <1>1, <1>2 DEF LeftInv, QueuesInv, ShapeInv, Shaped
<1>4. Groups[h] = <<g>> /\ Tail(o.groups) = <<>>
  BY <1>0, <1>1, <1>3, SoleGroup
<1>5. Pushes(t, <<k>>)
  BY <1>0, <1>1, <1>4
<1>6. /\ group' = [group EXCEPT ![g] = x] /\ pool' = pool /\ pc' = pc /\ stack' = stack
      /\ status' = status /\ made' = made /\ terminated' = terminated
  BY <1>0, <1>1 DEF LockGroup, shared
<1>7. /\ group'[g] = x /\ \A a \in Group : a # g => group'[a] = group[a]
      /\ \A a \in Group : group[a] \in GroupState /\ group[a].queue \in SUBSET Task
  BY <1>1, <1>6, GroupNow
<1>8. /\ x.queue = group[g].queue /\ x.locked = group[g].locked \union {h}
      /\ x.notified = group[g].notified
      /\ \A j \in Task : /\ j # h => Free(x, j) <= Free(group[g], j)
                         /\ j \in group[g].queue \ (group[g].locked \union {h}) /\ Free(group[g], j) >= 0
                              => Free(x, j) >= 0
  <2>1. PICK y \in GroupState : y = group[g]
    BY <1>1, <1>7
  <2>2. ASSUME NEW j \in Task
        PROVE /\ j # h => Free(x, j) <= Free(y, j)
              /\ j \in y.queue \ (y.locked \union {h}) /\ Free(y, j) >= 0 => Free(x, j) >= 0
              /\ x.queue = y.queue /\ x.locked = y.locked \union {h} /\ x.notified = y.notified
    <3>1. x = Lock(y, h) /\ Lockable(y, h)
      BY <2>1, <1>0, <1>1
    <3>2. QED
      BY <3>1, <1>1, LockFree
  <2>3. QED
    BY <2>1, <2>2, <1>1
<1>9. /\ k.op = l /\ k.task = h
  <2>1. k = [op |-> l, task |-> h]
    BY <1>0 DEF Locks
  <2>2. QED
    BY <2>1
<1>10. /\ Submits(o, h) => Submits(k, h)
       /\ \A j : Submits(o, j) => j = h
       /\ \A j : Submits(k, j) => Submits(o, j) /\ j = h
       /\ HasLocks(k, h)
  BY <1>0, <1>1, <1>9 DEF Submits, HasLocks
<1>11. /\ \A j : ~Frees(o, j) /\ ~HasLocks(o, j)
       /\ \A q : ~CallsFor(o, q)
  BY <1>1 DEF Frees, HasLocks, CallsFor
<1>12. \A j \in Task : Handled(j) => Handled(j)'
  BY <1>1, <1>6, <1>8, HandledKept
<1>13. Welcome(t, k)
  <2>1. Shaped(k) /\ Walked(t, k)'
    BY <1>1, <1>9 DEF Shaped, Walked, Passed
  <2>2. ASSUME Submits(k, h) PROVE Housed(h)' /\ Handled(h)'
    <3>1. Submits(o, h)
      BY <2>2, <1>10
    <3>2. Housed(h) /\ Handled(h)
      BY <3>1, <1>1, <1>2 DEF LeftInv, QueuesInv, HandleInv, OnWay
    <3>3. Housed(h)'
      BY <3>2, <1>6 DEF Housed
    <3>4. QED
      BY <3>2, <3>3, <1>1, <1>12
  <2>3. OnWay(k)'
    BY <2>2, <1>10 DEF OnWay, Submits
  <2>4. QED
    BY <2>1, <2>3 DEF Welcome
<1>14. HolderInv'
  <2> SUFFICES ASSUME NEW a \in Group, NEW j \in group'[a].queue
               PROVE /\ Groups[j] = <<a>>
                     /\ status'[j] = "queued" \/ Active(j)' \/ InCall(j)'
                     /\ j \in group'[a].locked => Active(j)' \/ Holds(j)'
    BY DEF HolderInv
  <2>1. Active(j)' <=> Active(j)
    BY <1>6 DEF Active
  <2>2. InCall(j) => InCall(j)'
    <3>1. Submits(o, j) => \E i \in 1..Len(<<k>>) : Submits(<<k>>[i], j) \/ Frees(<<k>>[i], j)
      BY <1>10
    <3>2. QED
      BY <3>1, <1>5, <1>11, InCallKept DEF BaseTypes
  <2>3. Holds(j) => Holds(j)'
    BY <1>5, <1>11, HoldsKept DEF BaseTypes
  <2>4. Holds(h)'
    <3>1. 1 \in 1..Len(<<k>>) /\ HasLocks(<<k>>[1], h)
      BY <1>10
    <3>2. QED
      BY <3>1, <1>5, HoldsNew DEF BaseTypes
  <2>5. group'[a].queue = group[a].queue /\ (j # h => (j \in group'[a].locked => j \in group[a].locked))
    BY <1>7, <1>8
  <2>6. QED
    BY <2>1, <2>2, <2>3, <2>4, <2>5, <1>6 DEF LeftInv, QueuesInv, HolderInv
<1>15. WindowInv'
  <2> SUFFICES ASSUME NEW a \in Group, NEW j \in group'[a].queue \ group'[a].locked, j \in group'[a].notified
               PROVE  Free(group'[a], j) >= 0
    BY DEF WindowInv, Free
  <2>1. CASE a = g
    <3>1. j \in Task /\ j \in group[g].queue \ (group[g].locked \union {h}) /\ j \in group[g].notified
      BY <2>1, <1>1, <1>7, <1>8
    <3>2. Free(group[g], j) >= 0
      BY <3>1, <1>1 DEF LeftInv, QueuesInv, WindowInv
    <3>3. QED
      BY <2>1, <3>1, <3>2, <1>7, <1>8
  <2>2. CASE a # g
    <3>1. group'[a] = group[a]
      BY <2>2, <1>7
    <3>2. QED
      BY <3>1 DEF LeftInv, QueuesInv, WindowInv
  <2>3. QED
    BY <2>1, <2>2
<1>16. \A p \in Pool : \A j \in pool[p].queue : Takeable(j)' => Takeable(j)
  <2> SUFFICES ASSUME NEW p \in Pool, NEW j \in pool[p].queue, Takeable(j)' PROVE Takeable(j)
    OBVIOUS
  <2>1. j \in Task
    BY PoolFacts
  <2>2. Lockable(x, j) => Lockable(group[g], j)
    <3>1. CASE j = h
      BY <3>1, <1>1
    <3>2. CASE j # h
      <4>1. Free(group[g], j) \in Int /\ Free(x, j) <= Free(group[g], j)
        BY <3>2, <2>1, <1>1, <1>7, <1>8, FreeOf
      <4>2. Free(x, j) \in Int
        <5>1. x \in GroupState
          BY <1>0, <1>1, <1>7, LockType
        <5>2. QED
          BY <5>1, FreeOf
      <4>3. Free(x, j) >= 0 => Free(group[g], j) >= 0
        BY <4>1, <4>2
      <4>4. QED
        BY <4>3, <3>2, <1>8 DEF Lockable
    <3>3. QED
      BY <3>1, <3>2
  <2>3. QED
    BY <2>1, <2>2, <1>1, <1>6, TakeableKept
<1>17. o.op # "unlock"
  BY <1>1
<1>18. QED
  BY <1>1, <1>5, <1>6, <1>11, <1>12, <1>13, <1>14, <1>15, <1>16, <1>17, OneWelcome, GroupStepLeft

LEMMA LockMissedLeft ==
  ASSUME SingleGroups, BaseTypes, TaskInv, TaskInv', LeftInv, NEW t \in Thread, LockGroup(t),
         ~Lockable(group[Head(Head(ops[t]).groups)], Head(ops[t]).task)
  PROVE  LeftInv'
<1> DEFINE o == Head(ops[t])
<1>0. PICK h, g, p, later, k :
         /\ h = o.task /\ g = Head(o.groups) /\ p = Home[t]
         /\ later = {j \in pool[p].queue : Before(h, j)}
         /\ k = IF o.last = "inline" THEN Enqueue(h)
                ELSE IF later # {} THEN Attempt(First(later)) ELSE [op |-> "idle"]
  OBVIOUS
<1>1. /\ ops[t] # <<>> /\ o \in OpSet /\ o.op = "lock" /\ h \in Task /\ o.groups # <<>> /\ g \in Group
      /\ o.last \in {"inline", "take"} /\ ~Lockable(group[g], h) /\ Pushes(t, <<k>>)
  BY <1>0, LockGroupOps
<1>2. Doing(t, o) /\ OpInv(t, o) /\ p \in Pool /\ pool[p].queue \in SUBSET Task
  BY <1>0, <1>1, HeadInv, PoolAssumption, PoolFacts DEF BaseTypes, TaskInv
<1>3. /\ group' = group /\ pool' = pool /\ pc' = pc /\ stack' = stack
      /\ status' = status /\ made' = made /\ terminated' = terminated
  BY <1>0, <1>1 DEF LockGroup, shared
<1>4. o.groups = Groups[h]
  BY <1>0, <1>1, <1>2 DEF LeftInv, QueuesInv, ShapeInv, Shaped
<1>5. ~Takeable(h)
  BY <1>0, <1>1, <1>4, SoleGroup
<1>6. \A j : Submits(o, j) <=> (o.last = "inline" /\ j = h)
  BY <1>0, <1>1 DEF Submits
<1>7. \A q : ~CallsFor(o, q)
  BY <1>1 DEF CallsFor
<1>8. Welcome(t, k) /\ (o.last = "inline" => Submits(k, h))
  <2>1. CASE o.last = "inline"
    <3>1. Housed(h) /\ Handled(h)
      BY <2>1, <1>1, <1>2, <1>6 DEF LeftInv, QueuesInv, HandleInv, OnWay
    <3>2. Housed(h)' /\ Handled(h)'
      BY <3>1, <1>3 DEF Housed, Handled
    <3>3. QED
      BY <2>1, <3>2, <1>0, <1>1, EnqueueWelcome
  <2>2. CASE o.last # "inline"
    <3>1. ASSUME NEW j \in pool[p].queue, j \notin later, Takeable(j)' PROVE Pending(p)'
      <4>1. Takeable(j)
        BY <3>1, <1>3, SameTakeable
      <4>2. j \in Task /\ j # h /\ ~Before(h, j)
        BY <3>1, <4>1, <1>0, <1>2, <1>5
      <4>3. Before(j, h)
        BY <4>2, <1>1, BeforeTotal
      <4>4. Walked(t, o)
        BY <1>1, <1>2 DEF LeftInv, QueuesInv, WalkInv
      <4>5. Passed(o, j)
        BY <4>3, <2>2, <1>0, <1>1 DEF Passed
      <4>6. Pending(p)
        BY <4>1, <4>4, <4>5, <3>1, <1>0 DEF Walked
      <4>7. QED
        BY <4>6, <1>1, <1>7, PendingKept DEF BaseTypes
    <3>2. CASE later # {}
      <4>1. PICK f : f = First(later)
        OBVIOUS
      <4>2. f \in later /\ f \in Task /\ \A j \in later \ {f} : Before(f, j)
        BY <4>1, <3>2, <1>0, <1>2, FirstOf
      <4>3. \A j \in later : ~Before(j, f)
        BY <4>2, <1>0, <1>2, BeforeTotal
      <4>4. \A j \in pool'[p].queue : Before(j, f) /\ Takeable(j)' => Pending(p)'
        BY <4>3, <3>1, <1>3
      <4>5. k = Attempt(f)
        BY <4>1, <3>2, <2>2, <1>0
      <4>6. QED
        BY <4>2, <4>4, <4>5, <2>2, <1>0, AttemptWelcome
    <3>3. CASE later = {}
      <4>1. \A j \in pool'[p].queue : Takeable(j)' => Pending(p)'
        BY <3>1, <3>3, <1>3
      <4>2. k = [op |-> "idle"]
        BY <3>3, <2>2, <1>0
      <4>3. QED
        BY <4>1, <4>2, <2>2, <1>0, IdleWelcome
    <3>4. QED
      BY <3>2, <3>3
  <2>3. QED
    BY <2>1, <2>2
<1>9. Keeps(t, <<k>>)
  <2>1. \A j : Submits(o, j) => \E i \in 1..Len(<<k>>) : Submits(<<k>>[i], j)
    BY <1>6, <1>8
  <2>2. QED
    BY <2>1, <1>1, <1>3 DEF Keeps
<1>10. SamePools4 /\ Onward
  BY <1>3 DEF SamePools4, Onward
<1>11. o.op # "unlock"
  BY <1>1
<1>12. QED
  BY <1>1, <1>3, <1>7, <1>8, <1>9, <1>10, <1>11, OneWelcome, PlainStep

LEMMA LockGroupLeft ==
  ASSUME SingleGroups, BaseTypes, TaskInv, TaskInv', LeftInv, NEW t \in Thread, LockGroup(t)
  PROVE  LeftInv'
  BY LockTakenLeft, LockMissedLeft

\* Sorted(S) leaves none of S out.
LEMMA SortedAll ==
  ASSUME NEW S \in SUBSET Task, NEW h \in S
  PROVE  \E i \in 1..Cardinality(S) : Sorted(S)[i] = h
<1> DEFINE s == Sorted(S)
           n == Cardinality(S)
<1>1. s \in [1..n -> S] /\ IsInjective(s) /\ IsFiniteSet(S) /\ n \in Nat
  BY SortedOf, FiniteTasks DEF Sorting
<1>2. s \in Injection(1..n, S)
  BY <1>1 DEF Injection
<1>3. Cardinality(1..n) = n
  BY <1>1, FS_Interval
<1>4. s \in Surjection(1..n, S)
  BY <1>1, <1>2, <1>3, FS_Injection
<1>5. QED
  BY <1>4 DEF Surjection

\* Each task that is told has its pool notified.
LEMMA NotifyAll ==
  ASSUME NEW S \in SUBSET Task, NEW s, s = ForEach(Sorted(S), NotifyCall)
  PROVE  /\ \A h \in S : \E i \in 1..Len(s) : CallsFor(s[i], Target[h])
         /\ \A i \in 1..Len(s) : Silent(s[i])
<1> DEFINE q == Sorted(S)
           n == Cardinality(S)
<1>1. q \in [1..n -> S] /\ n \in Nat
  BY SortedOf, FiniteTasks DEF Sorting
<1>2. s = [i \in 1..n |-> NotifyCall(q[i])]
  BY <1>1 DEF ForEach
<1>3. Len(s) = n
  <2>1. s \in Seq(OpSet) /\ DOMAIN s = 1..n
    BY <1>2, NotifyCalls
  <2>2. QED
    BY <2>1, <1>1
<1>4. \A h : CallsFor(NotifyCall(h), Target[h]) /\ Silent(NotifyCall(h))
  BY DEF NotifyCall, CallsFor, Silent
<1>5. ASSUME NEW h \in S PROVE \E i \in 1..Len(s) : CallsFor(s[i], Target[h])
  <2>1. PICK i \in 1..n : q[i] = h
    BY SortedAll
  <2>2. s[i] = NotifyCall(h)
    BY <2>1, <1>2
  <2>3. QED
    BY <2>1, <2>2, <1>3, <1>4
<1>6. ASSUME NEW i \in 1..Len(s) PROVE Silent(s[i])
  <2>1. s[i] = NotifyCall(q[i])
    BY <1>2, <1>3
  <2>2. QED
    BY <2>1, <1>4
<1>7. QED
  BY <1>5, <1>6

\* What a release leaves of its group.
LEMMA ReleaseFree ==
  ASSUME NEW g \in GroupState, NEW h \in Task
  PROVE  LET x == Release(g, h)
             T == Told(Unlock(g, h))
         IN /\ x \in GroupState /\ T \in SUBSET Task
            /\ x.queue = g.queue \ {h} /\ x.locked = g.locked \ {h}
            /\ x.notified = (g.notified \ {h}) \union T
            /\ T = {s \in x.queue \ x.locked : s \notin g.notified \ {h} /\ Free(x, s) >= 0}
            /\ \A j \in Task : Free(g, j) <= Free(x, j)
<1> DEFINE u == Unlock(g, h)
           x == Release(g, h)
           T == Told(u)
<1>1. /\ u.tokens = IF h \in g.locked THEN g.tokens + 1 ELSE g.tokens
      /\ u.queue = g.queue \ {h} /\ u.locked = g.locked \ {h} /\ u.notified = g.notified \ {h}
      /\ u \in GroupState
  <2>1. g \in GroupOf(Task)
    BY DEF GroupState, GroupOf
  <2>2. u \in GroupOf(Task) /\ u.locked = g.locked \ {h} /\ u.queue = g.queue \ {h}
        /\ u.tokens = IF h \in g.locked THEN g.tokens + 1 ELSE g.tokens
    BY <2>1, UnlockMembers
  <2>3. u.notified = g.notified \ {h}
    BY DEF Unlock, GroupState
  <2>4. QED
    BY <2>2, <2>3 DEF GroupState, GroupOf
<1>2. x = [u EXCEPT !.notified = u.notified \union T]
  BY DEF Release
<1>3. T = {s \in u.queue \ (u.locked \union u.notified) : Free(u, s) >= 0}
  BY DEF Told
<1> HIDE DEF u, T
<1>4. T \in SUBSET Task
  BY <1>1, <1>3 DEF GroupState
<1>5. /\ x.tokens = u.tokens /\ x.queue = u.queue /\ x.locked = u.locked
      /\ x.notified = u.notified \union T /\ x \in GroupState
  BY <1>1, <1>2, <1>4 DEF GroupState
<1> HIDE DEF x
<1>6. \A s : Free(x, s) = Free(u, s)
  BY <1>5 DEF Free
<1>7. ASSUME NEW j \in Task PROVE Free(g, j) <= Free(x, j)
  <2>1. Ahead(x, j) \subseteq Ahead(g, j)
    BY <1>1, <1>5 DEF Ahead
  <2>2. g.tokens <= x.tokens
    BY <1>1, <1>5 DEF GroupState
  <2>3. QED
    BY <2>1, <2>2, <1>5, FreeLess
<1>8. T = {s \in x.queue \ x.locked : s \notin g.notified \ {h} /\ Free(x, s) >= 0}
  BY <1>1, <1>3, <1>5, <1>6
<1>9. QED
  BY <1>1, <1>4, <1>5, <1>7, <1>8 DEF x, T, u

LEMMA ReleaseGroupLeft ==
  ASSUME SingleGroups, BaseTypes, TaskInv, TaskInv', LeftInv, NEW t \in Thread, ReleaseGroup(t)
  PROVE  LeftInv'
<1> DEFINE o == Head(ops[t])
<1>0. PICK h, g, x, T, s : /\ h = o.task /\ g = Head(o.groups) /\ x = Release(group[g], h)
                           /\ T = Told(Unlock(group[g], h)) /\ s = ForEach(Sorted(T), NotifyCall)
  OBVIOUS
<1>1. /\ ops[t] # <<>> /\ o \in OpSet /\ o.op = "release" /\ h \in Task /\ o.groups # <<>> /\ g \in Group
  BY <1>0, ReleaseGroupOps, Members DEF GroupsOp
<1>2. Doing(t, o) /\ OpInv(t, o)
  BY <1>1, HeadInv DEF BaseTypes, TaskInv
<1>3. o.groups = Groups[h]
  BY <1>0, <1>1, <1>2 DEF LeftInv, QueuesInv, ShapeInv, Shaped
<1>4. Groups[h] = <<g>> /\ Tail(o.groups) = <<>>
  BY <1>0, <1>1, <1>3, SoleGroup
<1>5. /\ group' = [group EXCEPT ![g] = x] /\ pool' = pool /\ pc' = pc /\ stack' = stack
      /\ status' = status /\ made' = made /\ terminated' = terminated
  BY <1>0 DEF ReleaseGroup, shared
<1>6. /\ group'[g] = x /\ \A a \in Group : a # g => group'[a] = group[a]
      /\ \A a \in Group : group[a] \in GroupState /\ group[a].queue \in SUBSET Task
  BY <1>1, <1>5, GroupNow
<1>7. /\ x \in GroupState /\ T \in SUBSET Task
      /\ x.queue = group[g].queue \ {h} /\ x.locked = group[g].locked \ {h}
      /\ x.notified = (group[g].notified \ {h}) \union T
      /\ T = {j \in x.queue \ x.locked : j \notin group[g].notified \ {h} /\ Free(x, j) >= 0}
      /\ \A j \in Task : Free(group[g], j) <= Free(x, j)
  <2>1. PICK y \in GroupState : y = group[g]
    BY <1>1, <1>6
  <2>2. x = Release(y, h) /\ T = Told(Unlock(y, h))
    BY <1>0, <2>1
  <2>3. /\ x \in GroupState /\ T \in SUBSET Task
        /\ x.queue = y.queue \ {h} /\ x.locked = y.locked \ {h}
        /\ x.notified = (y.notified \ {h}) \union T
        /\ T = {j \in x.queue \ x.locked : j \notin y.notified \ {h} /\ Free(x, j) >= 0}
        /\ \A j \in Task : Free(y, j) <= Free(x, j)
    BY <2>2, <1>1, ReleaseFree
  <2>4. QED
    BY <2>1, <2>3
<1>8. Pushes(t, s) /\ \A i \in 1..Len(s) : Silent(s[i])
  <2>1. s \in Seq(OpSet) /\ \A i \in 1..Len(s) : Silent(s[i])
    BY <1>0, <1>7, NotifyCalls, NotifyAll
  <2>2. Releases(h, <<>>) = <<>>
    BY DEF Releases
  <2>3. Pushes(t, s \o Releases(h, Tail(o.groups)))
    BY <1>0, ReleaseGroupOps
  <2>4. s \o <<>> = s
    BY <2>1, ConcatEmptySeq
  <2>5. QED
    BY <2>1, <2>2, <2>3, <2>4, <1>4
<1>9. \A i \in 1..Len(s) : Welcome(t, s[i])
  BY <1>8, SilentWelcome
<1>10. /\ \A j : ~Submits(o, j) /\ (j # h => ~Frees(o, j) /\ ~HasLocks(o, j))
       /\ \A q : ~CallsFor(o, q)
       /\ status[h] \in {"done", "dropped"}
  BY <1>0, <1>1, <1>2 DEF OpInv, Submits, Frees, HasLocks, CallsFor
<1>11. ASSUME NEW j \in Task, Handled(j), status[j] \in {"submitted", "queued"} PROVE Handled(j)'
  <2>1. j # h
    BY <1>10, <1>11
  <2>2. QED
    BY <2>1, <1>1, <1>5, <1>7, <1>11, HandledKept
<1>12. HolderInv'
  <2> SUFFICES ASSUME NEW a \in Group, NEW j \in group'[a].queue
               PROVE /\ Groups[j] = <<a>>
                     /\ status'[j] = "queued" \/ Active(j)' \/ InCall(j)'
                     /\ j \in group'[a].locked => Active(j)' \/ Holds(j)'
    BY DEF HolderInv
  <2>1. j \in group[a].queue /\ group'[a].locked \subseteq group[a].locked /\ (a = g => j # h)
    BY <1>6, <1>7
  <2>2. Groups[j] = <<a>>
    BY <2>1 DEF LeftInv, QueuesInv, HolderInv
  <2>3. j # h
    <3>1. ASSUME j = h PROVE FALSE
      <4>1. <<a>> = <<g>>
        BY <3>1, <2>2, <1>4
      <4>2. a = g
        BY <4>1
      <4>3. QED
        BY <4>2, <3>1, <2>1
    <3>2. QED
      BY <3>1
  <2>4. Active(j)' <=> Active(j)
    BY <1>5 DEF Active
  <2>5. InCall(j) => InCall(j)'
    BY <2>3, <1>8, <1>10, InCallKept DEF BaseTypes
  <2>6. Holds(j) => Holds(j)'
    BY <2>3, <1>8, <1>10, HoldsKept DEF BaseTypes
  <2>7. QED
    BY <2>1, <2>2, <2>4, <2>5, <2>6, <1>5 DEF LeftInv, QueuesInv, HolderInv
<1>13. ASSUME NEW j \in Task PROVE Free(group[g], j) >= 0 => Free(x, j) >= 0
  <2>1. Free(group[g], j) \in Int /\ Free(x, j) \in Int /\ Free(group[g], j) <= Free(x, j)
    BY <1>1, <1>6, <1>7, FreeOf
  <2>2. QED
    BY <2>1
<1>14. WindowInv'
  <2> SUFFICES ASSUME NEW a \in Group, NEW j \in group'[a].queue \ group'[a].locked, j \in group'[a].notified
               PROVE  Free(group'[a], j) >= 0
    BY DEF WindowInv, Free
  <2>1. CASE a = g
    <3>1. j \in x.queue \ x.locked /\ j \in x.notified
      BY <2>1, <1>6
    <3>2. CASE j \in T
      BY <2>1, <3>2, <1>6, <1>7
    <3>3. CASE j \notin T
      <4>1. j \in group[g].queue \ group[g].locked /\ j \in group[g].notified /\ j \in Task
        BY <3>1, <3>3, <1>1, <1>6, <1>7
      <4>2. Free(group[g], j) >= 0
        BY <4>1, <1>1 DEF LeftInv, QueuesInv, WindowInv
      <4>3. QED
        BY <4>1, <4>2, <2>1, <1>6, <1>13
    <3>4. QED
      BY <3>2, <3>3
  <2>2. CASE a # g
    <3>1. group'[a] = group[a]
      BY <2>2, <1>6
    <3>2. QED
      BY <3>1 DEF LeftInv, QueuesInv, WindowInv
  <2>3. QED
    BY <2>1, <2>2
<1>15. ASSUME NEW p \in Pool, NEW j \in pool[p].queue, Takeable(j)' PROVE Takeable(j) \/ Pending(p)'
  <2>1. j \in Task /\ j # h /\ Target[j] = p
    BY <1>10, PoolFacts DEF TaskInv, QueueInv
  <2>2. CASE j \in T
    <3>1. PICK i \in 1..Len(s) : CallsFor(s[i], p)
      BY <2>1, <2>2, <1>0, <1>7, NotifyAll
    <3>2. QED
      BY <3>1, <1>8, PendingNew DEF BaseTypes
  <2>3. CASE j \notin T
    <3>1. Lockable(x, j) => Lockable(group[g], j)
      <4>1. CASE j \in x.locked
        BY <4>1, <1>7 DEF Lockable
      <4>2. ASSUME j \notin x.locked, j \in x.queue, Free(x, j) >= 0 PROVE Lockable(group[g], j)
        <5>1. j \in group[g].notified /\ j \in group[g].queue
          BY <4>2, <2>3, <1>7
        <5>2. j \notin group[g].locked => Free(group[g], j) >= 0
          BY <5>1, <1>1 DEF LeftInv, QueuesInv, WindowInv
        <5>3. QED
          BY <5>1, <5>2 DEF Lockable
      <4>3. QED
        BY <4>1, <4>2 DEF Lockable
    <3>2. QED
      BY <3>1, <2>1, <1>1, <1>5, <1>15, TakeableKept
  <2>4. QED
    BY <2>2, <2>3
<1>16. o.op # "unlock"
  BY <1>1
<1>17. QED
  BY <1>1, <1>5, <1>8, <1>9, <1>10, <1>11, <1>12, <1>14, <1>15, <1>16, GroupStepLeft

\* What a forced stop leaves to do: a release for each task it dropped, then the mutex.
LEMMA ForcedAll ==
  ASSUME NEW S \in SUBSET {h \in Task : Groups[h] # <<>>}, NEW p \in Pool, NEW s, s = ForcedOps(S, p)
  PROVE  /\ s \in Seq(OpSet)
         /\ \A h \in S : \E i \in 1..Len(s) : Frees(s[i], h) /\ HasLocks(s[i], h)
         /\ \E i \in 1..Len(s) : Unlocks(s[i], p)
         /\ \A t : \A i \in 1..Len(s) : Welcome(t, s[i])
<1> DEFINE q == Sorted(S)
           n == Cardinality(S)
           f == [i \in 1..n |-> [op |-> "release", task |-> q[i], groups |-> Groups[q[i]]]]
           u == [op |-> "unlock", pool |-> p]
<1>1. q \in [1..n -> S] /\ n \in Nat
  BY SortedOf, FiniteTasks DEF Sorting
<1>2. /\ s \in Seq(OpSet) /\ Len(s) = n + 1 /\ s[n + 1] = u
  BY ForcedType
<1>3. s = Append(f, u)
  BY <1>1 DEF ForcedOps
<1>4. \A i \in 1..n : f[i].op = "release" /\ f[i].task = q[i] /\ f[i].groups = Groups[q[i]]
  OBVIOUS
<1>5. \A h \in S : [op |-> "release", task |-> h, groups |-> Groups[h]] \in OpSet
  BY TaskFacts DEF GroupsOp, OpSet
<1>6. f \in [1..n -> OpSet]
  BY <1>1, <1>5
<1>7. u \in OpSet /\ Unlocks(u, p) /\ u.op = "unlock"
  BY DEF MutexOp, OpSet, Unlocks
<1> HIDE DEF f, u, q, n
<1>8. f \in Seq(OpSet) /\ Len(f) = n
  BY <1>1, <1>6
<1>9. \A i \in 1..n : s[i] = f[i]
  <2>1. \A i \in 1..Len(f) : Append(f, u)[i] = f[i]
    BY <1>7, <1>8, AppendProperties
  <2>2. QED
    BY <2>1, <1>3, <1>8, Zenon
<1>10. 1..Len(s) = 1..n \union {n + 1}
  BY <1>1, <1>2
<1>11. ASSUME NEW h \in S PROVE \E i \in 1..Len(s) : Frees(s[i], h) /\ HasLocks(s[i], h)
  <2>1. PICK i \in 1..n : q[i] = h
    BY SortedAll DEF q, n
  <2>2. i \in 1..Len(s) /\ s[i] = f[i] /\ f[i].op = "release" /\ f[i].task = h
    BY <2>1, <1>4, <1>9, <1>10
  <2>3. QED
    BY <2>2 DEF Frees, HasLocks
<1>12. ASSUME NEW t, NEW i \in 1..Len(s) PROVE Welcome(t, s[i])
  <2>1. CASE i \in 1..n
    <3>1. PICK k : k = s[i]
      OBVIOUS
    <3>2. k.op = "release" /\ k.groups = Groups[k.task]
      BY <2>1, <3>1, <1>4, <1>9
    <3>3. Shaped(k)
      BY <3>2 DEF Shaped
    <3>4. OnWay(k)'
      BY <3>2 DEF OnWay, Submits
    <3>5. Walked(t, k)'
      BY <3>2 DEF Walked, Passed
    <3>6. QED
      BY <3>1, <3>3, <3>4, <3>5 DEF Welcome
  <2>2. CASE i = n + 1
    <3>1. s[i].op = "unlock"
      BY <2>2, <1>2, <1>7
    <3>2. Silent(s[i])
      BY <3>1 DEF Silent
    <3>3. QED
      BY <3>2, SilentWelcome
  <2>3. QED
    BY <2>1, <2>2, <1>10
<1>13. n + 1 \in 1..Len(s) /\ Unlocks(s[n + 1], p)
  BY <1>2, <1>7, <1>10
<1>14. QED
  BY <1>2, <1>11, <1>12, <1>13

\* Unless a pool outlasts it, a stop closes the pool.
LEMMA StopPoolLeft ==
  ASSUME Persistent = {}, BaseTypes, TaskInv, TaskInv', LeftInv, NEW t \in Thread, StopPool(t)
  PROVE  LeftInv'
<1> DEFINE o == Head(ops[t])
           f == o.type = "FORCE"
<1>0. PICK p, Q, S : p = o.pool /\ Q = pool[p].queue /\ S = {h \in Q : Groups[h] # <<>>}
  OBVIOUS
<1>1. /\ ops[t] # <<>> /\ o \in OpSet /\ o.op = "stop" /\ p \in Pool /\ pool[p].owner = None
      /\ Q \in SUBSET Task
  BY <1>0, StopPoolOps
<1>2. /\ group' = group /\ stack' = stack /\ made' = made /\ terminated' = terminated
      /\ pc' = IF f THEN pc ELSE WakeAll(p, pc)
      /\ status' = [h \in Task |-> IF f /\ h \in Q THEN "dropped" ELSE status[h]]
  BY <1>0 DEF StopPool, shared
<1>3. /\ \A q \in Pool \ {p} : pool'[q] = pool[q]
      /\ pool'[p].live /\ ~pool'[p].accept /\ ~pool'[p].running
      /\ pool'[p].queue = IF f THEN {} ELSE Q
  <2>1. PICK P : P = [pool[p] EXCEPT !.live = TRUE, !.accept = p \in Persistent,
                       !.running = o.type = "NORMAL" /\ p \in Persistent,
                       !.queue = IF f THEN {} ELSE pool[p].queue,
                       !.owner = IF f THEN t ELSE None]
    OBVIOUS
  <2>2. pool' = [pool EXCEPT ![p] = P]
    BY <2>1, <1>0 DEF StopPool
  <2>3. pool[p] \in PoolState
    BY <1>1, PoolFacts
  <2> HIDE DEF f
  <2>4. /\ P.live = TRUE /\ P.queue = (IF f THEN {} ELSE Q)
        /\ P.accept = (p \in Persistent) /\ P.running = (o.type = "NORMAL" /\ p \in Persistent)
    BY <2>1, <2>3, <1>0 DEF PoolState
  <2>5. pool'[p] = P /\ \A q \in Pool \ {p} : pool'[q] = pool[q]
    BY <2>2, <1>1 DEF BaseTypes, PoolTypes
  <2>6. ~P.accept /\ ~P.running
    BY <2>4
  <2>7. QED
    BY <2>4, <2>5, <2>6
<1>4. PICK s : /\ Pushes(t, s)
               /\ s = IF f THEN ForcedOps(S, p)
                      ELSE IF o.type = "FINAL" THEN <<[op |-> "join", pool |-> p]>> ELSE <<>>
  <2>1. Then(t, IF f THEN ForcedOps(S, p)
                ELSE IF o.type = "FINAL" THEN <<[op |-> "join", pool |-> p]>> ELSE <<>>)
    BY <1>0 DEF StopPool, ForEach, ForcedOps
  <2>2. [op |-> "join", pool |-> p] \in OpSet
    BY <1>1 DEF MutexOp, OpSet
  <2>3. S \in SUBSET {h \in Task : Groups[h] # <<>>}
    BY <1>0, <1>1
  <2>4. ForcedOps(S, p) \in Seq(OpSet)
    BY <1>1, <2>3, ForcedType
  <2>5. PICK s : s = IF f THEN ForcedOps(S, p)
                     ELSE IF o.type = "FINAL" THEN <<[op |-> "join", pool |-> p]>> ELSE <<>>
    OBVIOUS
  <2>6. s \in Seq(OpSet)
    BY <2>2, <2>4, <2>5
  <2>7. Then(t, s)
    BY <2>1, <2>5
  <2>8. Rest(t) = Tail(ops[t])
    BY <1>1 DEF Rest
  <2>9. Pushes(t, s)
    BY <2>6, <2>7, <2>8 DEF Pushes, Then
  <2>10. QED
    BY <2>5, <2>9
<1>5. /\ \A j : ~Submits(o, j) /\ ~Frees(o, j) /\ ~HasLocks(o, j)
      /\ \A q : ~CallsFor(o, q) /\ ~Unlocks(o, q)
  BY <1>1 DEF Submits, Frees, HasLocks, CallsFor, Unlocks
<1>6. f => /\ \A h \in S : \E i \in 1..Len(s) : Frees(s[i], h) /\ HasLocks(s[i], h)
           /\ \E i \in 1..Len(s) : Unlocks(s[i], p)
           /\ \A i \in 1..Len(s) : Welcome(t, s[i])
  <2>1. S \in SUBSET {h \in Task : Groups[h] # <<>>}
    BY <1>0, <1>1
  <2>2. QED
    BY <2>1, <1>1, <1>4, ForcedAll
<1>7. ~f => \A i \in 1..Len(s) : Welcome(t, s[i])
  <2>1. CASE ~f
    <3>1. \A i \in 1..Len(s) : s[i].op = "join"
      BY <2>1, <1>4
    <3>2. \A i \in 1..Len(s) : Silent(s[i])
      BY <3>1 DEF Silent
    <3>3. QED
      BY <3>2, SilentWelcome
  <2>2. QED
    BY <2>1
<1>8. \A j \in Task : status'[j] = IF f /\ j \in Q THEN "dropped" ELSE status[j]
  BY <1>2
<1>9. \A j : Active(j) <=> Active(j)'
  BY <1>2 DEF Active
<1>10. HolderInv'
  <2> SUFFICES ASSUME NEW a \in Group, NEW j \in group'[a].queue
               PROVE /\ Groups[j] = <<a>>
                     /\ status'[j] = "queued" \/ Active(j)' \/ InCall(j)'
                     /\ j \in group'[a].locked => Active(j)' \/ Holds(j)'
    BY DEF HolderInv
  <2>1. /\ Groups[j] = <<a>>
        /\ status[j] = "queued" \/ Active(j) \/ InCall(j)
        /\ j \in group[a].locked => Active(j) \/ Holds(j)
    BY <1>2 DEF LeftInv, QueuesInv, HolderInv
  <2>2. j \in Task
    BY <1>2 DEF BaseTypes, GroupTypes, GroupState
  <2>3. CASE f /\ j \in Q
    <3>1. j \in S
      BY <2>1, <2>3, <1>0
    <3>2. PICK i \in 1..Len(s) : Frees(s[i], j) /\ HasLocks(s[i], j)
      BY <3>1, <2>3, <1>6
    <3>3. InCall(j)' /\ Holds(j)'
      BY <3>2, <1>4, InCallNew, HoldsNew DEF BaseTypes
    <3>4. QED
      BY <3>3, <2>1
  <2>4. CASE ~(f /\ j \in Q)
    <3>1. status'[j] = status[j]
      BY <2>2, <2>4, <1>8
    <3>2. InCall(j) => InCall(j)'
      BY <1>4, <1>5, InCallKept DEF BaseTypes
    <3>3. Holds(j) => Holds(j)'
      BY <1>4, <1>5, HoldsKept DEF BaseTypes
    <3>4. QED
      BY <3>1, <3>2, <3>3, <2>1, <1>2, <1>9
  <2>5. QED
    BY <2>3, <2>4
<1>11. QueuesInv'
  <2>1. \A j \in Task : status'[j] = "queued" =>
            status[j] = "queued" /\ (j \in pool[Target[j]].queue => j \in pool'[Target[j]].queue)
    <3> SUFFICES ASSUME NEW j \in Task, status'[j] = "queued"
                 PROVE  status[j] = "queued" /\ (j \in pool[Target[j]].queue => j \in pool'[Target[j]].queue)
      OBVIOUS
    <3>1. ~(f /\ j \in Q) /\ status[j] = "queued" /\ Target[j] \in Pool
      BY <1>8, TaskFacts
    <3>2. CASE Target[j] = p
      BY <3>1, <3>2, <1>0, <1>3
    <3>3. CASE Target[j] # p
      BY <3>1, <3>3, <1>3
    <3>4. QED
      BY <3>1, <3>2, <3>3
  <2>2. \A q \in Pool : pool'[q].queue \subseteq pool[q].queue /\ (pool[q].live => pool'[q].live)
    BY <1>0, <1>3
  <2>3. \A i \in 1..Len(s) : Welcome(t, s[i])
    BY <1>6, <1>7
  <2>4. QED
    BY <2>1, <2>2, <2>3, <1>1, <1>2, <1>4, <1>5, <1>10, FewerQueued DEF LeftInv
<1>12. /\ \A u \in Thread : /\ pc'[u] = "wait" => pc[u] = "wait"
                            /\ pc[u] \in {"top", "woken"} => pc'[u] \in {"top", "woken"}
                            /\ pc'[u] \in {"woken", "exited"} => pc[u] \in {"wait", "woken", "exited"}
                            /\ pc'[u] = "exited" => pc[u] = "exited"
  <2>1. CASE f
    BY <2>1, <1>2
  <2>2. CASE ~f
    <3>1. \A u \in Thread : pc'[u] = pc[u] \/ (pc[u] = "wait" /\ pc'[u] = "woken")
      BY <2>2, <1>2, WakeFacts DEF BaseTypes, ThreadTypes
    <3>2. QED
      BY <3>1
  <2>3. QED
    BY <2>1, <2>2
<1>13. Ready(p)'
  <2>1. CASE f
    <3>1. PICK i \in 1..Len(s) : Unlocks(s[i], p)
      BY <2>1, <1>6
    <3>2. PICK k : k = s[i] /\ Doing(t, k)' /\ k \in OpSet
      BY <1>4, PushNew DEF BaseTypes
    <3>3. Unlocking(p)'
      BY <3>1, <3>2 DEF Unlocking
    <3>4. QED
      BY <3>3 DEF Ready
  <2>2. CASE ~f
    BY <2>2, <1>2, WakeAllReady DEF BaseTypes, ThreadTypes
  <2>3. QED
    BY <2>1, <2>2
<1>14. LiveInv'
  <2>1. \A q : \A u \in Threads(q) : u \in Thread
    BY DEF Threads
  <2>2. ASSUME NEW q \in Pool, pool'[q].live
        PROVE  \/ Ready(q)'
               \/ /\ pool[q].live /\ ~(ops[t] # <<>> /\ Unlocks(Head(ops[t]), q))
                  /\ \A u \in Threads(q) :
                        /\ pc'[u] = "wait" => pc[u] = "wait"
                        /\ pc[u] \in {"top", "woken"} => pc'[u] \in {"top", "woken"}
    <3>1. CASE q = p
      BY <3>1, <1>13
    <3>2. CASE q # p
      BY <2>1, <2>2, <3>2, <1>3, <1>5, <1>12
    <3>3. QED
      BY <3>1, <3>2
  <2>3. QED
    BY <2>2, <1>4, LiveKept DEF LeftInv, AwakeInv
<1>15. EndInv'
  <2>1. \A q \in Pool : /\ pool'[q].running => pool[q].running
                        /\ pool'[q].accept => pool[q].accept /\ pool'[q].running = pool[q].running
                        /\ ~pool[q].accept => pool'[q].queue \subseteq pool[q].queue
    BY <1>0, <1>3
  <2>2. QED
    BY <2>1, <1>12, EndKept DEF LeftInv, AwakeInv
<1>16. SleepInv'
  <2>1. Sleepers
    BY <1>2, <1>12 DEF Sleepers
  <2>2. QED
    BY <2>1, SleepKept DEF LeftInv, AwakeInv
<1>17. QED
  BY <1>11, <1>14, <1>15, <1>16 DEF LeftInv, AwakeInv

LEMMA LeftInit == Init => LeftInv
<1> SUFFICES ASSUME Init PROVE LeftInv
  OBVIOUS
<1>1. /\ \A t \in Thread : /\ stack[t] = <<>> /\ ops[t] = <<>> /\ pc[t] \in {"setup", "unborn"}
      /\ \A p \in Pool : /\ pool[p].queue = {} /\ pool[p].live /\ pool[p].running
      /\ \A h \in Task : status[h] = "new"
      /\ \A g \in Group : group[g] = NewGroup(Concurrency[g])
  <2>1. \A t \in Thread : stack[t] = <<>> /\ ops[t] = <<>> /\ pc[t] \in {"setup", "unborn"}
    BY DEF Init
  <2>2. \A p \in Pool : pool[p].queue = {} /\ pool[p].live = TRUE /\ pool[p].running = TRUE
    BY DEF Init
  <2>3. \A h \in Task : status[h] = "new"
    BY DEF Init
  <2>4. \A g \in Group : group[g] = NewGroup(Concurrency[g])
    <3>1. group = [g \in Group |-> NewGroup(Concurrency[g])]
      BY DEF Init
    <3>2. QED
      BY <3>1, Zenon
  <2>5. QED
    BY <2>1, <2>2, <2>3, <2>4
<1>2. \A t \in Thread : \A o : ~Doing(t, o)
  BY <1>1 DEF Doing
<1>3. \A g \in Group : group[g].queue = {}
  <2>1. \A n : NewGroup(n).queue = {}
    BY DEF NewGroup
  <2>2. QED
    BY <1>1, <2>1, Zenon
<1>4. ShapeInv /\ HandleInv /\ WalkInv
  BY <1>1, <1>2 DEF ShapeInv, HandleInv, WalkInv
<1>5. HolderInv /\ WindowInv
  BY <1>3 DEF HolderInv, WindowInv
<1>6. WakeInv
  BY <1>1 DEF WakeInv
<1>7. LiveInv
  <2>1. \A p : \A t \in Threads(p) : t \in Thread
    BY DEF Threads
  <2>2. \A p : Ready(p)
    BY <2>1, <1>1 DEF Ready
  <2>3. QED
    BY <2>2 DEF LiveInv
<1>8. EndInv /\ SleepInv
  BY <1>1 DEF EndInv, SleepInv
<1>9. QED
  BY <1>4, <1>5, <1>6, <1>7, <1>8 DEF LeftInv, QueuesInv, AwakeInv

LEMMA LeftNext ==
  ASSUME SingleGroups, Persistent = {}, BaseTypes, TaskInv, TaskInv', CountInv, GroupsInv, LeftInv, [Next]_vars
  PROVE  LeftInv'
<1>1. ASSUME NEW t \in Thread, Work(t) PROVE LeftInv'
  <2>1. CASE GetPool(t) \/ AskIdle(t) \/ Halt(t) \/ Join(t) \/ LetGo(t) \/ Notify(t) \/ Finish(t)
    BY <2>1, GetPoolLeft, AskIdleLeft, HaltLeft, JoinLeft, LetGoLeft, NotifyLeft, FinishLeft
  <2>2. CASE GetTask(t) \/ BecomeIdle(t) \/ RunInline(t) \/ TakeTask(t) \/ SubmitToPool(t)
    BY <2>2, GetTaskLeft, BecomeIdleLeft, RunInlineLeft, TakeTaskLeft, SubmitToPoolLeft
  <2>3. CASE InsertHandle(t) \/ LockGroup(t) \/ ReleaseGroup(t) \/ StopPool(t)
    BY <2>3, InsertHandleLeft, LockGroupLeft, ReleaseGroupLeft, StopPoolLeft
  <2>4. QED
    BY <1>1, <2>1, <2>2, <2>3 DEF Work
<1>2. ASSUME NEW t \in Thread, NEW h \in Task, Submit(t, h) PROVE LeftInv'
  BY <1>2, SubmitLeft
<1>3. ASSUME NEW t \in Thread, NEW h \in Task, AddIdleTask(t, h) PROVE LeftInv'
  BY <1>3, AddIdleTaskLeft
<1>4. ASSUME NEW t \in Thread, NEW h \in Task, RemoveIdleTask(t, h) PROVE LeftInv'
  BY <1>4, RemoveIdleTaskLeft
<1>5. ASSUME NEW t \in Thread, NEW force \in Forces, Shutdown(t, force) PROVE LeftInv'
  BY <1>5, ShutdownLeft
<1>6. ASSUME StartPools \/ StartMain PROVE LeftInv'
  BY <1>6, StartLeft
<1>7. CASE UNCHANGED vars
  <2>1. /\ pool' = pool /\ group' = group /\ made' = made /\ terminated' = terminated
        /\ status' = status /\ pc' = pc /\ stack' = stack /\ ops' = ops
    BY <1>7 DEF vars
  <2>2. \A t, o : Doing(t, o)' <=> Doing(t, o)
    BY <2>1 DEF Doing
  <2>3. \A h : (Handled(h)' <=> Handled(h)) /\ (Housed(h)' <=> Housed(h)) /\ (Takeable(h)' <=> Takeable(h))
    BY <2>1 DEF Handled, Housed, Takeable
  <2>4. \A h : /\ Active(h)' <=> Active(h)
               /\ InCall(h)' <=> InCall(h)
               /\ Holds(h)' <=> Holds(h)
    BY <2>1, <2>2 DEF Active, InCall, Holds
  <2>5. \A p : (Pending(p)' <=> Pending(p)) /\ (Unlocking(p)' <=> Unlocking(p))
    BY <2>2 DEF Pending, Unlocking
  <2>6. ShapeInv'
    BY <2>2 DEF LeftInv, QueuesInv, ShapeInv
  <2>7. HandleInv'
    <3>1. \A o : OnWay(o)' <=> OnWay(o)
      BY <2>3 DEF OnWay
    <3>2. \A h : Queued(h)' <=> Queued(h)
      BY <2>1, <2>3 DEF Queued
    <3>3. QED
      BY <3>1, <3>2, <2>1, <2>2 DEF LeftInv, QueuesInv, HandleInv
  <2>8. HolderInv' /\ WindowInv'
    BY <2>1, <2>4 DEF LeftInv, QueuesInv, HolderInv, WindowInv
  <2>9. WakeInv'
    BY <2>1, <2>3, <2>5 DEF LeftInv, QueuesInv, WakeInv
  <2>10. WalkInv'
    <3>1. \A t, o : Walked(t, o)' <=> Walked(t, o)
      BY <2>1, <2>3, <2>5 DEF Walked
    <3>2. QED
      BY <3>1, <2>2 DEF LeftInv, QueuesInv, WalkInv
  <2>11. LiveInv'
    <3>1. \A p : Ready(p)' <=> Ready(p)
      BY <2>1, <2>5 DEF Ready, Threads
    <3>2. QED
      BY <3>1, <2>1 DEF LeftInv, AwakeInv, LiveInv
  <2>12. EndInv' /\ SleepInv'
    BY <2>1 DEF LeftInv, AwakeInv, EndInv, SleepInv
  <2>13. QED
    BY <2>6, <2>7, <2>8, <2>9, <2>10, <2>11, <2>12 DEF LeftInv, QueuesInv, AwakeInv
<1>8. QED
  BY <1>1, <1>2, <1>3, <1>4, <1>5, <1>6, <1>7 DEF Next

\* When all threads sleep nothing is under way.
LEMMA AllStill ==
  ASSUME BaseTypes, CountInv, LeftInv, \A t \in Thread : Asleep(t)
  PROVE  /\ \A h : ~Active(h) /\ ~InCall(h) /\ ~Holds(h)
         /\ \A p : ~Pending(p) /\ ~Unlocking(p)
<1>1. \A t \in Thread : ops[t] = <<>> /\ pc[t] \in {"wait", "exited", "unborn"}
  BY DEF Asleep
<1>2. \A t \in Thread : stack[t] = <<>>
  BY <1>1 DEF LeftInv, AwakeInv, SleepInv, CountInv, StartInv
<1>3. \A t \in Thread : \A o : ~Doing(t, o)
  BY <1>1 DEF Doing
<1>4. \A h : ~Active(h)
  BY <1>2 DEF Active, Contains
<1>5. QED
  BY <1>3, <1>4 DEF InCall, Holds, Pending, Unlocking

\* Then no queued task may lock its group: some thread of its pool would be awake.
LEMMA NoneTakeable ==
  ASSUME Manned, BaseTypes, CountInv, LeftInv, started, ~terminated, \A t \in Thread : Asleep(t),
         NEW h \in Task, status[h] = "queued", Takeable(h)
  PROVE  FALSE
<1>1. PICK p : p = Target[h]
  OBVIOUS
<1>2. p \in Pool /\ p \in made /\ h \in pool[p].queue
  BY <1>1, TaskFacts DEF LeftInv, QueuesInv, HandleInv, Queued, Housed
<1>3. ~Pending(p) /\ ~Unlocking(p)
  BY AllStill
<1>4. Ready(p)
  BY <1>2, <1>3 DEF LeftInv, QueuesInv, AwakeInv, WakeInv, LiveInv
<1>5. ASSUME NEW t \in Threads(p) PROVE pc[t] = "wait"
  <2>1. t \in Thread /\ Home[t] = p
    BY DEF Threads
  <2>2. pc[t] # "unborn"
    BY <2>1, <1>2 DEF CountInv, StartInv
  <2>3. pc[t] # "exited"
    BY <2>1, <1>2 DEF LeftInv, AwakeInv, EndInv
  <2>4. QED
    BY <2>1, <2>2, <2>3 DEF Asleep
<1>6. PICK t \in Threads(p) : TRUE
  BY <1>2 DEF Manned
<1>7. QED
  BY <1>3, <1>4, <1>5, <1>6 DEF Ready

\* The first in the queue of a group of which nobody has a token may lock it.
LEMMA FirstMayLock ==
  ASSUME NEW n \in Nat \ {0}, NEW g \in GroupState, GroupInv(g, n), g.locked = {}, g.queue # {}
  PROVE  First(g.queue) \in g.queue /\ Lockable(g, First(g.queue))
<1>1. PICK k : k = First(g.queue)
  OBVIOUS
<1>2. g.queue \in SUBSET Task
  BY DEF GroupState
<1>3. k \in g.queue /\ \A j \in g.queue \ {k} : Before(k, j)
  BY <1>1, <1>2, FirstOf
<1>4. Ahead(g, k) \subseteq {k}
  <2>1. ASSUME NEW j \in g.queue, Before(j, k), j # k PROVE FALSE
    <3>1. Before(k, j) /\ j \in Task /\ k \in Task
      BY <2>1, <1>2, <1>3
    <3>2. QED
      BY <3>1, <2>1, TaskAssumption DEF Before
  <2>2. QED
    BY <2>1 DEF Ahead
<1>5. g.tokens = n
  <2>1. Cardinality(g.locked) = 0 /\ g.tokens \in Int
    BY FS_EmptySet DEF GroupState
  <2>2. QED
    BY <2>1 DEF GroupInv
<1>6. Free(g, k) >= 0
  <2>1. Cardinality({k}) = 1 /\ IsFiniteSet({k})
    BY FS_Singleton
  <2>2. Cardinality(Ahead(g, k)) <= 1
    BY <2>1, <1>4, FS_Subset
  <2>3. QED
    BY <2>2, <1>5, FreeOf
<1>7. QED
  BY <1>1, <1>3, <1>6 DEF Lockable

LEMMA NoneQueued ==
  ASSUME SingleGroups, Manned, BaseTypes, CountInv, GroupsInv, LeftInv, started, ~terminated,
         \A t \in Thread : Asleep(t), NEW h \in Task, status[h] = "queued"
  PROVE  FALSE
<1>1. Handled(h)
  BY DEF LeftInv, QueuesInv, HandleInv, Queued
<1>2. CASE Groups[h] = <<>>
  <2>1. Takeable(h)
    BY <1>2 DEF Takeable
  <2>2. QED
    BY <2>1, NoneTakeable
<1>3. CASE Groups[h] # <<>>
  <2>1. PICK a : a = Head(Groups[h])
    OBVIOUS
  <2>2. a \in Group /\ h \in group[a].queue
    BY <2>1, <1>1, <1>3, SoleGroup
  <2>3. PICK g \in GroupState : g = group[a] /\ GroupInv(g, Concurrency[a])
    BY <2>2 DEF BaseTypes, GroupTypes, GroupsInv
  <2>4. \A j \in g.queue : /\ Groups[j] = <<a>> /\ status[j] = "queued" /\ j \notin g.locked
    BY <2>2, <2>3, AllStill DEF LeftInv, QueuesInv, HolderInv
  <2>5. g.locked = {} /\ g.queue # {}
    BY <2>2, <2>3, <2>4 DEF GroupInv
  <2>6. Concurrency[a] \in Nat \ {0}
    BY <2>2, PoolAssumption
  <2>7. PICK k : k = First(g.queue) /\ k \in g.queue /\ Lockable(g, k)
    BY <2>3, <2>5, <2>6, FirstMayLock
  <2>8. k \in Task /\ Groups[k] = <<a>> /\ status[k] = "queued"
    BY <2>4, <2>7 DEF GroupState
  <2>9. Groups[k] # <<>> /\ Head(Groups[k]) = a
    BY <2>8
  <2>10. Takeable(k)
    BY <2>3, <2>7, <2>8, <2>9, SoleGroup
  <2>11. QED
    BY <2>8, <2>10, NoneTakeable
<1>4. QED
  BY <1>2, <1>3

\* When every thread sleeps or has ended no task is in a queue, so no notification is lost
\* (Pool.cpp:86-122, Group.cpp:47-92): if no task has two groups, every pool has a thread and no
\* pool outlasts a stop, for any number of threads, pools and groups and any order of the calls.
THEOREM NothingLeftBehind ==
  ASSUME SingleGroups, Manned, Persistent = {} PROVE Spec => []NothingLeft
<1> DEFINE Inv == BaseTypes /\ TaskInv /\ CountInv /\ GroupsInv /\ LeftInv
<1>1. Init => GroupsInv /\ LeftInv
  BY GroupsInit, LeftInit
<1>2. BaseTypes /\ TaskInv /\ CountInv /\ GroupsInv /\ LeftInv /\ [Next]_vars /\ TaskInv' => GroupsInv' /\ LeftInv'
  BY GroupsNext, LeftNext
<1>3. BaseTypes /\ CountInv /\ GroupsInv /\ LeftInv => NothingLeft
  BY NoneQueued DEF NothingLeft
<1>4. QED
  BY <1>1, <1>2, <1>3, CountAlways, PTL DEF Spec
=============================================================================
