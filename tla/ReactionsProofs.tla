-------------------------- MODULE ReactionsProofs --------------------------
(***************************************************************************)
(* Theorems about Reactions, for every set of reactions and threads, every  *)
(* sentence the assumptions allow and any number of emits.                   *)
(***************************************************************************)
EXTENDS Reactions, FiniteSetTheorems, SequenceTheorems, TLAPS

-----------------------------------------------------------------------------
(* What the variables hold.                                                  *)

Spoken == UNION {Range(Sentence[r]) : r \in Reaction}

\* Only on<Always> has idle tasks.
Task == {k \in [r : Reaction, seen : Seq(Seq(Nat)), type : Type \union {None},
                datum : Nat, idle : BOOLEAN] : k.idle => k.r \in AlwaysOn}

EmitFrame == [kind : {"emit"}, type : Type, datum : Nat \ {0}, inline : BOOLEAN,
              at : Nat \ {0}, end : Nat]
MakeFrame == [kind : {"make"}, r : Reaction, inline : BOOLEAN, stage : {"new", "check", "get"}]
RunFrame == {f \in [kind : {"run"}, task : Task, stage : {"body", "idle", "post"},
                    todo : Seq(Spoken), current : Nat, scope : Nat] :
                f.stage = "idle" => f.task.idle}
Frame == EmitFrame \union MakeFrame \union RunFrame

Types ==
    /\ list \in [Type -> Seq(Reaction)] /\ enabled \in [Reaction -> BOOLEAN]
    /\ active \in [Reaction -> Int]
    /\ store \in [Type -> Nat] /\ cell \in [Thread -> [Type -> Nat]]
    /\ mem \in [Reaction -> Seq(Seq(Nat))]
    /\ \A r \in Reaction : DOMAIN mem[r] = DOMAIN Gives[r]
    /\ queue \in SUBSET Task /\ stack \in [Thread -> Seq(Frame)]
    /\ current \in [Thread -> Nat] /\ scope \in [Thread -> Nat]
    /\ emits \in Nat

-----------------------------------------------------------------------------
(* The stack of a thread: what the four operations on it leave.              *)

LEMMA TopOf ==
    ASSUME NEW S, NEW s \in Seq(S), s # <<>>
    PROVE  /\ Len(s) \in Nat \ {0} /\ Last(s) = s[Len(s)] /\ Last(s) \in S
           /\ Front(s) \in Seq(S) /\ Len(Front(s)) = Len(s) - 1
           /\ \A j \in 1..(Len(s) - 1) : Front(s)[j] = s[j]
<1>1. Len(s) \in Nat \ {0}
  BY EmptySeq
<1>2. \A j \in 1..Len(s) : s[j] \in S
  BY ElementOfSeq
<1>3. \A j \in 1..(Len(s) - 1) : s[j] \in S
  BY <1>1, <1>2
<1>4. /\ SubSeq(s, 1, Len(s) - 1) \in Seq(S)
      /\ Len(SubSeq(s, 1, Len(s) - 1)) = IF 1 <= Len(s) - 1 THEN (Len(s) - 1) - 1 + 1 ELSE 0
      /\ \A j \in 1..((Len(s) - 1) - 1 + 1) : SubSeq(s, 1, Len(s) - 1)[j] = s[1 + j - 1]
  BY <1>1, <1>3, SubSeqProperties
<1>5. \A j \in 1..(Len(s) - 1) : SubSeq(s, 1, Len(s) - 1)[j] = s[j]
  BY <1>1, <1>4
<1>6. Front(s) = SubSeq(s, 1, Len(s) - 1) /\ Last(s) = s[Len(s)]
  BY DEF Last, Front
<1>7. Len(SubSeq(s, 1, Len(s) - 1)) = Len(s) - 1
  <2>1. \A n \in Nat \ {0} : (IF 1 <= n - 1 THEN (n - 1) - 1 + 1 ELSE 0) = n - 1
    OBVIOUS
  <2> QED
    BY <1>1, <1>4, <2>1
<1>8. Last(s) \in S
  BY <1>1, <1>2, <1>6
<1> QED
  BY <1>1, <1>4, <1>5, <1>6, <1>7, <1>8

LEMMA BelowIs ==
    ASSUME NEW S, NEW s \in Seq(S), s # <<>>, Front(s) # <<>>
    PROVE  LET m == Len(s) - 1 IN
           /\ m \in 1..Len(s) /\ m + 1 = Len(s) /\ m # Len(s)
           /\ Last(Front(s)) = s[m] /\ s[m] \in S
<1> DEFINE m == Len(s) - 1
           b == Front(s)
<1>1. Len(s) \in Nat \ {0} /\ b \in Seq(S) /\ Len(b) = m /\ \A j \in 1..m : b[j] = s[j]
  BY TopOf
<1> HIDE DEF b
<1>2. Len(b) \in Nat \ {0} /\ Last(b) = b[Len(b)] /\ Last(b) \in S
  BY <1>1, TopOf DEF b
<1>3. m \in 1..m /\ m \in 1..Len(s) /\ m + 1 = Len(s) /\ m # Len(s)
  BY <1>1, <1>2
<1>4. Last(b) = s[m]
  BY <1>1, <1>2, <1>3
<1> QED
  BY <1>2, <1>3, <1>4 DEF b

\* The top frame in a new form, and another one on it.
LEMMA Swapped ==
    ASSUME NEW S, NEW s \in Seq(S), s # <<>>, NEW f \in S
    PROVE  LET s2 == Append(Front(s), f) IN
           /\ s2 \in Seq(S) /\ s2 # <<>> /\ Len(s2) = Len(s) /\ s2[Len(s)] = f
           /\ \A j \in 1..(Len(s) - 1) : s2[j] = s[j]
<1>1. /\ Len(s) \in Nat \ {0} /\ Front(s) \in Seq(S) /\ Len(Front(s)) = Len(s) - 1
      /\ \A j \in 1..(Len(s) - 1) : Front(s)[j] = s[j]
  BY TopOf
<1>2. /\ Append(Front(s), f) \in Seq(S) /\ Append(Front(s), f) # <<>>
      /\ Len(Append(Front(s), f)) = Len(Front(s)) + 1
      /\ \A j \in 1..Len(Front(s)) : Append(Front(s), f)[j] = Front(s)[j]
      /\ Append(Front(s), f)[Len(Front(s)) + 1] = f
  BY <1>1, AppendProperties
<1> QED
  BY <1>1, <1>2

LEMMA TwoOnTop ==
    ASSUME NEW S, NEW s \in Seq(S), NEW f \in S, NEW g \in S
    PROVE  s \o <<f, g>> = Append(Append(s, f), g)
<1> DEFINE two == <<f, g>>
           both == Append(Append(s, f), g)
<1>1. two \in Seq(S) /\ Len(two) = 2 /\ two[1] = f /\ two[2] = g
  OBVIOUS
<1>2. Len(s) \in Nat
  BY LenProperties
<1>3. /\ Append(s, f) \in Seq(S) /\ Len(Append(s, f)) = Len(s) + 1
      /\ \A i \in 1..Len(s) : Append(s, f)[i] = s[i]
      /\ Append(s, f)[Len(s) + 1] = f
  BY AppendProperties
<1>4. /\ both \in Seq(S) /\ Len(both) = Len(s) + 2
      /\ \A i \in 1..(Len(s) + 1) : both[i] = Append(s, f)[i]
      /\ both[Len(s) + 2] = g
  <2>1. /\ both \in Seq(S) /\ Len(both) = Len(Append(s, f)) + 1
        /\ \A i \in 1..Len(Append(s, f)) : both[i] = Append(s, f)[i]
        /\ both[Len(Append(s, f)) + 1] = g
    BY <1>3, AppendProperties
  <2>2. Len(Append(s, f)) + 1 = Len(s) + 2
    BY <1>2, <1>3
  <2> QED
    BY <1>3, <2>1, <2>2
<1> HIDE DEF two, both
<1>5. /\ s \o two \in Seq(S) /\ Len(s \o two) = Len(s) + 2
      /\ \A i \in 1..(Len(s) + 2) : (s \o two)[i] = IF i <= Len(s) THEN s[i] ELSE two[i - Len(s)]
  <2>1. /\ s \o two \in Seq(S) /\ Len(s \o two) = Len(s) + Len(two)
        /\ \A i \in 1..(Len(s) + Len(two)) :
              (s \o two)[i] = IF i <= Len(s) THEN s[i] ELSE two[i - Len(s)]
    BY <1>1, ConcatProperties
  <2> QED
    BY <1>1, <2>1
<1>6. \A i \in 1..(Len(s) + 2) : (s \o two)[i] = both[i]
  <2> TAKE i \in 1..(Len(s) + 2)
  <2>1. CASE i \in 1..Len(s)
    BY <1>2, <1>3, <1>4, <1>5, <2>1
  <2>2. CASE i = Len(s) + 1
    <3>1. ~(i <= Len(s)) /\ i - Len(s) = 1 /\ i \in 1..(Len(s) + 1)
      BY <1>2, <2>2
    <3>2. (s \o two)[i] = f
      BY <1>1, <1>5, <3>1
    <3>3. both[i] = Append(s, f)[i]
      BY <1>4, <3>1
    <3> QED
      BY <1>3, <2>2, <3>2, <3>3
  <2>3. CASE i = Len(s) + 2
    <3>1. ~(i <= Len(s)) /\ i - Len(s) = 2
      BY <1>2, <2>3
    <3> QED
      BY <1>1, <1>4, <1>5, <2>3, <3>1
  <2>4. i \in 1..Len(s) \/ i = Len(s) + 1 \/ i = Len(s) + 2
    BY <1>2
  <2> QED
    BY <2>1, <2>2, <2>3, <2>4
<1>7. s \o two = both
  BY <1>4, <1>5, <1>6, SeqEqual
<1> QED
  BY <1>7 DEF two, both

LEMMA Kinds ==
    /\ \A f \in Frame : f.kind = "emit" <=> f \in EmitFrame
    /\ \A f \in Frame : f.kind = "make" <=> f \in MakeFrame
    /\ \A f \in Frame : f.kind = "run" <=> f \in RunFrame
<1>1. \A f \in EmitFrame : f.kind = "emit"
  BY DEF EmitFrame
<1>2. \A f \in MakeFrame : f.kind = "make"
  BY DEF MakeFrame
<1>3. \A f \in RunFrame : f.kind = "run"
  BY DEF RunFrame
<1> QED
  BY <1>1, <1>2, <1>3 DEF Frame

LEMMA TopIs ==
    ASSUME Types, NEW t \in Thread, stack[t] # <<>>
    PROVE  /\ stack[t] \in Seq(Frame) /\ Top(t) \in Frame
           /\ Top(t).kind = "emit" => Top(t) \in EmitFrame
           /\ Top(t).kind = "make" => Top(t) \in MakeFrame
           /\ Top(t).kind = "run" => Top(t) \in RunFrame
<1>1. stack[t] \in Seq(Frame)
  BY DEF Types
<1>2. Top(t) \in Frame
  BY <1>1, TopOf DEF Top
<1> QED
  BY <1>1, <1>2, Kinds

-----------------------------------------------------------------------------
(* What a thread does is sound: its invariant, one part per paragraph.        *)

\* The task has the datum that made it.
OwnDatum(k) == \A i \in DOMAIN k.seen : Gives[k.r][i].of = k.type => Last(k.seen[i]) = k.datum

\* A task is being made on top of everything else, and the emit that it is made
\* for has its datum in the cell.
MakesOnTop(s, c) ==
    /\ \A i \in 1..Len(s) : s[i].kind = "make" => i = Len(s)
    /\ \A i \in 1..Len(s) : i + 1 = Len(s) /\ s[i + 1].kind = "make" /\ s[i].kind = "emit"
                                => c[s[i].type] = s[i].datum

\* A packet is handed out from the bottom, one at a time.
Packets(s, c) ==
    /\ \A i \in 1..Len(s) : s[i].kind = "emit" /\ s[i].type \in Remote => i = 1
    /\ \A T \in Remote : c[T] # 0 => s # <<>> /\ s[1].kind = "emit" /\ s[1].type = T

\* Where the tasks are that run, and those of them that are in TaskScope; each of
\* them remembers the one before it.
RunsAt(s) == {i \in 1..Len(s) : s[i].kind = "run"}
InTaskScope(k) == Scoped(Sentence[k.r]) /\ ~k.idle
ScopedAt(s) == {i \in RunsAt(s) : InTaskScope(s[i].task)}
Latest(M, m, n) == n \in 0..m /\ (n # 0 => n \in M) /\ \A j \in M : j <= m => j <= n
Chained(s, now, scoped) ==
    /\ Latest(RunsAt(s), Len(s), now) /\ Latest(ScopedAt(s), Len(s), scoped)
    /\ \A i \in RunsAt(s) : OwnDatum(s[i].task) /\ Latest(RunsAt(s), i - 1, s[i].current)
    /\ \A i \in ScopedAt(s) : Latest(ScopedAt(s), i - 1, s[i].scope)

SoundStack(s, c, now, scoped) == MakesOnTop(s, c) /\ Packets(s, c) /\ Chained(s, now, scoped)
Sound(t) == SoundStack(stack[t], cell[t], current[t], scope[t])

Context == Types /\ (\A k \in queue : OwnDatum(k)) /\ \A t \in Thread : Sound(t)

-----------------------------------------------------------------------------
(* What a task is given.                                                     *)

LEMMA MaxOfTwo ==
    ASSUME NEW x \in Int, NEW y \in Int
    PROVE  Max({x, y}) = IF x >= y THEN x ELSE y
<1>1. \E z \in {x, y} : \A w \in {x, y} : z >= w
  OBVIOUS
<1> DEFINE P(z) == \A w \in {x, y} : z >= w
<1>2. (CHOOSE z \in {x, y} : P(z)) \in {x, y} /\ P(CHOOSE z \in {x, y} : P(z))
  BY <1>1
<1>3. Max({x, y}) \in {x, y} /\ Max({x, y}) >= x /\ Max({x, y}) >= y
  BY <1>2 DEF Max
<1> QED
  BY <1>3

\* At most one packet is handed out by a thread, and Network::get finds it.
LEMMA HandingIs ==
    ASSUME Types, NEW t \in Thread, Packets(stack[t], cell[t])
    PROVE  /\ Handing(t) \in Nat
           /\ \A T \in Remote : cell[t][T] # 0 => Handing(t) = cell[t][T]
<1> DEFINE all == {0} \union {cell[t][T] : T \in Remote}
<1>0. Remote \subseteq Type /\ \A T \in Remote : cell[t][T] \in Nat
  BY DEF Types, Remote
<1>1. Handing(t) = Max(all)
  BY DEF Handing
<1>2. CASE \A T \in Remote : cell[t][T] = 0
  <2>1. all = {0, 0}
    BY <1>2
  <2> HIDE DEF all
  <2>2. Max(all) = 0
    BY <2>1, MaxOfTwo
  <2> QED
    BY <1>1, <1>2, <2>2
<1>3. ASSUME NEW T \in Remote, cell[t][T] # 0 PROVE Handing(t) = cell[t][T]
  <2>1. \A U \in Remote : cell[t][U] # 0 => U = T
    BY <1>3 DEF Packets
  <2>2. all = {0, cell[t][T]}
    BY <2>1
  <2>3. cell[t][T] \in Nat /\ Max({0, cell[t][T]}) = IF 0 >= cell[t][T] THEN 0 ELSE cell[t][T]
    BY <1>0, MaxOfTwo
  <2> HIDE DEF all
  <2> QED
    BY <1>1, <1>3, <2>2, <2>3
<1> QED
  BY <1>0, <1>2, <1>3

\* Whatever is kept, what was just got is the last of what a task is given.
LEMMA MergedIs ==
    ASSUME NEW kept \in Seq(Nat), NEW got \in Nat, NEW w, w.keep \in Nat
    PROVE  /\ Merged(kept, got, w) \in Seq(Nat)
           /\ got # 0 => Last(Merged(kept, got, w)) = got
<1>1. <<got>> \in Seq(Nat) /\ Last(<<got>>) = got
  BY DEF Last
<1>2. ASSUME w.keep > 0
      PROVE  LET s == Lasts(Append(kept, got), w.keep) IN s \in Seq(Nat) /\ Last(s) = got
  <2> DEFINE s == Append(kept, got)
             n == Len(kept) + 1
             m == Max({1, n - w.keep + 1})
  <2>1. /\ s \in Seq(Nat) /\ Len(s) = n /\ n \in Nat \ {0} /\ s[n] = got
    BY AppendProperties, LenProperties
  <2>2. m \in 1..n
    <3>1. 1 \in Int /\ n - w.keep + 1 \in Int /\ n - w.keep + 1 <= n
      BY <1>2, <2>1
    <3>2. m = IF 1 >= n - w.keep + 1 THEN 1 ELSE n - w.keep + 1
      BY <3>1, MaxOfTwo
    <3> HIDE DEF m, n
    <3> QED
      BY <2>1, <3>1, <3>2
  <2>3. \A i \in 1..n : s[i] \in Nat
    BY <2>1, ElementOfSeq
  <2> HIDE DEF s, n, m
  <2>4. /\ SubSeq(s, m, n) \in Seq(Nat)
        /\ Len(SubSeq(s, m, n)) = IF m <= n THEN n - m + 1 ELSE 0
        /\ \A i \in 1..(n - m + 1) : SubSeq(s, m, n)[i] = s[m + i - 1]
    <3>1. m \in Int /\ n \in Int /\ \A i \in m..n : s[i] \in Nat
      BY <2>1, <2>2, <2>3
    <3> QED
      BY <3>1, SubSeqProperties
  <2>5. Len(SubSeq(s, m, n)) = n - m + 1 /\ n - m + 1 \in 1..(n - m + 1) /\ m + (n - m + 1) - 1 = n
    BY <2>1, <2>2, <2>4
  <2>6. Last(SubSeq(s, m, n)) = got
    BY <2>1, <2>4, <2>5 DEF Last
  <2>7. Lasts(s, w.keep) = SubSeq(s, m, n)
    BY <2>1 DEF Lasts, m
  <2> QED
    BY <2>4, <2>6, <2>7 DEF s
<1> QED
  BY <1>1, <1>2 DEF Merged

-----------------------------------------------------------------------------
(* How many tasks of a reaction there are.  Those that were made are counted     *)
(* in active; those that got past Buffer are waiting for data, queued, or run.  *)

Made(f, r) == \/ f.kind = "make" /\ f.r = r /\ f.stage # "new"
              \/ f.kind = "run" /\ f.task.r = r
Passed(f, r) == \/ f.kind = "make" /\ f.r = r /\ f.stage = "get"
                \/ f.kind = "run" /\ f.task.r = r
MadeAt(r) == {p \in Held : Made(stack[p[1]][p[2]], r)}
PassedAt(r) == {p \in Held : Passed(stack[p[1]][p[2]], r)}
InQueue(r) == {k \in queue : k.r = r}
Bounds(r) == Of(Sentence[r], {"Buffer", "Once"})

Room(made, passed, queued, tasks, bounds) ==
    /\ IsFiniteSet(made) /\ IsFiniteSet(queued) /\ passed \subseteq made
    /\ Cardinality(made) + Cardinality(queued) <= tasks
    /\ \A n \in bounds : Cardinality(passed) + Cardinality(queued) <= n

\* The inductive invariant of BufferKept.
HasRoom(r) == Room(MadeAt(r), PassedAt(r), InQueue(r), active[r], Bounds(r))
Counted == \A r \in Reaction \ AlwaysOn : HasRoom(r)

-----------------------------------------------------------------------------
(* A sound stack after each of the operations.                               *)

\* The frames are what they were but for their progress.
LEMMA SwapSound ==
    ASSUME NEW s \in Seq(Frame), s # <<>>, NEW f \in Frame, NEW c, NEW now, NEW scoped,
           SoundStack(s, c, now, scoped), f.kind = Last(s).kind,
           f.kind = "emit" => f.type = Last(s).type /\ f.datum = Last(s).datum,
           f.kind = "run" => /\ f.task = Last(s).task
                             /\ f.current = Last(s).current /\ f.scope = Last(s).scope
    PROVE  SoundStack(Append(Front(s), f), c, now, scoped)
<1> DEFINE s2 == Append(Front(s), f)
<1>1. Len(s) \in Nat \ {0} /\ Last(s) = s[Len(s)]
  BY TopOf
<1>2. s2 # <<>> /\ Len(s2) = Len(s) /\ s2[Len(s)] = f /\ \A j \in 1..(Len(s) - 1) : s2[j] = s[j]
  BY Swapped
<1> HIDE DEF s2
<1>3. ASSUME NEW i \in 1..Len(s)
      PROVE  /\ s2[i].kind = s[i].kind
             /\ s[i].kind = "emit" => s2[i].type = s[i].type /\ s2[i].datum = s[i].datum
             /\ s[i].kind = "run" => /\ s2[i].task = s[i].task
                                     /\ s2[i].current = s[i].current /\ s2[i].scope = s[i].scope
  <2>1. CASE i = Len(s)
    BY <1>1, <1>2, <2>1
  <2>2. CASE i # Len(s)
    <3>1. s2[i] = s[i]
      BY <1>1, <1>2, <2>2
    <3> QED
      BY <3>1
  <2> QED
    BY <2>1, <2>2
<1>4. RunsAt(s2) = RunsAt(s) /\ ScopedAt(s2) = ScopedAt(s)
  <2>1. RunsAt(s2) = RunsAt(s)
    BY <1>2, <1>3 DEF RunsAt
  <2>2. \A i \in RunsAt(s) : s2[i].task = s[i].task
    BY <1>3 DEF RunsAt
  <2> QED
    BY <2>1, <2>2 DEF ScopedAt
<1>5. \A i \in RunsAt(s) : /\ s2[i].task = s[i].task
                            /\ s2[i].current = s[i].current /\ s2[i].scope = s[i].scope
  BY <1>3 DEF RunsAt
<1>6. ScopedAt(s) \subseteq RunsAt(s)
  BY DEF ScopedAt
<1>7. Chained(s2, now, scoped)
  BY <1>2, <1>4, <1>5, <1>6 DEF Chained, SoundStack
<1>8. MakesOnTop(s2, c)
  <2>1. \A i \in 1..Len(s) : s2[i].kind = "make" => i = Len(s)
    BY <1>3 DEF MakesOnTop, SoundStack
  <2>2. ASSUME NEW i \in 1..Len(s), i + 1 = Len(s), s2[i + 1].kind = "make", s2[i].kind = "emit"
        PROVE  c[s2[i].type] = s2[i].datum
    <3>1. i + 1 \in 1..Len(s)
      BY <1>1, <2>2
    <3>2. s[i + 1].kind = "make" /\ s[i].kind = "emit"
      BY <1>3, <2>2, <3>1
    <3>3. c[s[i].type] = s[i].datum
      BY <2>2, <3>2 DEF MakesOnTop, SoundStack
    <3> QED
      BY <1>3, <3>2, <3>3
  <2> QED
    BY <1>2, <2>1, <2>2 DEF MakesOnTop
<1>9. Packets(s2, c)
  <2>1. ASSUME NEW i \in 1..Len(s), s2[i].kind = "emit", s2[i].type \in Remote PROVE i = 1
    BY <1>3, <2>1 DEF Packets, SoundStack
  <2>2. ASSUME NEW T \in Remote, c[T] # 0 PROVE s2[1].kind = "emit" /\ s2[1].type = T
    <3>1. 1 \in 1..Len(s)
      BY <1>1
    <3>2. s[1].kind = "emit" /\ s[1].type = T
      BY <2>2 DEF Packets, SoundStack
    <3> QED
      BY <1>3, <3>1, <3>2
  <2> QED
    BY <1>2, <2>1, <2>2 DEF Packets
<1> QED
  BY <1>7, <1>8, <1>9 DEF SoundStack, s2

\* Links of a chain are added and taken off at its end.
LEMMA LatestSkips ==
    ASSUME NEW m \in Nat, NEW n, NEW M \in SUBSET (1..m)
    PROVE  Latest(M, m, n) <=> Latest(M, m + 1, n)
<1>1. \A j \in M : j \in 1..m
  OBVIOUS
<1> QED
  BY <1>1 DEF Latest

LEMMA LatestGrows ==
    ASSUME NEW m \in Nat, NEW M \in SUBSET (1..m)
    PROVE  /\ Latest(M \union {m + 1}, m + 1, m + 1)
           /\ \A n, i \in 0..m : Latest(M, i, n) => Latest(M \union {m + 1}, i, n)
  BY DEF Latest

LEMMA LatestShrinks ==
    ASSUME NEW m \in Nat, NEW M \in SUBSET Nat
    PROVE  \A n, i \in 0..m : Latest(M, i, n) => Latest(M \ {m + 1}, i, n)
  BY DEF Latest

\* What runs, after a frame that is no task was put on the stack, ...
LEMMA PlainPush ==
    ASSUME NEW s \in Seq(Frame), NEW f \in Frame, f.kind # "run", NEW now, NEW scoped,
           Chained(s, now, scoped)
    PROVE  Chained(Append(s, f), now, scoped)
<1> DEFINE s2 == Append(s, f)
           n == Len(s)
<1>1. n \in Nat /\ Len(s2) = n + 1 /\ s2[n + 1] = f /\ \A j \in 1..n : s2[j] = s[j]
  BY AppendProperties, LenProperties
<1> HIDE DEF s2
<1>2. RunsAt(s) \subseteq 1..n /\ ScopedAt(s) \subseteq RunsAt(s)
  BY DEF RunsAt, ScopedAt
<1>3. RunsAt(s2) = RunsAt(s)
  <2>1. \A i \in 1..(n + 1) : s2[i].kind = "run" <=> i \in 1..n /\ s[i].kind = "run"
    <3> TAKE i \in 1..(n + 1)
    <3>1. CASE i = n + 1
      BY <1>1, <3>1
    <3>2. CASE i # n + 1
      BY <1>1, <3>2
    <3> QED
      BY <3>1, <3>2
  <2>2. \A i \in 1..n : i \in 1..(n + 1)
    BY <1>1
  <2> QED
    BY <1>1, <2>1, <2>2 DEF RunsAt
<1>4. \A i \in RunsAt(s) : s2[i] = s[i]
  BY <1>1, <1>2
<1>5. ScopedAt(s2) = ScopedAt(s)
  BY <1>3, <1>4 DEF ScopedAt
<1>6. Latest(RunsAt(s2), n + 1, now) /\ Latest(ScopedAt(s2), n + 1, scoped)
  <2>1. Latest(RunsAt(s), n, now) /\ Latest(ScopedAt(s), n, scoped)
    BY DEF Chained
  <2>2. RunsAt(s) \in SUBSET (1..n) /\ ScopedAt(s) \in SUBSET (1..n)
    BY <1>2
  <2> QED
    BY <1>1, <1>3, <1>5, <2>1, <2>2, LatestSkips
<1>7. /\ \A i \in RunsAt(s) : OwnDatum(s2[i].task) /\ Latest(RunsAt(s), i - 1, s2[i].current)
      /\ \A i \in ScopedAt(s) : Latest(ScopedAt(s), i - 1, s2[i].scope)
  BY <1>2, <1>4 DEF Chained
<1>8. Chained(s2, now, scoped)
  BY <1>1, <1>3, <1>5, <1>6, <1>7 DEF Chained
<1> QED
  BY <1>8 DEF s2

\* ... or taken off it.
LEMMA PlainPop ==
    ASSUME NEW s \in Seq(Frame), s # <<>>, Last(s).kind # "run", NEW now, NEW scoped,
           Chained(s, now, scoped)
    PROVE  Chained(Front(s), now, scoped)
<1> DEFINE s2 == Front(s)
           n == Len(s) - 1
<1>1. /\ n \in Nat /\ Len(s) = n + 1 /\ s[n + 1].kind # "run"
      /\ Len(s2) = n /\ \A j \in 1..n : s2[j] = s[j]
  <2>1. /\ Len(s) \in Nat \ {0} /\ Last(s) = s[Len(s)] /\ Len(Front(s)) = Len(s) - 1
        /\ \A j \in 1..(Len(s) - 1) : Front(s)[j] = s[j]
    BY TopOf
  <2>2. Len(s) = n + 1
    BY <2>1
  <2> QED
    BY <2>1, <2>2
<1> HIDE DEF s2, n
<1>2. RunsAt(s) \subseteq 1..n /\ ScopedAt(s) \subseteq RunsAt(s)
  <2>1. \A i \in RunsAt(s) : i \in 1..(n + 1) /\ i # n + 1
    BY <1>1 DEF RunsAt
  <2> QED
    BY <1>1, <2>1 DEF ScopedAt
<1>3. RunsAt(s2) = RunsAt(s)
  <2>1. \A i \in 1..n : i \in 1..(n + 1)
    BY <1>1
  <2> QED
    BY <1>1, <1>2, <2>1 DEF RunsAt
<1>4. \A i \in RunsAt(s) : s2[i] = s[i]
  BY <1>1, <1>2
<1>5. ScopedAt(s2) = ScopedAt(s)
  BY <1>3, <1>4 DEF ScopedAt
<1>6. Latest(RunsAt(s2), n, now) /\ Latest(ScopedAt(s2), n, scoped)
  <2>1. Latest(RunsAt(s), n + 1, now) /\ Latest(ScopedAt(s), n + 1, scoped)
    BY <1>1 DEF Chained
  <2>2. RunsAt(s) \in SUBSET (1..n) /\ ScopedAt(s) \in SUBSET (1..n)
    BY <1>2
  <2> QED
    BY <1>1, <1>3, <1>5, <2>1, <2>2, LatestSkips
<1>7. /\ \A i \in RunsAt(s) : OwnDatum(s2[i].task) /\ Latest(RunsAt(s), i - 1, s2[i].current)
      /\ \A i \in ScopedAt(s) : Latest(ScopedAt(s), i - 1, s2[i].scope)
  BY <1>2, <1>4 DEF Chained
<1>8. Chained(s2, now, scoped)
  BY <1>1, <1>3, <1>5, <1>6, <1>7 DEF Chained
<1> QED
  BY <1>8 DEF s2

LEMMA EmitPushed ==
    ASSUME NEW s \in Seq(Frame), NEW f \in EmitFrame, NEW c, NEW now, NEW scoped,
           SoundStack(s, c, now, scoped), s = <<>> \/ Last(s).kind = "run",
           f.type \in Remote => s = <<>>
    PROVE  SoundStack(Append(s, f), c, now, scoped)
<1> DEFINE s2 == Append(s, f)
           n == Len(s)
<1>1. f \in Frame /\ f.kind = "emit"
  BY Kinds DEF Frame
<1>2. n \in Nat /\ Len(s2) = n + 1 /\ s2[n + 1] = f /\ s2 # <<>> /\ \A j \in 1..n : s2[j] = s[j]
  BY <1>1, AppendProperties, LenProperties
<1>3. Chained(s2, now, scoped)
  BY <1>1, PlainPush DEF SoundStack
<1>4. s # <<>> => n \in 1..n /\ s[n].kind = "run"
  <2>1. s # <<>> => n \in Nat \ {0} /\ Last(s) = s[n]
    BY TopOf
  <2> QED
    BY <2>1
<1> HIDE DEF s2
<1>5. \A i \in 1..(n + 1) : s2[i].kind # "make"
  <2> TAKE i \in 1..(n + 1)
  <2>1. CASE i = n + 1
    BY <1>1, <1>2, <2>1
  <2>2. CASE i # n + 1
    <3>1. i \in 1..n /\ s2[i] = s[i]
      BY <1>2, <2>2
    <3>2. s[i].kind = "make" => i = n
      BY <3>1 DEF SoundStack, MakesOnTop
    <3>3. s # <<>>
      BY <3>1, EmptySeq
    <3> QED
      BY <1>4, <3>1, <3>2, <3>3
  <2> QED
    BY <2>1, <2>2
<1>6. MakesOnTop(s2, c)
  <2>1. \A i \in 1..(n + 1) : i + 1 = n + 1 => s2[i + 1].kind # "make"
    BY <1>2, <1>5
  <2> QED
    BY <1>2, <1>5, <2>1 DEF MakesOnTop
<1>7. Packets(s2, c)
  <2>1. ASSUME NEW i \in 1..(n + 1), s2[i].kind = "emit", s2[i].type \in Remote PROVE i = 1
    <3>1. CASE i = n + 1
      <4>1. s = <<>>
        BY <1>2, <2>1, <3>1
      <4> QED
        BY <3>1, <4>1
    <3>2. CASE i # n + 1
      <4>1. i \in 1..n /\ s2[i] = s[i]
        BY <1>2, <3>2
      <4> QED
        BY <2>1, <4>1 DEF SoundStack, Packets
    <3> QED
      BY <3>1, <3>2
  <2>2. ASSUME NEW T \in Remote, c[T] # 0 PROVE s2[1].kind = "emit" /\ s2[1].type = T
    <3>1. s # <<>> /\ s[1].kind = "emit" /\ s[1].type = T
      BY <2>2 DEF SoundStack, Packets
    <3>2. 1 \in 1..n
      BY <1>2, <1>4, <3>1
    <3> QED
      BY <1>2, <3>1, <3>2
  <2> QED
    BY <1>2, <2>1, <2>2 DEF Packets
<1>8. SoundStack(s2, c, now, scoped)
  BY <1>3, <1>6, <1>7 DEF SoundStack
<1> QED
  BY <1>8 DEF s2

LEMMA MakePushed ==
    ASSUME NEW s \in Seq(Frame), s # <<>>, NEW f \in MakeFrame, NEW c, NEW now, NEW scoped,
           SoundStack(s, c, now, scoped),
           \/ Last(s).kind = "run"
           \/ Last(s).kind = "emit" /\ c[Last(s).type] = Last(s).datum
    PROVE  SoundStack(Append(s, f), c, now, scoped)
<1> DEFINE s2 == Append(s, f)
           n == Len(s)
<1>1. f \in Frame /\ f.kind = "make"
  BY Kinds DEF Frame
<1>2. n \in Nat /\ Len(s2) = n + 1 /\ s2[n + 1] = f /\ s2 # <<>> /\ \A j \in 1..n : s2[j] = s[j]
  BY <1>1, AppendProperties, LenProperties
<1>3. Chained(s2, now, scoped)
  BY <1>1, PlainPush DEF SoundStack
<1>4. /\ n \in 1..n /\ 1 \in 1..n /\ s[n].kind # "make"
      /\ s[n].kind = "emit" => c[s[n].type] = s[n].datum
  <2>1. n \in Nat \ {0} /\ Last(s) = s[n]
    BY TopOf
  <2> QED
    BY <2>1
<1> HIDE DEF s2
<1>5. MakesOnTop(s2, c)
  <2>1. ASSUME NEW i \in 1..(n + 1), s2[i].kind = "make" PROVE i = n + 1
    <3>1. SUFFICES ASSUME i # n + 1 PROVE FALSE
      OBVIOUS
    <3>2. i \in 1..n /\ s2[i] = s[i]
      BY <1>2, <3>1
    <3>3. i = n
      BY <2>1, <3>2 DEF SoundStack, MakesOnTop
    <3> QED
      BY <1>4, <2>1, <3>2, <3>3
  <2>2. ASSUME NEW i \in 1..(n + 1), i + 1 = n + 1, s2[i].kind = "emit"
        PROVE  c[s2[i].type] = s2[i].datum
    <3>1. i = n
      BY <1>2, <2>2
    <3> QED
      BY <1>2, <1>4, <2>2, <3>1
  <2> QED
    BY <1>2, <2>1, <2>2 DEF MakesOnTop
<1>6. Packets(s2, c)
  <2>1. ASSUME NEW i \in 1..(n + 1), s2[i].kind = "emit", s2[i].type \in Remote PROVE i = 1
    <3>1. i \in 1..n /\ s2[i] = s[i]
      BY <1>1, <1>2, <2>1
    <3> QED
      BY <2>1, <3>1 DEF SoundStack, Packets
  <2>2. ASSUME NEW T \in Remote, c[T] # 0 PROVE s2[1].kind = "emit" /\ s2[1].type = T
    BY <1>2, <1>4, <2>2 DEF SoundStack, Packets
  <2> QED
    BY <1>2, <2>1, <2>2 DEF Packets
<1>7. SoundStack(s2, c, now, scoped)
  BY <1>3, <1>5, <1>6 DEF SoundStack
<1> QED
  BY <1>7 DEF s2

LEMMA RunPushed ==
    ASSUME NEW s \in Seq(Frame), s # <<>> => Last(s).kind # "make", NEW f \in RunFrame,
           NEW c, NEW now \in Nat, NEW scoped \in Nat, SoundStack(s, c, now, scoped),
           f.current = now, f.scope = scoped, OwnDatum(f.task), s = <<>> => \A T \in Remote : c[T] = 0
    PROVE  SoundStack(Append(s, f), c, Len(s) + 1,
                      IF InTaskScope(f.task) THEN Len(s) + 1 ELSE scoped)
<1> DEFINE s2 == Append(s, f)
           n == Len(s)
           entered == IF InTaskScope(f.task) THEN n + 1 ELSE scoped
<1>1. f \in Frame /\ f.kind = "run"
  BY Kinds DEF Frame
<1>2. n \in Nat /\ Len(s2) = n + 1 /\ s2[n + 1] = f /\ s2 # <<>> /\ \A j \in 1..n : s2[j] = s[j]
  BY <1>1, AppendProperties, LenProperties
<1>3. s # <<>> => n \in Nat \ {0} /\ Last(s) = s[n]
  BY TopOf
<1>4. \A i \in 1..n : s # <<>>
  BY EmptySeq
<1> HIDE DEF s2, n
<1>5. \A i \in 1..n : s[i].kind # "make"
  BY <1>3, <1>4 DEF SoundStack, MakesOnTop, n
<1>6. \A i \in 1..(n + 1) : s2[i].kind # "make"
  <2> TAKE i \in 1..(n + 1)
  <2>1. i \in 1..n \/ i = n + 1
    BY <1>2
  <2> QED
    BY <1>1, <1>2, <1>5, <2>1
<1>7. MakesOnTop(s2, c)
  <2>1. \A i \in 1..(n + 1) : i + 1 = n + 1 => s2[i + 1].kind # "make"
    BY <1>2, <1>6
  <2> QED
    BY <1>2, <1>6, <2>1 DEF MakesOnTop
<1>8. Packets(s2, c)
  <2>1. ASSUME NEW i \in 1..(n + 1), s2[i].kind = "emit", s2[i].type \in Remote PROVE i = 1
    <3>1. i \in 1..n /\ s2[i] = s[i]
      BY <1>1, <1>2, <2>1
    <3> QED
      BY <2>1, <3>1 DEF SoundStack, Packets, n
  <2>2. ASSUME NEW T \in Remote, c[T] # 0 PROVE s2[1].kind = "emit" /\ s2[1].type = T
    <3>1. s # <<>> /\ s[1].kind = "emit" /\ s[1].type = T
      BY <2>2 DEF SoundStack, Packets
    <3>2. 1 \in 1..n
      BY <1>3, <3>1
    <3> QED
      BY <1>2, <3>1, <3>2
  <2> QED
    BY <1>2, <2>1, <2>2 DEF Packets
<1>9. RunsAt(s) \in SUBSET (1..n) /\ ScopedAt(s) \in SUBSET (1..n) /\ ScopedAt(s) \subseteq RunsAt(s)
  BY DEF RunsAt, ScopedAt, n
<1>10. \A i \in 1..n : s2[i] = s[i] /\ i \in 1..(n + 1) /\ i - 1 \in 0..n
  BY <1>2
<1>11. RunsAt(s2) = RunsAt(s) \union {n + 1}
  <2>1. ASSUME NEW i \in 1..(n + 1)
        PROVE  s2[i].kind = "run" <=> i = n + 1 \/ (i \in 1..n /\ s[i].kind = "run")
    <3>1. i \in 1..n \/ i = n + 1
      BY <1>2
    <3> QED
      BY <1>1, <1>2, <3>1
  <2>2. n + 1 \in 1..(n + 1)
    BY <1>2
  <2> QED
    BY <1>2, <1>10, <2>1, <2>2 DEF RunsAt, n
<1>12. ScopedAt(s2) = IF InTaskScope(f.task) THEN ScopedAt(s) \union {n + 1} ELSE ScopedAt(s)
  BY <1>2, <1>9, <1>10, <1>11 DEF ScopedAt
<1>13. /\ now \in 0..n /\ Latest(RunsAt(s), n, now) /\ scoped \in 0..n /\ Latest(ScopedAt(s), n, scoped)
       /\ \A i \in RunsAt(s) : OwnDatum(s[i].task) /\ Latest(RunsAt(s), i - 1, s[i].current)
       /\ \A i \in ScopedAt(s) : Latest(ScopedAt(s), i - 1, s[i].scope)
  BY DEF SoundStack, Chained, Latest, n
<1>14. \A M, i, k : Latest(M, i, k) => k \in 0..i
  BY DEF Latest
<1>a. /\ Latest(RunsAt(s) \union {n + 1}, n + 1, n + 1)
      /\ \A k, i \in 0..n : Latest(RunsAt(s), i, k) => Latest(RunsAt(s) \union {n + 1}, i, k)
  BY <1>2, <1>9, LatestGrows
<1>b. /\ Latest(ScopedAt(s) \union {n + 1}, n + 1, n + 1)
      /\ \A k, i \in 0..n : Latest(ScopedAt(s), i, k) => Latest(ScopedAt(s) \union {n + 1}, i, k)
  BY <1>2, <1>9, LatestGrows
<1>c. n \in 0..n
  BY <1>2
<1>15. Latest(RunsAt(s2), n + 1, n + 1) /\ Latest(RunsAt(s2), n, now)
  BY <1>11, <1>13, <1>a, <1>c
<1>16. Latest(ScopedAt(s2), n + 1, entered) /\ (InTaskScope(f.task) => Latest(ScopedAt(s2), n, scoped))
  <2>1. CASE InTaskScope(f.task)
    BY <1>12, <1>13, <1>b, <1>c, <2>1
  <2>2. CASE ~InTaskScope(f.task)
    <3>1. Latest(ScopedAt(s), n + 1, scoped)
      BY <1>2, <1>9, <1>13, LatestSkips
    <3> QED
      BY <1>12, <2>2, <3>1
  <2> QED
    BY <2>1, <2>2
<1>17. ASSUME NEW i \in RunsAt(s2)
       PROVE  OwnDatum(s2[i].task) /\ Latest(RunsAt(s2), i - 1, s2[i].current)
  <2>1. CASE i = n + 1
    BY <1>2, <1>15, <2>1
  <2>2. CASE i \in RunsAt(s)
    <3>1. s2[i] = s[i] /\ i - 1 \in 0..n /\ i \in Nat
      BY <1>9, <1>10, <2>2
    <3>2. Latest(RunsAt(s), i - 1, s[i].current) /\ s[i].current \in 0..(i - 1)
      BY <1>13, <1>14, <2>2
    <3>3. s[i].current \in 0..n
      BY <1>2, <3>1, <3>2
    <3>4. Latest(RunsAt(s2), i - 1, s[i].current)
      BY <1>11, <1>a, <3>1, <3>2, <3>3
    <3> QED
      BY <1>13, <2>2, <3>1, <3>4
  <2> QED
    BY <1>11, <2>1, <2>2
<1>18. ASSUME NEW i \in ScopedAt(s2) PROVE Latest(ScopedAt(s2), i - 1, s2[i].scope)
  <2>1. CASE i = n + 1
    <3>1. InTaskScope(f.task)
      BY <1>2, <2>1 DEF ScopedAt
    <3> QED
      BY <1>2, <1>16, <2>1, <3>1
  <2>2. CASE i \in ScopedAt(s)
    <3>1. s2[i] = s[i] /\ i - 1 \in 0..n /\ i \in Nat
      BY <1>9, <1>10, <2>2
    <3>2. Latest(ScopedAt(s), i - 1, s[i].scope) /\ s[i].scope \in 0..(i - 1)
      BY <1>13, <1>14, <2>2
    <3>3. s[i].scope \in 0..n
      BY <1>2, <3>1, <3>2
    <3>4. Latest(ScopedAt(s) \union {n + 1}, i - 1, s[i].scope)
      BY <1>b, <3>1, <3>2, <3>3
    <3> QED
      BY <1>12, <3>1, <3>2, <3>4
  <2> QED
    BY <1>12, <2>1, <2>2
<1>19. Chained(s2, n + 1, entered)
  BY <1>2, <1>15, <1>16, <1>17, <1>18 DEF Chained
<1>20. SoundStack(s2, c, n + 1, entered)
  BY <1>7, <1>8, <1>19 DEF SoundStack
<1> QED
  BY <1>20 DEF s2, n

\* Below the top no task is being made; the cell of an emit that ends is cleared.
LEMMA BelowTop ==
    ASSUME NEW s \in Seq(Frame), s # <<>>, NEW c, NEW c2, NEW now, NEW scoped,
           SoundStack(s, c, now, scoped),
           \A T \in Remote : c2[T] # 0 => c[T] # 0 /\ ~(Last(s).kind = "emit" /\ Last(s).type = T)
    PROVE  MakesOnTop(Front(s), c2) /\ Packets(Front(s), c2)
<1> DEFINE s2 == Front(s)
           n == Len(s)
<1>1. /\ n \in Nat \ {0} /\ Last(s) = s[n] /\ s2 \in Seq(Frame) /\ Len(s2) = n - 1
      /\ \A j \in 1..(n - 1) : s2[j] = s[j]
  BY TopOf
<1> HIDE DEF s2, n
<1>2. \A i \in 1..(n - 1) : s2[i] = s[i] /\ i \in 1..n /\ i # n
  BY <1>1
<1>3. \A i \in 1..(n - 1) : s2[i].kind # "make"
  BY <1>2 DEF SoundStack, MakesOnTop, n
<1>4. MakesOnTop(s2, c2)
  <2>1. \A i \in 1..(n - 1) : i + 1 = n - 1 => i + 1 \in 1..(n - 1)
    BY <1>1
  <2> QED
    BY <1>1, <1>3, <2>1 DEF MakesOnTop
<1>5. Packets(s2, c2)
  <2>1. \A i \in 1..(n - 1) : s2[i].kind = "emit" /\ s2[i].type \in Remote => i = 1
    BY <1>2 DEF SoundStack, Packets, n
  <2>2. ASSUME NEW T \in Remote, c2[T] # 0
        PROVE  s2 # <<>> /\ s2[1].kind = "emit" /\ s2[1].type = T
    <3>1. s[1].kind = "emit" /\ s[1].type = T
      BY <2>2 DEF SoundStack, Packets
    <3>2. n # 1
      BY <1>1, <2>2, <3>1
    <3>3. 1 \in 1..(n - 1) /\ Len(s2) # 0
      BY <1>1, <3>2
    <3>4. s2 # <<>>
      BY <3>3, EmptySeq
    <3> QED
      BY <1>2, <3>1, <3>3, <3>4
  <2> QED
    BY <1>1, <2>1, <2>2 DEF Packets
<1> QED
  BY <1>4, <1>5 DEF s2

LEMMA MakePopped ==
    ASSUME NEW s \in Seq(Frame), s # <<>>, Last(s).kind = "make", NEW c, NEW now, NEW scoped,
           SoundStack(s, c, now, scoped)
    PROVE  SoundStack(Front(s), c, now, scoped)
<1>1. \A T \in Remote : c[T] # 0 => c[T] # 0 /\ ~(Last(s).kind = "emit" /\ Last(s).type = T)
  OBVIOUS
<1>2. MakesOnTop(Front(s), c) /\ Packets(Front(s), c)
  BY <1>1, BelowTop
<1>3. Chained(Front(s), now, scoped)
  BY PlainPop DEF SoundStack
<1> QED
  BY <1>2, <1>3 DEF SoundStack

LEMMA EmitPopped ==
    ASSUME NEW s \in Seq(Frame), s # <<>>, Last(s).kind = "emit", NEW c, NEW now, NEW scoped,
           DOMAIN c = Type, SoundStack(s, c, now, scoped)
    PROVE  SoundStack(Front(s), [c EXCEPT ![Last(s).type] = 0], now, scoped)
<1> DEFINE c2 == [c EXCEPT ![Last(s).type] = 0]
<1>0. Remote \subseteq Type
  BY DEF Remote
<1>1. \A T \in Remote : c2[T] # 0 => c[T] # 0 /\ ~(Last(s).kind = "emit" /\ Last(s).type = T)
  BY <1>0
<1> HIDE DEF c2
<1>2. MakesOnTop(Front(s), c2) /\ Packets(Front(s), c2)
  BY <1>1, BelowTop
<1>3. Chained(Front(s), now, scoped)
  BY PlainPop DEF SoundStack
<1>4. SoundStack(Front(s), c2, now, scoped)
  BY <1>2, <1>3 DEF SoundStack
<1> QED
  BY <1>4 DEF c2

LEMMA CellSet ==
    ASSUME NEW s \in Seq(Frame), s # <<>>, Last(s).kind = "emit", NEW c, NEW now, NEW scoped,
           DOMAIN c = Type, SoundStack(s, c, now, scoped)
    PROVE  SoundStack(s, [c EXCEPT ![Last(s).type] = Last(s).datum], now, scoped)
<1> DEFINE c2 == [c EXCEPT ![Last(s).type] = Last(s).datum]
           n == Len(s)
<1>0. Remote \subseteq Type
  BY DEF Remote
<1>1. n \in Nat \ {0} /\ Last(s) = s[n]
  BY TopOf
<1>2. \A T \in Remote : c2[T] # 0 => c[T] # 0 \/ T = Last(s).type
  BY <1>0
<1> HIDE DEF c2
<1>3. \A i \in 1..n : s[i].kind # "make"
  BY <1>1 DEF SoundStack, MakesOnTop
<1>4. MakesOnTop(s, c2)
  <2>1. \A i \in 1..n : i + 1 = n => i + 1 \in 1..n
    BY <1>1
  <2> QED
    BY <1>3, <2>1 DEF MakesOnTop
<1>5. Packets(s, c2)
  <2>1. ASSUME NEW T \in Remote, c2[T] # 0 PROVE s[1].kind = "emit" /\ s[1].type = T
    <3>1. CASE c[T] # 0
      BY <3>1 DEF SoundStack, Packets
    <3>2. CASE T = Last(s).type
      <4>1. n \in 1..n /\ s[n].kind = "emit" /\ s[n].type \in Remote
        BY <1>1, <3>2
      <4>2. n = 1
        BY <4>1 DEF SoundStack, Packets
      <4> QED
        BY <1>1, <3>2, <4>2
    <3> QED
      BY <1>2, <2>1, <3>1, <3>2
  <2> QED
    BY <2>1 DEF SoundStack, Packets
<1>6. SoundStack(s, c2, now, scoped)
  BY <1>4, <1>5 DEF SoundStack
<1> QED
  BY <1>6 DEF c2

LEMMA RunPopped ==
    ASSUME NEW s \in Seq(Frame), s # <<>>, Last(s).kind = "run", NEW c, NEW now \in Nat,
           NEW scoped \in Nat, SoundStack(s, c, now, scoped)
    PROVE  SoundStack(Front(s), c, Last(s).current,
                      IF InTaskScope(Last(s).task) THEN Last(s).scope ELSE scoped)
<1> DEFINE s2 == Front(s)
           n == Len(s) - 1
           f == Last(s)
           left == IF InTaskScope(f.task) THEN f.scope ELSE scoped
<1>1. \A T \in Remote : c[T] # 0 => c[T] # 0 /\ ~(Last(s).kind = "emit" /\ Last(s).type = T)
  OBVIOUS
<1>2. MakesOnTop(Front(s), c) /\ Packets(Front(s), c)
  BY <1>1, BelowTop
<1>3. /\ n \in Nat /\ Len(s) = n + 1 /\ s[n + 1] = f /\ f.kind = "run"
      /\ Len(s2) = n /\ \A j \in 1..n : s2[j] = s[j]
  <2>1. /\ Len(s) \in Nat \ {0} /\ Last(s) = s[Len(s)] /\ Len(Front(s)) = Len(s) - 1
        /\ \A j \in 1..(Len(s) - 1) : Front(s)[j] = s[j]
    BY TopOf
  <2>2. Len(s) = n + 1
    BY <2>1
  <2> QED
    BY <2>1, <2>2
<1> HIDE DEF s2, n, f
<1>4. \A i \in 1..n : s2[i] = s[i] /\ i \in 1..(n + 1) /\ i # n + 1 /\ i \in Nat /\ i - 1 \in 0..n
  BY <1>3
<1>5. \A i \in 1..(n + 1) : i \in 1..n \/ i = n + 1
  BY <1>3
<1>6. RunsAt(s) = RunsAt(s2) \union {n + 1} /\ RunsAt(s2) = RunsAt(s) \ {n + 1} /\ RunsAt(s2) \subseteq 1..n
  <2>1. n + 1 \in 1..(n + 1)
    BY <1>3
  <2> QED
    BY <1>3, <1>4, <1>5, <2>1 DEF RunsAt
<1>7. /\ ScopedAt(s2) = ScopedAt(s) \ {n + 1} /\ ScopedAt(s2) \subseteq RunsAt(s2)
      /\ InTaskScope(f.task) <=> n + 1 \in ScopedAt(s)
  BY <1>3, <1>4, <1>6 DEF ScopedAt
<1>8. ScopedAt(s) \in SUBSET Nat /\ RunsAt(s) \in SUBSET Nat
  BY DEF ScopedAt, RunsAt
<1>9. /\ Latest(ScopedAt(s), n + 1, scoped)
      /\ \A i \in RunsAt(s) : OwnDatum(s[i].task) /\ Latest(RunsAt(s), i - 1, s[i].current)
      /\ \A i \in ScopedAt(s) : Latest(ScopedAt(s), i - 1, s[i].scope)
  BY <1>3 DEF SoundStack, Chained
<1>10. \A M, i, k : Latest(M, i, k) => k \in 0..i
  BY DEF Latest
<1>11. \A k, i \in 0..n : Latest(RunsAt(s), i, k) => Latest(RunsAt(s2), i, k)
  BY <1>3, <1>6, <1>8, LatestShrinks
<1>12. \A k, i \in 0..n : Latest(ScopedAt(s), i, k) => Latest(ScopedAt(s2), i, k)
  BY <1>3, <1>7, <1>8, LatestShrinks
<1>13. n \in 0..n /\ n + 1 - 1 = n
  BY <1>3
<1>14. Latest(RunsAt(s2), n, f.current)
  <2>1. n + 1 \in RunsAt(s)
    BY <1>6
  <2>2. Latest(RunsAt(s), n, f.current)
    BY <1>3, <1>9, <1>13, <2>1
  <2> QED
    BY <1>10, <1>11, <1>13, <2>2
<1>15. Latest(ScopedAt(s2), n, left)
  <2>1. CASE InTaskScope(f.task)
    <3>1. Latest(ScopedAt(s), n, f.scope)
      BY <1>3, <1>7, <1>9, <1>13, <2>1
    <3> QED
      BY <1>10, <1>12, <1>13, <2>1, <3>1
  <2>2. CASE ~InTaskScope(f.task)
    <3>1. ScopedAt(s2) = ScopedAt(s) /\ ScopedAt(s) \in SUBSET (1..n)
      BY <1>6, <1>7, <2>2
    <3>2. Latest(ScopedAt(s), n, scoped)
      BY <1>3, <1>9, <3>1, LatestSkips
    <3> QED
      BY <2>2, <3>1, <3>2
  <2> QED
    BY <2>1, <2>2
<1>16. ASSUME NEW i \in RunsAt(s2)
       PROVE  OwnDatum(s2[i].task) /\ Latest(RunsAt(s2), i - 1, s2[i].current)
  <2>1. i \in RunsAt(s) /\ i \in 1..n
    BY <1>6
  <2>2. s2[i] = s[i] /\ i - 1 \in 0..n /\ i \in Nat
    BY <1>4, <2>1
  <2>3. Latest(RunsAt(s), i - 1, s[i].current) /\ s[i].current \in 0..(i - 1)
    BY <1>9, <1>10, <2>1
  <2>4. s[i].current \in 0..n
    BY <1>3, <2>2, <2>3
  <2> QED
    BY <1>9, <1>11, <2>1, <2>2, <2>3, <2>4
<1>17. ASSUME NEW i \in ScopedAt(s2) PROVE Latest(ScopedAt(s2), i - 1, s2[i].scope)
  <2>1. i \in ScopedAt(s) /\ i \in 1..n
    BY <1>6, <1>7
  <2>2. s2[i] = s[i] /\ i - 1 \in 0..n /\ i \in Nat
    BY <1>4, <2>1
  <2>3. Latest(ScopedAt(s), i - 1, s[i].scope) /\ s[i].scope \in 0..(i - 1)
    BY <1>9, <1>10, <2>1
  <2>4. s[i].scope \in 0..n
    BY <1>3, <2>2, <2>3
  <2> QED
    BY <1>12, <2>2, <2>3, <2>4
<1>18. Chained(s2, f.current, left)
  BY <1>3, <1>14, <1>15, <1>16, <1>17 DEF Chained
<1>19. SoundStack(s2, c, f.current, left)
  BY <1>2, <1>18 DEF SoundStack, s2
<1> QED
  BY <1>19 DEF s2, f

-----------------------------------------------------------------------------
(* Context is inductive: one lemma per action.                                *)

LEMMA StackAfter ==
    ASSUME Types, NEW t \in Thread, NEW s2 \in Seq(Frame), stack' = [stack EXCEPT ![t] = s2]
    PROVE  /\ stack' \in [Thread -> Seq(Frame)] /\ stack'[t] = s2
           /\ \A u \in Thread \ {t} : stack'[u] = stack[u]
  BY DEF Types

\* Only the thread that takes the step is disturbed.
LEMMA OneThread ==
    ASSUME Context, NEW t \in Thread, NEW s2 \in Seq(Frame), stack' = [stack EXCEPT ![t] = s2],
           NEW c2, NEW n2, NEW m2, SoundStack(s2, c2, n2, m2),
           cell'[t] = c2, current'[t] = n2, scope'[t] = m2,
           \A u \in Thread \ {t} : /\ cell'[u] = cell[u] /\ current'[u] = current[u]
                                   /\ scope'[u] = scope[u]
    PROVE  stack' \in [Thread -> Seq(Frame)] /\ \A u \in Thread : Sound(u)'
<1>1. /\ stack' \in [Thread -> Seq(Frame)] /\ stack'[t] = s2
      /\ \A u \in Thread \ {t} : stack'[u] = stack[u]
  BY StackAfter DEF Context
<1>2. Sound(t)'
  BY <1>1 DEF Sound
<1>3. \A u \in Thread \ {t} : Sound(u)'
  BY <1>1 DEF Sound, Context
<1> QED
  BY <1>1, <1>2, <1>3

LEMMA SoundNow ==
    ASSUME Context, NEW t \in Thread
    PROVE  /\ SoundStack(stack[t], cell[t], current[t], scope[t]) /\ stack[t] \in Seq(Frame)
           /\ cell[t] \in [Type -> Nat] /\ current[t] \in Nat /\ scope[t] \in Nat
           /\ stack[t] # <<>> => /\ Top(t) = Last(stack[t]) /\ Top(t) \in Frame
                                 /\ Front(stack[t]) \in Seq(Frame)
                                 /\ Top(t).kind = "emit" => Top(t) \in EmitFrame
                                 /\ Top(t).kind = "make" => Top(t) \in MakeFrame
                                 /\ Top(t).kind = "run" => Top(t) \in RunFrame
  BY TopIs, TopOf DEF Context, Sound, Types, Top

LEMMA LoopType ==
    ASSUME Types, NEW T \in Type, NEW inline \in BOOLEAN
    PROVE  /\ Loop(T, inline) \in EmitFrame /\ Loop(T, inline) \in Frame
           /\ Loop(T, inline).type = T
<1>1. Len(list[T]) \in Nat /\ emits + 1 \in Nat \ {0}
  BY LenProperties DEF Types
<1> QED
  BY <1>1 DEF Loop, EmitFrame, Frame

LEMMA EmitContext ==
    ASSUME Context, NEW t \in Thread, NEW T \in Type, NEW inline \in BOOLEAN, Emit(t, T, inline)
    PROVE  Context'
<1>1. Loop(T, inline) \in EmitFrame /\ Loop(T, inline) \in Frame /\ Loop(T, inline).type = T
  BY LoopType DEF Context
<1>2. stack' = [stack EXCEPT ![t] = Append(stack[t], Loop(T, inline))] /\ emits' = emits + 1
  BY DEF Emit, Push
<1>3. UNCHANGED <<list, enabled, active, store, mem, cell, queue, current, scope>>
  BY DEF Emit, words, running
<1>4. stack[t] = <<>> \/ Top(t).kind = "run"
  BY DEF Emit, MayEmit, At, Doing
<1>5. stack[t] = <<>> \/ Last(stack[t]).kind = "run"
  BY <1>4 DEF Top
<1>6. SoundStack(Append(stack[t], Loop(T, inline)), cell[t], current[t], scope[t])
  <2>1. T \notin Remote
    BY DEF Emit
  <2> QED
    BY <1>1, <1>5, <2>1, SoundNow, EmitPushed
<1>7. Append(stack[t], Loop(T, inline)) \in Seq(Frame)
  BY <1>1, SoundNow, AppendProperties
<1>8. stack' \in [Thread -> Seq(Frame)] /\ \A u \in Thread : Sound(u)'
  BY <1>2, <1>3, <1>6, <1>7, OneThread
<1>9. Types'
  BY <1>2, <1>3, <1>8 DEF Types, Context
<1> QED
  BY <1>3, <1>8, <1>9 DEF Context

LEMMA PacketContext ==
    ASSUME Context, NEW t \in Thread, NEW T \in Type, Packet(t, T)
    PROVE  Context'
<1>1. Loop(T, FALSE) \in EmitFrame /\ Loop(T, FALSE) \in Frame /\ Loop(T, FALSE).type = T
  BY LoopType DEF Context
<1>2. stack' = [stack EXCEPT ![t] = Append(stack[t], Loop(T, FALSE))] /\ emits' = emits + 1
  BY DEF Packet, Push
<1>3. UNCHANGED <<list, enabled, active, store, mem, cell, queue, current, scope>>
  BY DEF Packet, words, running
<1>4. stack[t] = <<>>
  BY DEF Packet
<1>5. SoundStack(Append(stack[t], Loop(T, FALSE)), cell[t], current[t], scope[t])
  BY <1>1, <1>4, SoundNow, EmitPushed
<1>6. Append(stack[t], Loop(T, FALSE)) \in Seq(Frame)
  BY <1>1, SoundNow, AppendProperties
<1>7. stack' \in [Thread -> Seq(Frame)] /\ \A u \in Thread : Sound(u)'
  BY <1>2, <1>3, <1>5, <1>6, OneThread
<1>8. Types'
  <2>1. emits' \in Nat
    BY <1>2 DEF Types, Context
  <2> QED
    BY <1>3, <1>7, <2>1 DEF Types, Context
<1> QED
  BY <1>3, <1>7, <1>8 DEF Context

LEMMA OfferContext ==
    ASSUME Context, NEW t \in Thread, Offer(t)
    PROVE  Context'
<1> DEFINE s == stack[t]
           f == Top(t)
           g == [f EXCEPT !.at = @ + 1]
           m == Making(list[f.type][f.at], f.inline, "new")
           c2 == [cell[t] EXCEPT ![f.type] = f.datum]
<1>1. UNCHANGED <<list, enabled, active, store, mem, emits, queue, current, scope>>
  BY DEF Offer, words, data, running
<1>2. /\ s # <<>> /\ f.kind = "emit" /\ f \in EmitFrame /\ f = Last(s) /\ s \in Seq(Frame)
      /\ SoundStack(s, cell[t], current[t], scope[t]) /\ cell[t] \in [Type -> Nat]
  BY SoundNow DEF Offer, Doing
<1>3. CASE f.at > Len(list[f.type])
  <2>1. UNCHANGED <<cell, stack>>
    BY <1>3 DEF Offer
  <2> QED
    BY <1>1, <2>1 DEF Context, Types, Sound
<1>4. CASE ~(f.at > Len(list[f.type]))
  <2>1. cell' = [cell EXCEPT ![t][f.type] = f.datum] /\ stack' = [stack EXCEPT ![t] = Front(s) \o <<g, m>>]
    BY <1>4 DEF Offer, Cell
  <2>2. f.type \in Type /\ f.datum \in Nat \ {0} /\ f.at \in Nat \ {0} /\ f.inline \in BOOLEAN
    BY <1>2 DEF EmitFrame
  <2>3. list[f.type][f.at] \in Reaction
    <3>1. list[f.type] \in Seq(Reaction)
      BY <2>2 DEF Context, Types
    <3>2. f.at \in 1..Len(list[f.type])
      BY <1>4, <2>2, <3>1, LenProperties
    <3> QED
      BY <3>1, <3>2, ElementOfSeq
  <2>4. m \in MakeFrame /\ m \in Frame
    BY <2>2, <2>3 DEF Making, MakeFrame, Frame
  <2>5. g \in EmitFrame /\ g \in Frame /\ g.kind = "emit" /\ g.type = f.type /\ g.datum = f.datum
    <3>1. f.at + 1 \in Nat \ {0}
      BY <2>2
    <3>2. g \in EmitFrame /\ g.kind = f.kind /\ g.type = f.type /\ g.datum = f.datum
      BY <1>2, <3>1 DEF EmitFrame
    <3> QED
      BY <1>2, <3>2 DEF Frame
  <2>6. cell' \in [Thread -> [Type -> Nat]] /\ cell'[t] = c2 /\ \A u \in Thread \ {t} : cell'[u] = cell[u]
    BY <2>1, <2>2 DEF Context, Types
  <2> HIDE DEF g, m
  <2>7. SoundStack(s, c2, current[t], scope[t]) /\ c2[f.type] = f.datum
    <3>1. DOMAIN cell[t] = Type
      BY <1>2
    <3> QED
      BY <1>2, <2>2, <3>1, CellSet
  <2> HIDE DEF c2, s, f
  <2> DEFINE s2 == Append(Front(s), g)
  <2>8. SoundStack(s2, c2, current[t], scope[t])
    BY <1>2, <2>5, <2>7, SwapSound
  <2>9. s2 \in Seq(Frame) /\ s2 # <<>> /\ Last(s2) = g /\ Front(s) \in Seq(Frame)
    <3>1. s2 \in Seq(Frame) /\ s2 # <<>> /\ Len(s2) = Len(s) /\ s2[Len(s)] = g
      BY <1>2, <2>5, Swapped
    <3> QED
      BY <1>2, <3>1, TopOf DEF Last
  <2>10. Front(s) \o <<g, m>> = Append(s2, m)
    BY <2>4, <2>5, <2>9, TwoOnTop
  <2> HIDE DEF s2
  <2>11. SoundStack(Append(s2, m), c2, current[t], scope[t])
    BY <2>4, <2>5, <2>7, <2>8, <2>9, MakePushed
  <2>12. Append(s2, m) \in Seq(Frame)
    BY <2>4, <2>9, AppendProperties
  <2>13. stack' \in [Thread -> Seq(Frame)] /\ \A u \in Thread : Sound(u)'
    BY <1>1, <2>1, <2>6, <2>10, <2>11, <2>12, OneThread DEF s
  <2>14. Types'
    BY <1>1, <2>6, <2>13 DEF Types, Context
  <2> QED
    BY <1>1, <2>13, <2>14 DEF Context
<1> QED
  BY <1>3, <1>4

LEMMA EndEmitContext ==
    ASSUME Context, NEW t \in Thread, EndEmit(t)
    PROVE  Context'
<1> DEFINE s == stack[t]
           f == Top(t)
           c2 == [cell[t] EXCEPT ![f.type] = 0]
<1>1. UNCHANGED <<list, enabled, active, mem, emits, queue, current, scope>>
  BY DEF EndEmit, words, running
<1>2. /\ s # <<>> /\ f.kind = "emit" /\ f \in EmitFrame /\ f = Last(s) /\ s \in Seq(Frame)
      /\ SoundStack(s, cell[t], current[t], scope[t]) /\ cell[t] \in [Type -> Nat]
  BY SoundNow DEF EndEmit, Doing
<1>3. f.type \in Type /\ f.datum \in Nat
  BY <1>2 DEF EmitFrame
<1>4. cell' = [cell EXCEPT ![t][f.type] = 0] /\ stack' = [stack EXCEPT ![t] = Front(s)]
  BY DEF EndEmit, Pop
<1>5. store' \in [Type -> Nat]
  <2>1. store' = store \/ store' = [store EXCEPT ![f.type] = f.datum]
    BY DEF EndEmit
  <2> QED
    BY <1>3, <2>1 DEF Context, Types
<1>6. cell' \in [Thread -> [Type -> Nat]] /\ cell'[t] = c2 /\ \A u \in Thread \ {t} : cell'[u] = cell[u]
  BY <1>3, <1>4 DEF Context, Types
<1>7. SoundStack(Front(s), c2, current[t], scope[t])
  <2>1. DOMAIN cell[t] = Type
    BY <1>2
  <2> QED
    BY <1>2, <2>1, EmitPopped
<1>8. Front(s) \in Seq(Frame)
  BY <1>2, TopOf
<1> HIDE DEF c2
<1>9. stack' \in [Thread -> Seq(Frame)] /\ \A u \in Thread : Sound(u)'
  BY <1>1, <1>4, <1>6, <1>7, <1>8, OneThread
<1>10. Types'
  BY <1>1, <1>5, <1>6, <1>9 DEF Types, Context
<1> QED
  BY <1>1, <1>9, <1>10 DEF Context

LEMMA NewContext ==
    ASSUME Context, NEW t \in Thread, New(t)
    PROVE  Context'
<1> DEFINE s == stack[t]
           f == Top(t)
           g == [f EXCEPT !.stage = "check"]
<1>1. UNCHANGED <<list, enabled, store, mem, emits, cell, queue, current, scope>>
  BY DEF New, words, data, running
<1>2. /\ s # <<>> /\ f.kind = "make" /\ f \in MakeFrame /\ f = Last(s) /\ s \in Seq(Frame)
      /\ SoundStack(s, cell[t], current[t], scope[t])
  BY SoundNow DEF New, At, Doing
<1>3. f.r \in Reaction
  BY <1>2 DEF MakeFrame
<1>4. stack' \in [Thread -> Seq(Frame)] /\ \A u \in Thread : Sound(u)'
  <2>1. CASE enabled[f.r]
    <3>1. stack' = [stack EXCEPT ![t] = Append(Front(s), g)]
      BY <2>1 DEF New, Replace
    <3>2. g \in MakeFrame /\ g \in Frame /\ g.kind = "make"
      BY <1>2 DEF MakeFrame, Frame
    <3> HIDE DEF g
    <3>3. SoundStack(Append(Front(s), g), cell[t], current[t], scope[t])
      BY <1>2, <3>2, SwapSound
    <3>4. Append(Front(s), g) \in Seq(Frame)
      BY <1>2, <3>2, Swapped
    <3> QED
      BY <1>1, <3>1, <3>3, <3>4, OneThread
  <2>2. CASE ~enabled[f.r]
    <3>1. stack' = [stack EXCEPT ![t] = Front(s)]
      BY <2>2 DEF New, Pop
    <3>2. SoundStack(Front(s), cell[t], current[t], scope[t]) /\ Front(s) \in Seq(Frame)
      BY <1>2, MakePopped, TopOf
    <3> QED
      BY <1>1, <3>1, <3>2, OneThread
  <2> QED
    BY <2>1, <2>2
<1>5. active' \in [Reaction -> Int]
  <2>1. active' = active \/ active' = [active EXCEPT ![f.r] = @ + 1]
    BY DEF New
  <2> QED
    BY <1>3, <2>1 DEF Context, Types
<1>6. Types'
  BY <1>1, <1>4, <1>5 DEF Types, Context
<1> QED
  BY <1>1, <1>4, <1>6 DEF Context

LEMMA CheckContext ==
    ASSUME Context, NEW t \in Thread, Check(t)
    PROVE  Context'
<1> DEFINE s == stack[t]
           f == Top(t)
           g == [f EXCEPT !.stage = "get"]
<1>1. UNCHANGED <<list, enabled, store, mem, emits, cell, queue, current, scope>>
  BY DEF Check, words, data, running
<1>2. /\ s # <<>> /\ f.kind = "make" /\ f \in MakeFrame /\ f = Last(s) /\ s \in Seq(Frame)
      /\ SoundStack(s, cell[t], current[t], scope[t])
  BY SoundNow DEF Check, At, Doing
<1>3. f.r \in Reaction
  BY <1>2 DEF MakeFrame
<1>4. stack' \in [Thread -> Seq(Frame)] /\ \A u \in Thread : Sound(u)'
  <2>1. CASE Precondition(f.r)
    <3>1. stack' = [stack EXCEPT ![t] = Append(Front(s), g)]
      BY <2>1 DEF Check, Replace
    <3>2. g \in MakeFrame /\ g \in Frame /\ g.kind = "make"
      BY <1>2 DEF MakeFrame, Frame
    <3> HIDE DEF g
    <3>3. SoundStack(Append(Front(s), g), cell[t], current[t], scope[t])
      BY <1>2, <3>2, SwapSound
    <3>4. Append(Front(s), g) \in Seq(Frame)
      BY <1>2, <3>2, Swapped
    <3> QED
      BY <1>1, <3>1, <3>3, <3>4, OneThread
  <2>2. CASE ~Precondition(f.r)
    <3>1. stack' = [stack EXCEPT ![t] = Front(s)]
      BY <2>2 DEF Check, Pop
    <3>2. SoundStack(Front(s), cell[t], current[t], scope[t]) /\ Front(s) \in Seq(Frame)
      BY <1>2, MakePopped, TopOf
    <3> QED
      BY <1>1, <3>1, <3>2, OneThread
  <2> QED
    BY <2>1, <2>2
<1>5. active' \in [Reaction -> Int]
  <2>1. active' = active \/ active' = [active EXCEPT ![f.r] = @ - 1]
    BY DEF Check
  <2> QED
    BY <1>3, <2>1 DEF Context, Types
<1>6. Types'
  BY <1>1, <1>4, <1>5 DEF Types, Context
<1> QED
  BY <1>1, <1>4, <1>6 DEF Context

\* The frame of the task that run() starts.
Started(t, k) == [kind |-> "run", task |-> k, stage |-> "body", todo |-> <<>>,
                  current |-> current[t], scope |-> scope[t]]

LEMMA RunsSound ==
    ASSUME Context, NEW t \in Thread, NEW k \in Task, OwnDatum(k), NEW below \in Seq(Frame),
           SoundStack(below, cell[t], current[t], scope[t]),
           below # <<>> => Last(below).kind # "make", Runs(t, k, below), UNCHANGED cell
    PROVE  /\ stack' \in [Thread -> Seq(Frame)] /\ \A u \in Thread : Sound(u)'
           /\ current' \in [Thread -> Nat] /\ scope' \in [Thread -> Nat]
           /\ Started(t, k) \in RunFrame
<1> DEFINE n == Len(below) + 1
           f == Started(t, k)
           entered == IF InTaskScope(k) THEN n ELSE scope[t]
<1>1. current[t] \in Nat /\ scope[t] \in Nat /\ n \in Nat
  BY SoundNow, LenProperties
<1>2. f \in RunFrame /\ f \in Frame /\ f.task = k /\ f.current = current[t] /\ f.scope = scope[t]
  <2>1. <<>> \in Seq(Spoken)
    BY EmptySeq
  <2> QED
    BY <1>1, <2>1 DEF Started, RunFrame, Frame
<1>3. /\ stack' = [stack EXCEPT ![t] = Append(below, f)]
      /\ current' = [current EXCEPT ![t] = n] /\ scope' = [scope EXCEPT ![t] = entered]
  BY DEF Runs, Started, Entered, InTaskScope
<1> HIDE DEF f, n
<1>4. below = <<>> => \A T \in Remote : cell[t][T] = 0
  BY DEF SoundStack, Packets
<1>5. SoundStack(Append(below, f), cell[t], n, entered)
  <2>1. SoundStack(Append(below, f), cell[t], Len(below) + 1,
                   IF InTaskScope(f.task) THEN Len(below) + 1 ELSE scope[t])
    BY <1>1, <1>2, <1>4, RunPushed
  <2> QED
    BY <1>2, <2>1 DEF n
<1>6. Append(below, f) \in Seq(Frame)
  BY <1>2, AppendProperties
<1>7. /\ current' \in [Thread -> Nat] /\ scope' \in [Thread -> Nat]
      /\ current'[t] = n /\ scope'[t] = entered
      /\ \A u \in Thread \ {t} : current'[u] = current[u] /\ scope'[u] = scope[u]
  <2>1. entered \in Nat
    BY <1>1
  <2> HIDE DEF entered
  <2> QED
    BY <1>1, <1>3, <2>1 DEF Context, Types
<1> HIDE DEF entered
<1>8. stack' \in [Thread -> Seq(Frame)] /\ \A u \in Thread : Sound(u)'
  BY <1>3, <1>5, <1>6, <1>7, OneThread
<1> QED
  BY <1>2, <1>7, <1>8 DEF f

LEMMA TakeContext ==
    ASSUME Context, NEW t \in Thread, NEW k \in queue, Take(t, k)
    PROVE  Context'
<1>1. UNCHANGED <<list, enabled, active, store, mem, emits, cell>>
  BY DEF Take, words, data
<1>2. k \in Task /\ OwnDatum(k)
  BY DEF Context, Types
<1>3. stack[t] = <<>> /\ queue' = queue \ {k} /\ Runs(t, k, <<>>)
  BY DEF Take
<1>4. SoundStack(<<>>, cell[t], current[t], scope[t]) /\ <<>> \in Seq(Frame)
  BY <1>3, SoundNow
<1>5. /\ stack' \in [Thread -> Seq(Frame)] /\ \A u \in Thread : Sound(u)'
      /\ current' \in [Thread -> Nat] /\ scope' \in [Thread -> Nat]
  BY <1>1, <1>2, <1>3, <1>4, RunsSound
<1>6. Types'
  BY <1>1, <1>3, <1>5 DEF Types, Context
<1> QED
  BY <1>3, <1>5, <1>6 DEF Context

\* post_run comes after a callback, whatever has to be done of it.
LEMMA Staged ==
    ASSUME Context, NEW t \in Thread, Doing(t, "run"), NEW todo \in Seq(Spoken),
           Stage(t, "post", todo), UNCHANGED <<cell, current, scope>>
    PROVE  stack' \in [Thread -> Seq(Frame)] /\ \A u \in Thread : Sound(u)'
<1> DEFINE s == stack[t]
           f == Top(t)
           g == [f EXCEPT !.stage = "post", !.todo = todo]
<1>1. /\ s # <<>> /\ f.kind = "run" /\ f \in RunFrame /\ f = Last(s) /\ s \in Seq(Frame)
      /\ SoundStack(s, cell[t], current[t], scope[t])
  BY SoundNow DEF Doing
<1>2. stack' = [stack EXCEPT ![t] = Append(Front(s), g)]
  BY DEF Stage, Replace
<1>3. /\ g \in RunFrame /\ g \in Frame /\ g.kind = "run"
      /\ g.task = f.task /\ g.current = f.current /\ g.scope = f.scope
  BY <1>1 DEF RunFrame, Frame
<1> HIDE DEF g
<1>4. SoundStack(Append(Front(s), g), cell[t], current[t], scope[t])
  BY <1>1, <1>3, SwapSound
<1>5. Append(Front(s), g) \in Seq(Frame)
  BY <1>1, <1>3, Swapped
<1> QED
  BY <1>2, <1>4, <1>5, OneThread

LEMMA SpokenWords ==
    ASSUME NEW r \in Reaction
    PROVE  PostRuns(Sentence[r]) \in Seq(Spoken) /\ Gives[r] \in Seq(Spoken) /\ <<>> \in Seq(Spoken)
<1>1. Range(Sentence[r]) \subseteq Spoken
  BY DEF Spoken
<1>2. PostRuns(Sentence[r]) \in Seq(Range(Sentence[r])) /\ Gives[r] \in Seq(Range(Sentence[r]))
  BY SentenceAssumption
<1> QED
  BY <1>1, <1>2, SeqMonotonic, EmptySeq

LEMMA UnlistType ==
    ASSUME Types, NEW r, Unlist(r)
    PROVE  list' \in [Type -> Seq(Reaction)] /\ enabled' \in [Reaction -> BOOLEAN]
<1>1. ASSUME NEW s \in Seq(Reaction) PROVE Erased(s, r) \in Seq(Reaction)
  <2>1. CASE ~Contains(s, r)
    BY <2>1 DEF Erased
  <2>2. CASE Contains(s, r)
    <3> DEFINE i == CHOOSE j \in DOMAIN s : s[j] = r
    <3>1. Len(s) \in Nat /\ DOMAIN s = 1..Len(s) /\ \A j \in 1..Len(s) : s[j] \in Reaction
      BY LenProperties, ElementOfSeq
    <3>2. i \in 1..Len(s)
      BY <2>2, <3>1 DEF Contains
    <3> HIDE DEF i
    <3>3. SubSeq(s, 1, i - 1) \in Seq(Reaction) /\ SubSeq(s, i + 1, Len(s)) \in Seq(Reaction)
      <4>1. 1 \in Int /\ i - 1 \in Int /\ \A j \in 1..(i - 1) : s[j] \in Reaction
        BY <3>1, <3>2
      <4>2. i + 1 \in Int /\ Len(s) \in Int /\ \A j \in (i + 1)..Len(s) : s[j] \in Reaction
        BY <3>1, <3>2
      <4>3. SubSeq(s, 1, i - 1) \in Seq(Reaction)
        BY <4>1, SubSeqProperties
      <4> QED
        BY <4>2, <4>3, SubSeqProperties
    <3>4. SubSeq(s, 1, i - 1) \o SubSeq(s, i + 1, Len(s)) \in Seq(Reaction)
      BY <3>3, ConcatProperties
    <3> QED
      BY <2>2, <3>4 DEF Erased, RemoveAt, i
  <2> QED
    BY <2>1, <2>2
<1>2. list' = [T \in Type |-> Erased(list[T], r)]
  BY DEF Unlist
<1>3. enabled' = [enabled EXCEPT ![r] = enabled[r] /\ r \notin AlwaysOn]
  BY DEF Unlist
<1>4. enabled' \in [Reaction -> BOOLEAN]
  BY <1>3 DEF Types
<1> QED
  BY <1>1, <1>2, <1>4 DEF Types

LEMMA CallbackContext ==
    ASSUME Context, NEW t \in Thread, Return(t) \/ Throw(t)
    PROVE  Context'
<1>1. UNCHANGED <<list, enabled, active, store, mem, emits, cell, queue, current, scope>>
  BY DEF Return, Throw, words, data, running
<1>2. Doing(t, "run") /\ Top(t) \in RunFrame
  BY SoundNow DEF Return, Throw, At, Doing
<1>3. PICK todo \in Seq(Spoken) : Stage(t, "post", todo)
  <2>1. Top(t).task.r \in Reaction
    BY <1>2 DEF RunFrame, Task
  <2> QED
    BY <2>1, SpokenWords DEF Return, Throw
<1>4. stack' \in [Thread -> Seq(Frame)] /\ \A u \in Thread : Sound(u)'
  BY <1>1, <1>2, <1>3, Staged
<1>5. Types'
  BY <1>1, <1>4 DEF Types, Context
<1> QED
  BY <1>1, <1>4, <1>5 DEF Context

LEMMA TodoTail ==
    ASSUME Context, NEW t \in Thread, NEW word, Post(t, word)
    PROVE  Doing(t, "run") /\ Top(t) \in RunFrame /\ Tail(Top(t).todo) \in Seq(Spoken)
<1>1. Doing(t, "run") /\ Top(t) \in RunFrame /\ Top(t).todo # <<>>
  BY SoundNow DEF Post, At, Doing
<1>2. Top(t).todo \in Seq(Spoken)
  BY <1>1 DEF RunFrame
<1> QED
  BY <1>1, <1>2, HeadTailProperties

LEMMA OnceContext ==
    ASSUME Context, NEW t \in Thread, OnceUnbinds(t)
    PROVE  Context'
<1>1. UNCHANGED <<active, store, mem, emits, cell, queue, current, scope>>
  BY DEF OnceUnbinds, data, running
<1>2. Doing(t, "run") /\ Tail(Top(t).todo) \in Seq(Spoken)
  BY TodoTail DEF OnceUnbinds
<1>3. stack' \in [Thread -> Seq(Frame)] /\ \A u \in Thread : Sound(u)'
  BY <1>1, <1>2, Staged DEF OnceUnbinds
<1>4. list' \in [Type -> Seq(Reaction)] /\ enabled' \in [Reaction -> BOOLEAN]
  BY UnlistType DEF OnceUnbinds, Context
<1>5. Types'
  BY <1>1, <1>3, <1>4 DEF Types, Context
<1> QED
  BY <1>1, <1>3, <1>5 DEF Context

LEMMA ResubmitContext ==
    ASSUME Context, NEW t \in Thread, Resubmit(t)
    PROVE  Context'
<1> DEFINE s == stack[t]
           f == Top(t)
           m == Making(f.task.r, FALSE, "new")
<1>1. UNCHANGED <<list, enabled, active, store, mem, emits, cell, queue, current, scope>>
  BY DEF Resubmit, words, data, running
<1>2. /\ s # <<>> /\ f.kind = "run" /\ f \in RunFrame /\ f = Last(s) /\ s \in Seq(Frame)
      /\ SoundStack(s, cell[t], current[t], scope[t])
  BY SoundNow DEF Resubmit, Post, At, Doing
<1>3. PICK g \in RunFrame : /\ g.task = f.task /\ g.current = f.current /\ g.scope = f.scope
                            /\ stack' = [stack EXCEPT ![t] = Front(s) \o <<g, Making(g.task.r, FALSE, "new")>>]
  <2>1. CASE Post(t, "Always") /\ Makes(t, [Top(t) EXCEPT !.todo = Tail(@)])
    <3> DEFINE g == [f EXCEPT !.todo = Tail(f.todo)]
    <3>1. Tail(f.todo) \in Seq(Spoken)
      BY <2>1, TodoTail
    <3>2. g \in RunFrame /\ g.task = f.task /\ g.current = f.current /\ g.scope = f.scope
      BY <1>2, <3>1 DEF RunFrame
    <3>3. stack' = [stack EXCEPT ![t] = Front(s) \o <<g, Making(g.task.r, FALSE, "new")>>]
      BY <2>1 DEF Makes
    <3> QED
      BY <3>2, <3>3
  <2>2. CASE At(t, "run", "body") /\ Top(t).task.idle /\ Makes(t, [Top(t) EXCEPT !.stage = "idle"])
    <3> DEFINE g == [f EXCEPT !.stage = "idle"]
    <3>1. g \in RunFrame /\ g.task = f.task /\ g.current = f.current /\ g.scope = f.scope
      BY <1>2, <2>2 DEF RunFrame
    <3>2. stack' = [stack EXCEPT ![t] = Front(s) \o <<g, Making(g.task.r, FALSE, "new")>>]
      BY <2>2 DEF Makes
    <3> QED
      BY <3>1, <3>2
  <2> QED
    BY <2>1, <2>2 DEF Resubmit
<1>4. m \in MakeFrame /\ m \in Frame /\ Making(g.task.r, FALSE, "new") = m
  <2>1. f.task.r \in Reaction
    BY <1>2 DEF RunFrame, Task
  <2> QED
    BY <1>3, <2>1 DEF Making, MakeFrame, Frame
<1>5. g \in Frame /\ g.kind = "run"
  BY <1>3, Kinds DEF Frame
<1> HIDE DEF s, f, m
<1> DEFINE s2 == Append(Front(s), g)
<1>6. SoundStack(s2, cell[t], current[t], scope[t])
  BY <1>2, <1>3, <1>5, SwapSound
<1>7. s2 \in Seq(Frame) /\ s2 # <<>> /\ Last(s2) = g /\ Front(s) \in Seq(Frame)
  <2>1. s2 \in Seq(Frame) /\ s2 # <<>> /\ Len(s2) = Len(s) /\ s2[Len(s)] = g
    BY <1>2, <1>5, Swapped
  <2> QED
    BY <1>2, <2>1, TopOf DEF Last
<1>8. Front(s) \o <<g, m>> = Append(s2, m)
  BY <1>4, <1>5, <1>7, TwoOnTop
<1> HIDE DEF s2
<1>9. SoundStack(Append(s2, m), cell[t], current[t], scope[t]) /\ Append(s2, m) \in Seq(Frame)
  BY <1>4, <1>5, <1>6, <1>7, MakePushed, AppendProperties
<1>10. stack' \in [Thread -> Seq(Frame)] /\ \A u \in Thread : Sound(u)'
  BY <1>1, <1>3, <1>4, <1>8, <1>9, OneThread DEF s
<1>11. Types'
  BY <1>1, <1>10 DEF Types, Context
<1> QED
  BY <1>1, <1>10, <1>11 DEF Context

LEMMA IdleTask ==
    ASSUME NEW r \in AlwaysOn, NEW idle \in BOOLEAN
    PROVE  AlwaysTask(r, idle) \in Task /\ OwnDatum(AlwaysTask(r, idle))
<1>1. r \in Reaction /\ <<>> \in Seq(Seq(Nat)) /\ DOMAIN <<>> = {}
  BY EmptySeq DEF AlwaysOn
<1>2. AlwaysTask(r, idle) \in Task
  BY <1>1 DEF AlwaysTask, Task
<1>3. AlwaysTask(r, idle).seen = <<>>
  BY DEF AlwaysTask
<1> QED
  BY <1>1, <1>2, <1>3 DEF OwnDatum

LEMMA IdleAgainContext ==
    ASSUME Context, NEW t \in Thread, IdleAgain(t)
    PROVE  Context'
<1> DEFINE r == Top(t).task.r
<1>1. UNCHANGED <<list, enabled, store, mem, emits, cell, current, scope>>
  BY DEF IdleAgain, words, data, running
<1>2. Doing(t, "run") /\ Top(t) \in RunFrame /\ Top(t).stage = "idle"
  BY SoundNow DEF IdleAgain, At, Doing
<1>3. r \in AlwaysOn /\ r \in Reaction
  BY <1>2 DEF RunFrame, Task
<1>4. stack' \in [Thread -> Seq(Frame)] /\ \A u \in Thread : Sound(u)'
  <2>1. <<>> \in Seq(Spoken)
    BY EmptySeq
  <2> QED
    BY <1>1, <1>2, <2>1, Staged DEF IdleAgain
<1>5. queue' = queue \union {AlwaysTask(r, TRUE)} /\ active' = [active EXCEPT ![r] = @ + 1]
  <2>1. Cardinality({AlwaysTask(r, TRUE)}) = 1
    BY FS_Singleton
  <2> QED
    BY <2>1 DEF IdleAgain, Idles
<1>6. AlwaysTask(r, TRUE) \in Task /\ OwnDatum(AlwaysTask(r, TRUE))
  BY <1>3, IdleTask
<1>7. active' \in [Reaction -> Int]
  BY <1>3, <1>5 DEF Context, Types
<1>8. queue' \in SUBSET Task /\ \A k \in queue' : OwnDatum(k)
  BY <1>5, <1>6 DEF Context, Types
<1>9. Types'
  BY <1>1, <1>4, <1>7, <1>8 DEF Types, Context
<1> QED
  BY <1>4, <1>8, <1>9 DEF Context

LEMMA DoneContext ==
    ASSUME Context, NEW t \in Thread, Done(t)
    PROVE  Context'
<1> DEFINE s == stack[t]
           f == Top(t)
           left == IF InTaskScope(f.task) THEN f.scope ELSE scope[t]
<1>1. UNCHANGED <<list, enabled, store, mem, emits, cell, queue>>
  BY DEF Done, words, data
<1>2. /\ s # <<>> /\ f.kind = "run" /\ f \in RunFrame /\ f = Last(s) /\ s \in Seq(Frame)
      /\ SoundStack(s, cell[t], current[t], scope[t]) /\ current[t] \in Nat /\ scope[t] \in Nat
  BY SoundNow DEF Done, At, Doing
<1>3. f.current \in Nat /\ f.scope \in Nat /\ f.task.r \in Reaction
  BY <1>2 DEF RunFrame, Task
<1>4. /\ stack' = [stack EXCEPT ![t] = Front(s)] /\ current' = [current EXCEPT ![t] = f.current]
      /\ scope' = [scope EXCEPT ![t] = left] /\ active' = [active EXCEPT ![f.task.r] = @ - 1]
  BY DEF Done, Pop, InTaskScope
<1>5. SoundStack(Front(s), cell[t], f.current, left) /\ Front(s) \in Seq(Frame)
  BY <1>2, RunPopped, TopOf
<1>6. left \in Nat
  BY <1>2, <1>3
<1> HIDE DEF left
<1>7. /\ current' \in [Thread -> Nat] /\ scope' \in [Thread -> Nat] /\ active' \in [Reaction -> Int]
      /\ current'[t] = f.current /\ scope'[t] = left
      /\ \A u \in Thread \ {t} : current'[u] = current[u] /\ scope'[u] = scope[u]
  BY <1>3, <1>4, <1>6 DEF Context, Types
<1>8. stack' \in [Thread -> Seq(Frame)] /\ \A u \in Thread : Sound(u)'
  BY <1>1, <1>4, <1>5, <1>7, OneThread
<1>9. Types'
  BY <1>1, <1>7, <1>8 DEF Types, Context
<1> QED
  BY <1>1, <1>8, <1>9 DEF Context

LEMMA HandleContext ==
    ASSUME Context, NEW r \in Reaction, Switch(r) \/ Unbind(r)
    PROVE  Context'
<1>1. UNCHANGED <<active, store, mem, emits, cell, queue, stack, current, scope>>
  BY DEF Switch, Unbind, data, running
<1>2. list' \in [Type -> Seq(Reaction)] /\ enabled' \in [Reaction -> BOOLEAN]
  <2>1. CASE Switch(r)
    BY <2>1 DEF Switch, Context, Types
  <2>2. CASE Unbind(r)
    BY <2>2, UnlistType DEF Unbind, Context
  <2> QED
    BY <2>1, <2>2
<1>3. Types'
  BY <1>1, <1>2 DEF Types, Context
<1> QED
  BY <1>1, <1>3 DEF Context, Sound

\* What a task is given of the type that made it is the datum that made it.
LEMMA GotIs ==
    ASSUME Context, NEW t \in Thread, NEW w, w.of \in Type, w.word = "Network" => w.of \in Remote
    PROVE  /\ Got(t, w) \in Nat
           /\ cell[t][w.of] # 0 => Got(t, w) = cell[t][w.of]
<1>1. cell[t] \in [Type -> Nat] /\ store \in [Type -> Nat] /\ Packets(stack[t], cell[t])
  BY SoundNow DEF Context, Types, SoundStack
<1>2. CASE w.word = "Network"
  BY <1>1, <1>2, HandingIs DEF Got, Context
<1>3. CASE w.word # "Network"
  BY <1>1, <1>3 DEF Got, Cached
<1> QED
  BY <1>2, <1>3

Source(below) == IF below # <<>> /\ Last(below).kind = "emit" THEN Last(below)
                 ELSE [type |-> None, datum |-> 0]
Seen(t, r) == [i \in DOMAIN Gives[r] |-> Merged(mem[r][i], Got(t, Gives[r][i]), Gives[r][i])]
TaskFor(t, r, below) == [r |-> r, seen |-> Seen(t, r), type |-> Source(below).type,
                         datum |-> Source(below).datum, idle |-> FALSE]

LEMMA SeenIs ==
    ASSUME Context, NEW t \in Thread, NEW r \in Reaction
    PROVE  /\ Seen(t, r) \in Seq(Seq(Nat)) /\ DOMAIN Seen(t, r) = DOMAIN Gives[r]
           /\ \A i \in DOMAIN Gives[r] :
                 cell[t][Gives[r][i].of] # 0 => Last(Seen(t, r)[i]) = cell[t][Gives[r][i].of]
<1>1. Gives[r] \in Seq(Spoken)
  BY SpokenWords
<1>2. Len(Gives[r]) \in Nat /\ DOMAIN Gives[r] = 1..Len(Gives[r])
  BY <1>1, LenProperties
<1>3. ASSUME NEW i \in DOMAIN Gives[r]
      PROVE  /\ Seen(t, r)[i] \in Seq(Nat)
             /\ cell[t][Gives[r][i].of] # 0 => Last(Seen(t, r)[i]) = cell[t][Gives[r][i].of]
  <2> DEFINE w == Gives[r][i]
  <2>1. w.keep \in Nat /\ w.of \in Type /\ (w.word = "Network" => w.of \in Remote)
    BY SentenceAssumption
  <2>2. mem[r][i] \in Seq(Nat)
    <3>1. mem[r] \in Seq(Seq(Nat)) /\ DOMAIN mem[r] = DOMAIN Gives[r]
      BY DEF Context, Types
    <3>2. i \in 1..Len(mem[r])
      BY <3>1, LenProperties
    <3> QED
      BY <3>1, <3>2, ElementOfSeq
  <2> HIDE DEF w
  <2>3. Got(t, w) \in Nat /\ (cell[t][w.of] # 0 => Got(t, w) = cell[t][w.of])
    BY <2>1, GotIs
  <2>4. /\ Merged(mem[r][i], Got(t, w), w) \in Seq(Nat)
        /\ Got(t, w) # 0 => Last(Merged(mem[r][i], Got(t, w), w)) = Got(t, w)
    BY <2>1, <2>2, <2>3, MergedIs
  <2>5. Seen(t, r)[i] = Merged(mem[r][i], Got(t, w), w)
    BY DEF Seen, w
  <2> QED
    BY <2>3, <2>4, <2>5 DEF w
<1>4. Seen(t, r) \in [1..Len(Gives[r]) -> Seq(Nat)]
  <2>1. Seen(t, r) = [i \in 1..Len(Gives[r]) |-> Seen(t, r)[i]]
    BY <1>2 DEF Seen
  <2> QED
    BY <1>2, <1>3, <2>1
<1>5. Seen(t, r) \in Seq(Seq(Nat))
  BY <1>2, <1>4
<1> QED
  BY <1>2, <1>3, <1>4, <1>5

LEMMA TaskForIs ==
    ASSUME Context, NEW t \in Thread, stack[t] # <<>>, Top(t).kind = "make"
    PROVE  /\ TaskFor(t, Top(t).r, Front(stack[t])) \in Task
           /\ OwnDatum(TaskFor(t, Top(t).r, Front(stack[t])))
<1> DEFINE s == stack[t]
           r == Top(t).r
           below == Front(s)
           from == Source(below)
           k == TaskFor(t, r, below)
           n == Len(s)
<1>1. /\ Top(t) \in MakeFrame /\ Top(t) = Last(s) /\ s \in Seq(Frame)
      /\ SoundStack(s, cell[t], current[t], scope[t])
  BY SoundNow
<1>2. r \in Reaction
  BY <1>1 DEF MakeFrame
<1>3. /\ n \in Nat \ {0} /\ Last(s) = s[n] /\ below \in Seq(Frame) /\ Len(below) = n - 1
      /\ \A j \in 1..(n - 1) : below[j] = s[j]
  BY <1>1, TopOf
<1>4. CASE ~(below # <<>> /\ Last(below).kind = "emit")
  <2>1. from = [type |-> None, datum |-> 0]
    BY <1>4 DEF Source
  <2>2. from.type = None /\ from.datum = 0
    BY <2>1
  <2>3. k \in Task
    BY <1>2, <2>2, SeenIs DEF TaskFor, Task
  <2>4. k.type = None /\ k.r = r /\ DOMAIN k.seen = DOMAIN Gives[r]
    BY <1>2, <2>2, SeenIs DEF TaskFor
  <2>5. \A i \in DOMAIN Gives[r] : Gives[r][i].of # None
    BY <1>2, SentenceAssumption
  <2> QED
    BY <2>3, <2>4, <2>5 DEF OwnDatum
<1>5. CASE below # <<>> /\ Last(below).kind = "emit"
  <2>1. from = Last(below)
    BY <1>5 DEF Source
  <2>2. from \in EmitFrame /\ from = s[n - 1] /\ n - 1 \in 1..n /\ n - 1 + 1 = n
    <3>1. n - 1 \in 1..n /\ n - 1 + 1 = n /\ Last(below) = s[n - 1] /\ s[n - 1] \in Frame
      BY <1>1, <1>5, BelowIs
    <3> QED
      BY <1>5, <2>1, <3>1, Kinds
  <2>3. from.type \in Type /\ from.datum \in Nat \ {0} /\ from.kind = "emit"
    BY <2>2 DEF EmitFrame
  <2>4. cell[t][from.type] = from.datum
    <3>1. s[n].kind = "make"
      BY <1>1, <1>3
    <3>2. s[n - 1].kind = "emit"
      BY <2>2, <2>3
    <3>3. \A i \in 1..n : i + 1 = n /\ s[i + 1].kind = "make" /\ s[i].kind = "emit"
                            => cell[t][s[i].type] = s[i].datum
      BY <1>1 DEF SoundStack, MakesOnTop
    <3>4. cell[t][s[n - 1].type] = s[n - 1].datum
      BY <2>2, <3>1, <3>2, <3>3
    <3> QED
      BY <2>2, <3>4
  <2>5. k \in Task
    BY <1>2, <2>3, SeenIs DEF TaskFor, Task
  <2>6. /\ k.type = from.type /\ k.datum = from.datum /\ k.r = r /\ k.seen = Seen(t, r)
    BY DEF TaskFor
  <2>7. ASSUME NEW i \in DOMAIN Gives[r], Gives[r][i].of = from.type
        PROVE  Last(Seen(t, r)[i]) = from.datum
    BY <1>2, <2>3, <2>4, <2>7, SeenIs
  <2>8. DOMAIN Seen(t, r) = DOMAIN Gives[r]
    BY <1>2, SeenIs
  <2> QED
    BY <2>5, <2>6, <2>7, <2>8 DEF OwnDatum
<1> QED
  BY <1>4, <1>5

LEMMA GetContext ==
    ASSUME Context, NEW t \in Thread, Get(t)
    PROVE  Context'
<1> DEFINE s == stack[t]
           f == Top(t)
           below == Front(s)
           k == TaskFor(t, f.r, below)
<1>1. UNCHANGED <<list, enabled, store, emits, cell>>
  BY DEF Get, words
<1>2. /\ s # <<>> /\ f.kind = "make" /\ f \in MakeFrame /\ f = Last(s) /\ s \in Seq(Frame)
      /\ SoundStack(s, cell[t], current[t], scope[t])
  BY SoundNow DEF Get, At, Doing
<1>3. f.r \in Reaction
  BY <1>2 DEF MakeFrame
<1>4. k \in Task /\ OwnDatum(k)
  BY <1>2, TaskForIs
<1>5. SoundStack(below, cell[t], current[t], scope[t]) /\ below \in Seq(Frame)
  BY <1>2, MakePopped, TopOf
<1>6. below # <<>> => Last(below).kind # "make"
  <2>1. ASSUME below # <<>> PROVE Last(below).kind # "make"
    <3>1. Last(below) = s[Len(s) - 1] /\ Len(s) - 1 \in 1..Len(s) /\ Len(s) - 1 # Len(s)
      BY <1>2, <2>1, BelowIs
    <3> QED
      BY <1>2, <3>1 DEF SoundStack, MakesOnTop
  <2> QED
    BY <2>1
<1>7. /\ mem' = [mem EXCEPT ![f.r] = [i \in DOMAIN Seen(t, f.r) |-> Kept(Seen(t, f.r)[i], Gives[f.r][i])]]
      /\ \/ /\ active' = [active EXCEPT ![f.r] = @ - 1] /\ Pop(t)
            /\ UNCHANGED <<queue, running>>
         \/ /\ Runs(t, k, below) /\ UNCHANGED <<queue, active>>
         \/ /\ queue' = queue \union {k} /\ Pop(t) /\ UNCHANGED <<active, running>>
  BY DEF Get, TaskFor, Source, Seen
<1>8. mem' \in [Reaction -> Seq(Seq(Nat))] /\ \A r \in Reaction : DOMAIN mem'[r] = DOMAIN Gives[r]
  <2> DEFINE kept == [i \in DOMAIN Seen(t, f.r) |-> Kept(Seen(t, f.r)[i], Gives[f.r][i])]
             seen == Seen(t, f.r)
  <2>1. seen \in Seq(Seq(Nat)) /\ DOMAIN seen = DOMAIN Gives[f.r]
    BY <1>3, SeenIs
  <2>2. Len(seen) \in Nat /\ DOMAIN seen = 1..Len(seen) /\ \A i \in 1..Len(seen) : seen[i] \in Seq(Nat)
    BY <2>1, LenProperties, ElementOfSeq
  <2>3. \A i \in DOMAIN seen : Kept(seen[i], Gives[f.r][i]) \in Seq(Nat)
    BY <2>2, EmptySeq DEF Kept
  <2>4. kept \in [1..Len(seen) -> Seq(Nat)]
    BY <2>2, <2>3
  <2>5. kept \in Seq(Seq(Nat)) /\ DOMAIN kept = DOMAIN Gives[f.r]
    BY <2>1, <2>2, <2>4
  <2> HIDE DEF kept
  <2> QED
    BY <1>3, <1>7, <2>5 DEF Context, Types, kept
<1> HIDE DEF k, below, f
<1>9. CASE active' = [active EXCEPT ![f.r] = @ - 1] /\ Pop(t) /\ UNCHANGED <<queue, running>>
  <2>1. stack' \in [Thread -> Seq(Frame)] /\ \A u \in Thread : Sound(u)'
    BY <1>1, <1>5, <1>9, OneThread DEF Pop, running, below
  <2>2. active' \in [Reaction -> Int]
    BY <1>3, <1>9 DEF Context, Types
  <2>3. Types'
    BY <1>1, <1>8, <1>9, <2>1, <2>2 DEF Types, Context, running
  <2> QED
    BY <1>9, <2>1, <2>3 DEF Context
<1>10. CASE Runs(t, k, below) /\ UNCHANGED <<queue, active>>
  <2>1. /\ stack' \in [Thread -> Seq(Frame)] /\ \A u \in Thread : Sound(u)'
        /\ current' \in [Thread -> Nat] /\ scope' \in [Thread -> Nat]
    BY <1>1, <1>4, <1>5, <1>6, <1>10, RunsSound
  <2>2. Types'
    BY <1>1, <1>8, <1>10, <2>1 DEF Types, Context
  <2> QED
    BY <1>10, <2>1, <2>2 DEF Context
<1>11. CASE queue' = queue \union {k} /\ Pop(t) /\ UNCHANGED <<active, running>>
  <2>1. stack' \in [Thread -> Seq(Frame)] /\ \A u \in Thread : Sound(u)'
    BY <1>1, <1>5, <1>11, OneThread DEF Pop, running, below
  <2>2. queue' \in SUBSET Task /\ \A q \in queue' : OwnDatum(q)
    BY <1>4, <1>11 DEF Context, Types
  <2>3. Types'
    BY <1>1, <1>8, <1>11, <2>1, <2>2 DEF Types, Context, running
  <2> QED
    BY <2>1, <2>2, <2>3 DEF Context
<1> QED
  BY <1>7, <1>9, <1>10, <1>11

LEMMA InitContext == Init => Context
<1> SUFFICES ASSUME Init PROVE Context
  OBVIOUS
<1>1. Types
  <2>1. list \in [Type -> Seq(Reaction)]
    BY SentenceAssumption DEF Init
  <2>2. active \in [Reaction -> Int] /\ enabled \in [Reaction -> BOOLEAN] /\ emits \in Nat
    BY DEF Init
  <2>3. /\ store \in [Type -> Nat] /\ cell \in [Thread -> [Type -> Nat]]
        /\ current \in [Thread -> Nat] /\ scope \in [Thread -> Nat]
    BY DEF Init
  <2>4. mem \in [Reaction -> Seq(Seq(Nat))] /\ \A r \in Reaction : DOMAIN mem[r] = DOMAIN Gives[r]
    <3>1. ASSUME NEW r \in Reaction
          PROVE  LET kept == [i \in DOMAIN Gives[r] |-> <<>>] IN
                 kept \in Seq(Seq(Nat)) /\ DOMAIN kept = DOMAIN Gives[r]
      <4>1. Gives[r] \in Seq(Spoken)
        BY SpokenWords
      <4>2. Len(Gives[r]) \in Nat /\ DOMAIN Gives[r] = 1..Len(Gives[r]) /\ <<>> \in Seq(Nat)
        BY <4>1, LenProperties, EmptySeq
      <4>3. [i \in DOMAIN Gives[r] |-> <<>>] \in [1..Len(Gives[r]) -> Seq(Nat)]
        BY <4>2
      <4> QED
        BY <4>2, <4>3
    <3>2. mem = [r \in Reaction |-> [i \in DOMAIN Gives[r] |-> <<>>]]
      BY DEF Init
    <3> QED
      BY <3>1, <3>2
  <2>5. queue \in SUBSET Task
    BY IdleTask DEF Init
  <2>6. stack \in [Thread -> Seq(Frame)]
    BY EmptySeq DEF Init
  <2> QED
    BY <2>1, <2>2, <2>3, <2>4, <2>5, <2>6 DEF Types
<1>2. \A k \in queue : OwnDatum(k)
  BY IdleTask DEF Init
<1>3. ASSUME NEW t \in Thread PROVE Sound(t)
  <2>1. /\ stack[t] = <<>> /\ current[t] = 0 /\ scope[t] = 0
        /\ \A T \in Type : cell[t][T] = 0
    BY DEF Init
  <2>2. Remote \subseteq Type /\ Len(<<>>) = 0 /\ 1..0 = {}
    BY EmptySeq DEF Remote
  <2>3. MakesOnTop(stack[t], cell[t]) /\ Packets(stack[t], cell[t])
    BY <2>1, <2>2 DEF MakesOnTop, Packets
  <2>4. RunsAt(stack[t]) = {} /\ ScopedAt(stack[t]) = {}
    BY <2>1, <2>2 DEF RunsAt, ScopedAt
  <2>5. Chained(stack[t], current[t], scope[t])
    BY <2>1, <2>2, <2>4 DEF Chained, Latest
  <2> QED
    BY <2>3, <2>5 DEF Sound, SoundStack
<1> QED
  BY <1>1, <1>2, <1>3 DEF Context

LEMMA NextContext == Context /\ [Next]_vars => Context'
<1> SUFFICES ASSUME Context, [Next]_vars PROVE Context'
  OBVIOUS
<1>1. ASSUME NEW t \in Thread, Step(t) PROVE Context'
  <2>1. CASE Offer(t)
    BY <2>1, OfferContext
  <2>2. CASE EndEmit(t)
    BY <2>2, EndEmitContext
  <2>3. CASE New(t)
    BY <2>3, NewContext
  <2>4. CASE Check(t)
    BY <2>4, CheckContext
  <2>5. CASE Get(t)
    BY <2>5, GetContext
  <2>6. CASE Return(t) \/ Throw(t)
    BY <2>6, CallbackContext
  <2>7. CASE OnceUnbinds(t)
    BY <2>7, OnceContext
  <2>8. CASE Resubmit(t)
    BY <2>8, ResubmitContext
  <2>9. CASE IdleAgain(t)
    BY <2>9, IdleAgainContext
  <2>10. CASE Done(t)
    BY <2>10, DoneContext
  <2>11. CASE \E k \in queue : Take(t, k)
    BY <2>11, TakeContext
  <2> QED
    BY <1>1, <2>1, <2>2, <2>3, <2>4, <2>5, <2>6, <2>7, <2>8, <2>9, <2>10, <2>11 DEF Step
<1>2. ASSUME NEW t \in Thread, NEW T \in Type,
             Packet(t, T) \/ \E inline \in BOOLEAN : Emit(t, T, inline)
      PROVE  Context'
  BY <1>2, PacketContext, EmitContext
<1>3. ASSUME NEW r \in Reaction, Switch(r) \/ Unbind(r) PROVE Context'
  BY <1>3, HandleContext
<1>4. CASE UNCHANGED vars
  BY <1>4 DEF vars, words, data, running, Context, Types, Sound
<1> QED
  BY <1>1, <1>2, <1>3, <1>4 DEF Next

\* Every task is given the datum that made it, and the task in scope is the one that
\* runs, whatever is emitted meanwhile and however deep emits and inline tasks nest
\* (ThreadStore.hpp:34-41, TaskScope.hpp:76-92, ReactionTask.cpp:48-63).
THEOREM EveryTaskHasItsContext == Spec => []OwnContext
<1>1. Context => OwnContext
  <2> SUFFICES ASSUME Context PROVE OwnContext
    OBVIOUS
  <2>1. ASSUME NEW t \in Thread, NEW f \in Frames(t), f.kind = "run" PROVE OwnDatum(f.task)
    <3>1. PICK i \in 1..Len(stack[t]) : f = stack[t][i]
      <4>1. stack[t] \in Seq(Frame)
        BY SoundNow
      <4> QED
        BY <4>1, RangeEquality DEF Frames
    <3>2. i \in RunsAt(stack[t])
      BY <2>1, <3>1 DEF RunsAt
    <3> QED
      BY <3>1, <3>2, SoundNow DEF SoundStack, Chained
  <2>2. ASSUME NEW k \in queue \union {f.task : f \in UNION {{g \in Frames(t) : g.kind = "run"} : t \in Thread}}
        PROVE  OwnDatum(k)
    BY <2>1, <2>2 DEF Context
  <2>3. ASSUME NEW t \in Thread, Doing(t, "run")
        PROVE  InScope(t) <=> Scoped(Sentence[Top(t).task.r]) /\ ~Top(t).task.idle
    <3> DEFINE s == stack[t]
               n == Len(s)
    <3>1. /\ s # <<>> /\ Top(t) = Last(s) /\ s \in Seq(Frame) /\ Top(t).kind = "run"
          /\ SoundStack(s, cell[t], current[t], scope[t])
      BY <2>3, SoundNow DEF Doing
    <3>2. n \in Nat \ {0} /\ Last(s) = s[n]
      BY <3>1, TopOf
    <3>3. /\ Latest(RunsAt(s), n, current[t]) /\ Latest(ScopedAt(s), n, scope[t])
          /\ n \in RunsAt(s) /\ (n \in ScopedAt(s) <=> InTaskScope(Top(t).task))
      <4>1. n \in 1..n
        BY <3>2
      <4> QED
        BY <3>1, <3>2, <4>1 DEF SoundStack, Chained, RunsAt, ScopedAt
    <3> HIDE DEF n
    <3>4. current[t] = n
      BY <3>2, <3>3 DEF Latest
    <3>5. scope[t] = n <=> n \in ScopedAt(s)
      BY <3>2, <3>3 DEF Latest
    <3> QED
      BY <3>2, <3>3, <3>4, <3>5 DEF InScope, InTaskScope
  <2> QED
    BY <2>2, <2>3 DEF OwnContext, OwnDatum
<1> QED
  BY <1>1, InitContext, NextContext, PTL DEF Spec

-----------------------------------------------------------------------------
(* Counting: what a step does to the room that there is.                      *)

LEMMA Sizes ==
    ASSUME NEW S, IsFiniteSet(S), NEW S2
    PROVE  /\ Cardinality(S) \in Nat
           /\ S2 \subseteq S => IsFiniteSet(S2) /\ Cardinality(S2) \in Nat /\ Cardinality(S2) <= Cardinality(S)
           /\ \A x : S2 \subseteq S \union {x} =>
                 IsFiniteSet(S2) /\ Cardinality(S2) \in Nat /\ Cardinality(S2) <= Cardinality(S) + 1
           /\ \A x \in S : S2 \subseteq S \ {x} =>
                 IsFiniteSet(S2) /\ Cardinality(S2) \in Nat /\ Cardinality(S2) <= Cardinality(S) - 1
<1>1. Cardinality(S) \in Nat
  BY FS_CardinalityType
<1>2. ASSUME S2 \subseteq S
      PROVE  IsFiniteSet(S2) /\ Cardinality(S2) \in Nat /\ Cardinality(S2) <= Cardinality(S)
  <2>1. IsFiniteSet(S2) /\ Cardinality(S2) <= Cardinality(S)
    BY <1>2, FS_Subset
  <2> QED
    BY <2>1, FS_CardinalityType
<1>3. ASSUME NEW x, S2 \subseteq S \union {x}
      PROVE  IsFiniteSet(S2) /\ Cardinality(S2) \in Nat /\ Cardinality(S2) <= Cardinality(S) + 1
  <2> DEFINE more == S \union {x}
  <2>1. IsFiniteSet(more) /\ Cardinality(more) = IF x \in S THEN Cardinality(S) ELSE Cardinality(S) + 1
    BY FS_AddElement
  <2>2. S2 \in SUBSET more
    BY <1>3
  <2> HIDE DEF more
  <2>3. IsFiniteSet(S2) /\ Cardinality(S2) <= Cardinality(more) /\ Cardinality(S2) \in Nat
    BY <2>1, <2>2, FS_Subset, FS_CardinalityType
  <2> QED
    BY <1>1, <2>1, <2>3
<1>4. ASSUME NEW x \in S, S2 \subseteq S \ {x}
      PROVE  IsFiniteSet(S2) /\ Cardinality(S2) \in Nat /\ Cardinality(S2) <= Cardinality(S) - 1
  <2> DEFINE less == S \ {x}
  <2>1. IsFiniteSet(less) /\ Cardinality(less) = Cardinality(S) - 1
    BY FS_RemoveElement
  <2>2. S2 \in SUBSET less
    BY <1>4
  <2> HIDE DEF less
  <2>3. IsFiniteSet(S2) /\ Cardinality(S2) <= Cardinality(less) /\ Cardinality(S2) \in Nat
    BY <2>1, <2>2, FS_Subset, FS_CardinalityType
  <2> QED
    BY <1>1, <2>1, <2>3
<1> QED
  BY <1>1, <1>2, <1>3, <1>4

\* made, passed and queued become made2, passed2 and queued2, and tasks tasks2.
LEMMA RoomAfter ==
    ASSUME NEW made, NEW passed, NEW queued, NEW tasks \in Int, NEW bounds \in SUBSET Nat,
           Room(made, passed, queued, tasks, bounds), NEW made2, NEW passed2, NEW queued2,
           passed2 \subseteq made2
    PROVE  \* nothing is more than it was, ...
           /\ made2 \subseteq made /\ passed2 \subseteq passed /\ queued2 \subseteq queued
                => Room(made2, passed2, queued2, tasks, bounds)
           \* ... a task is made, ...
           /\ \A x : made2 \subseteq made \union {x} /\ passed2 \subseteq passed /\ queued2 \subseteq queued
                => Room(made2, passed2, queued2, tasks + 1, bounds)
           \* ... is destroyed, ...
           /\ \A x \in made : made2 \subseteq made \ {x} /\ passed2 \subseteq passed /\ queued2 \subseteq queued
                => Room(made2, passed2, queued2, tasks - 1, bounds)
           \* ... passes, because there are few enough, ...
           /\ made2 \subseteq made /\ queued2 \subseteq queued /\ (\A n \in bounds : tasks <= n)
                => Room(made2, passed2, queued2, tasks, bounds)
           \* ... or is queued.
           /\ \A x \in passed : \A k : made2 \subseteq made \ {x} /\ passed2 \subseteq passed \ {x}
                                    /\ queued2 \subseteq queued \union {k}
                => Room(made2, passed2, queued2, tasks, bounds)
<1> DEFINE M == Cardinality(made)   M2 == Cardinality(made2)
           P == Cardinality(passed) P2 == Cardinality(passed2)
           Q == Cardinality(queued) Q2 == Cardinality(queued2)
<1>1. /\ IsFiniteSet(made) /\ IsFiniteSet(queued) /\ passed \subseteq made /\ IsFiniteSet(passed)
      /\ M \in Nat /\ P \in Nat /\ Q \in Nat /\ M + Q <= tasks /\ \A n \in bounds : P + Q <= n
  <2>1. /\ IsFiniteSet(made) /\ IsFiniteSet(queued) /\ passed \subseteq made
        /\ M + Q <= tasks /\ \A n \in bounds : P + Q <= n
    BY DEF Room
  <2>2. IsFiniteSet(passed)
    BY <2>1, Sizes
  <2> QED
    BY <2>1, <2>2, FS_CardinalityType
<1>2. ASSUME made2 \subseteq made, passed2 \subseteq passed, queued2 \subseteq queued
      PROVE  Room(made2, passed2, queued2, tasks, bounds)
  <2>1. /\ IsFiniteSet(made2) /\ IsFiniteSet(queued2) /\ M2 \in Nat /\ P2 \in Nat /\ Q2 \in Nat
        /\ M2 <= M /\ P2 <= P /\ Q2 <= Q
    BY <1>1, <1>2, Sizes
  <2> QED
    BY <1>1, <2>1 DEF Room
<1>3. ASSUME NEW x, made2 \subseteq made \union {x}, passed2 \subseteq passed, queued2 \subseteq queued
      PROVE  Room(made2, passed2, queued2, tasks + 1, bounds)
  <2>1. /\ IsFiniteSet(made2) /\ IsFiniteSet(queued2) /\ M2 \in Nat /\ P2 \in Nat /\ Q2 \in Nat
        /\ M2 <= M + 1 /\ P2 <= P /\ Q2 <= Q
    BY <1>1, <1>3, Sizes
  <2> QED
    BY <1>1, <2>1 DEF Room
<1>4. ASSUME NEW x \in made, made2 \subseteq made \ {x}, passed2 \subseteq passed, queued2 \subseteq queued
      PROVE  Room(made2, passed2, queued2, tasks - 1, bounds)
  <2>1. /\ IsFiniteSet(made2) /\ IsFiniteSet(queued2) /\ M2 \in Nat /\ P2 \in Nat /\ Q2 \in Nat
        /\ M2 <= M - 1 /\ P2 <= P /\ Q2 <= Q
    BY <1>1, <1>4, Sizes
  <2> QED
    BY <1>1, <2>1 DEF Room
<1>5. ASSUME made2 \subseteq made, queued2 \subseteq queued, \A n \in bounds : tasks <= n
      PROVE  Room(made2, passed2, queued2, tasks, bounds)
  <2>1. /\ IsFiniteSet(made2) /\ IsFiniteSet(queued2) /\ M2 \in Nat /\ Q2 \in Nat
        /\ M2 <= M /\ Q2 <= Q
    BY <1>1, <1>5, Sizes
  <2>2. P2 \in Nat /\ P2 <= M2
    BY <2>1, Sizes
  <2> QED
    BY <1>1, <1>5, <2>1, <2>2 DEF Room
<1>6. ASSUME NEW x \in passed, NEW k, made2 \subseteq made \ {x}, passed2 \subseteq passed \ {x},
             queued2 \subseteq queued \union {k}
      PROVE  Room(made2, passed2, queued2, tasks, bounds)
  <2>1. /\ IsFiniteSet(made2) /\ IsFiniteSet(queued2) /\ M2 \in Nat /\ P2 \in Nat /\ Q2 \in Nat
        /\ M2 <= M - 1 /\ P2 <= P - 1 /\ Q2 <= Q + 1
    <3>1. x \in made
      BY <1>1, <1>6
    <3> QED
      BY <1>1, <1>6, <3>1, Sizes
  <2> QED
    BY <1>1, <2>1 DEF Room
<1> QED
  BY <1>2, <1>3, <1>4, <1>5, <1>6

LEMMA HeldIs ==
    ASSUME stack \in [Thread -> Seq(Frame)]
    PROVE  \A p : p \in Held <=> \E u \in Thread : \E i \in 1..Len(stack[u]) : p = <<u, i>>
<1>1. \A u \in Thread : DOMAIN stack[u] = 1..Len(stack[u])
  BY LenProperties
<1> QED
  BY <1>1 DEF Held

\* After a step of thread t that leaves the lowest m frames alone, those that are
\* counted are among these, or of the new ones.
LEMMA CountAfter ==
    ASSUME Types, NEW t \in Thread, NEW s2 \in Seq(Frame), stack' = [stack EXCEPT ![t] = s2],
           NEW m \in Nat, m <= Len(stack[t]), \A j \in 1..m : s2[j] = stack[t][j], NEW r
    PROVE  /\ \A p \in MadeAt(r)' : \/ p \in MadeAt(r) /\ ~(p[1] = t /\ p[2] > m)
                                    \/ \E j \in (m + 1)..Len(s2) : p = <<t, j>> /\ Made(s2[j], r)
           /\ \A p \in PassedAt(r)' : \/ p \in PassedAt(r) /\ ~(p[1] = t /\ p[2] > m)
                                      \/ \E j \in (m + 1)..Len(s2) : p = <<t, j>> /\ Passed(s2[j], r)
           /\ PassedAt(r)' \subseteq MadeAt(r)'
<1>1. /\ stack' \in [Thread -> Seq(Frame)] /\ stack'[t] = s2
      /\ \A u \in Thread \ {t} : stack'[u] = stack[u]
  BY StackAfter
<1>2. \A p : p \in Held' <=> \E u \in Thread : \E i \in 1..Len(stack'[u]) : p = <<u, i>>
  <2>1. \A u \in Thread : DOMAIN stack'[u] = 1..Len(stack'[u])
    BY <1>1, LenProperties
  <2> QED
    BY <2>1 DEF Held
<1>3. \A p : p \in Held <=> \E u \in Thread : \E i \in 1..Len(stack[u]) : p = <<u, i>>
  BY HeldIs DEF Types
<1>4. ASSUME NEW p \in Held'
      PROVE  \/ p \in Held /\ stack'[p[1]][p[2]] = stack[p[1]][p[2]] /\ ~(p[1] = t /\ p[2] > m)
             \/ \E j \in (m + 1)..Len(s2) : p = <<t, j>> /\ stack'[p[1]][p[2]] = s2[j]
  <2>0. PICK u \in Thread : \E i \in 1..Len(stack'[u]) : p = <<u, i>>
    BY <1>2, <1>4
  <2>1. PICK i \in 1..Len(stack'[u]) : p = <<u, i>>
    BY <2>0
  <2>2. p[1] = u /\ p[2] = i
    BY <2>1
  <2>3. CASE u # t
    <3>1. stack'[u] = stack[u]
      BY <1>1, <2>3
    <3>2. p \in Held
      BY <1>3, <2>1, <3>1
    <3> QED
      BY <2>2, <2>3, <3>1, <3>2
  <2>4. CASE u = t
    <3>1. i \in 1..Len(s2) /\ stack'[p[1]][p[2]] = s2[i] /\ Len(s2) \in Nat /\ Len(stack[t]) \in Nat
      BY <1>1, <2>1, <2>2, <2>4, LenProperties DEF Types
    <3>2. CASE i <= m
      <4>1. i \in 1..m /\ i \in 1..Len(stack[t]) /\ ~(i > m)
        BY <3>1, <3>2
      <4>2. p \in Held
        BY <1>3, <2>1, <2>4, <4>1
      <4> QED
        BY <2>2, <2>4, <3>1, <4>1, <4>2
    <3>3. CASE ~(i <= m)
      <4>1. i \in (m + 1)..Len(s2)
        BY <3>1, <3>3
      <4> QED
        BY <2>1, <2>4, <3>1, <4>1
    <3> QED
      BY <3>2, <3>3
  <2> QED
    BY <2>3, <2>4
<1>5. \A p : /\ p \in MadeAt(r)' <=> p \in Held' /\ Made(stack'[p[1]][p[2]], r)
             /\ p \in PassedAt(r)' <=> p \in Held' /\ Passed(stack'[p[1]][p[2]], r)
             /\ p \in MadeAt(r) <=> p \in Held /\ Made(stack[p[1]][p[2]], r)
             /\ p \in PassedAt(r) <=> p \in Held /\ Passed(stack[p[1]][p[2]], r)
  BY DEF MadeAt, PassedAt, Made, Passed
<1>6. \A f : Passed(f, r) => Made(f, r)
  BY DEF Made, Passed
<1>7. ASSUME NEW p \in MadeAt(r)'
      PROVE  \/ p \in MadeAt(r) /\ ~(p[1] = t /\ p[2] > m)
             \/ \E j \in (m + 1)..Len(s2) : p = <<t, j>> /\ Made(s2[j], r)
  <2>1. p \in Held' /\ Made(stack'[p[1]][p[2]], r)
    BY <1>5, <1>7
  <2>2. CASE p \in Held /\ stack'[p[1]][p[2]] = stack[p[1]][p[2]] /\ ~(p[1] = t /\ p[2] > m)
    BY <1>5, <2>1, <2>2
  <2>3. CASE \E j \in (m + 1)..Len(s2) : p = <<t, j>> /\ stack'[p[1]][p[2]] = s2[j]
    BY <2>1, <2>3
  <2> QED
    BY <1>4, <2>1, <2>2, <2>3
<1>8. ASSUME NEW p \in PassedAt(r)'
      PROVE  \/ p \in PassedAt(r) /\ ~(p[1] = t /\ p[2] > m)
             \/ \E j \in (m + 1)..Len(s2) : p = <<t, j>> /\ Passed(s2[j], r)
  <2>1. p \in Held' /\ Passed(stack'[p[1]][p[2]], r)
    BY <1>5, <1>8
  <2>2. CASE p \in Held /\ stack'[p[1]][p[2]] = stack[p[1]][p[2]] /\ ~(p[1] = t /\ p[2] > m)
    BY <1>5, <2>1, <2>2
  <2>3. CASE \E j \in (m + 1)..Len(s2) : p = <<t, j>> /\ stack'[p[1]][p[2]] = s2[j]
    BY <2>1, <2>3
  <2> QED
    BY <1>4, <2>1, <2>2, <2>3
<1>9. PassedAt(r)' \subseteq MadeAt(r)'
  BY <1>5, <1>6
<1> QED
  BY <1>7, <1>8, <1>9

Place(t) == <<t, Len(stack[t])>>

LEMMA TopCounts ==
    ASSUME Types, NEW t \in Thread, stack[t] # <<>>, NEW r
    PROVE  (Place(t) \in MadeAt(r) <=> Made(Top(t), r)) /\ (Place(t) \in PassedAt(r) <=> Passed(Top(t), r))
<1> DEFINE n == Len(stack[t])
<1>1. n \in 1..n /\ Top(t) = stack[t][n]
  <2>1. n \in Nat \ {0} /\ Last(stack[t]) = stack[t][n]
    BY TopOf DEF Types
  <2> QED
    BY <2>1 DEF Top
<1>2. <<t, n>> \in Held
  BY <1>1, HeldIs DEF Types
<1> QED
  BY <1>1, <1>2 DEF MadeAt, PassedAt, Place

LEMMA PushCounts ==
    ASSUME Types, NEW t \in Thread, NEW f \in Frame, stack' = [stack EXCEPT ![t] = Append(stack[t], f)], NEW r
    PROVE  /\ PassedAt(r)' \subseteq MadeAt(r)'
           /\ MadeAt(r)' \subseteq MadeAt(r) \union {<<t, Len(stack[t]) + 1>>}
           /\ PassedAt(r)' \subseteq PassedAt(r) \union {<<t, Len(stack[t]) + 1>>}
           /\ ~Made(f, r) => MadeAt(r)' \subseteq MadeAt(r)
           /\ ~Passed(f, r) => PassedAt(r)' \subseteq PassedAt(r)
<1> DEFINE s2 == Append(stack[t], f)
           m == Len(stack[t])
<1>1. /\ s2 \in Seq(Frame) /\ m \in Nat /\ m <= Len(stack[t]) /\ Len(s2) = m + 1
      /\ s2[m + 1] = f /\ \A j \in 1..m : s2[j] = stack[t][j]
  BY AppendProperties, LenProperties DEF Types
<1>2. \A j \in (m + 1)..Len(s2) : j = m + 1
  BY <1>1
<1> HIDE DEF s2, m
<1>3. /\ \A p \in MadeAt(r)' : \/ p \in MadeAt(r) /\ ~(p[1] = t /\ p[2] > m)
                               \/ \E j \in (m + 1)..Len(s2) : p = <<t, j>> /\ Made(s2[j], r)
      /\ \A p \in PassedAt(r)' : \/ p \in PassedAt(r) /\ ~(p[1] = t /\ p[2] > m)
                                 \/ \E j \in (m + 1)..Len(s2) : p = <<t, j>> /\ Passed(s2[j], r)
      /\ PassedAt(r)' \subseteq MadeAt(r)'
  BY <1>1, CountAfter DEF s2
<1>4. /\ \A p \in MadeAt(r)' : p \in MadeAt(r) \/ (p = <<t, m + 1>> /\ Made(f, r))
      /\ \A p \in PassedAt(r)' : p \in PassedAt(r) \/ (p = <<t, m + 1>> /\ Passed(f, r))
  BY <1>1, <1>2, <1>3
<1> QED
  BY <1>3, <1>4 DEF m

LEMMA PopCounts ==
    ASSUME Types, NEW t \in Thread, stack[t] # <<>>, stack' = [stack EXCEPT ![t] = Front(stack[t])], NEW r
    PROVE  /\ PassedAt(r)' \subseteq MadeAt(r)'
           /\ MadeAt(r)' \subseteq MadeAt(r) \ {Place(t)} /\ PassedAt(r)' \subseteq PassedAt(r) \ {Place(t)}
<1> DEFINE s2 == Front(stack[t])
           n == Len(stack[t])
           m == n - 1
<1>1. /\ s2 \in Seq(Frame) /\ n \in Nat \ {0} /\ Len(s2) = m /\ \A j \in 1..m : s2[j] = stack[t][j]
  BY TopOf DEF Types
<1>2. m \in Nat /\ m <= Len(stack[t]) /\ n > m /\ \A j \in (m + 1)..Len(s2) : FALSE
  BY <1>1
<1> HIDE DEF s2, m
<1>3. /\ \A p \in MadeAt(r)' : \/ p \in MadeAt(r) /\ ~(p[1] = t /\ p[2] > m)
                               \/ \E j \in (m + 1)..Len(s2) : p = <<t, j>> /\ Made(s2[j], r)
      /\ \A p \in PassedAt(r)' : \/ p \in PassedAt(r) /\ ~(p[1] = t /\ p[2] > m)
                                 \/ \E j \in (m + 1)..Len(s2) : p = <<t, j>> /\ Passed(s2[j], r)
      /\ PassedAt(r)' \subseteq MadeAt(r)'
  BY <1>1, <1>2, CountAfter DEF s2
<1>4. \A p : ~(p[1] = t /\ p[2] > m) => p # Place(t)
  BY <1>2 DEF Place
<1> QED
  BY <1>2, <1>3, <1>4

LEMMA SwapCounts ==
    ASSUME Types, NEW t \in Thread, stack[t] # <<>>, NEW f \in Frame,
           stack' = [stack EXCEPT ![t] = Append(Front(stack[t]), f)], NEW r
    PROVE  /\ PassedAt(r)' \subseteq MadeAt(r)'
           /\ MadeAt(r)' \subseteq MadeAt(r) \union {Place(t)}
           /\ (Made(f, r) => Made(Top(t), r)) => MadeAt(r)' \subseteq MadeAt(r)
           /\ (Passed(f, r) => Passed(Top(t), r)) => PassedAt(r)' \subseteq PassedAt(r)
<1> DEFINE s2 == Append(Front(stack[t]), f)
           n == Len(stack[t])
           m == n - 1
<1>1. /\ s2 \in Seq(Frame) /\ n \in Nat \ {0} /\ Len(s2) = n /\ s2[n] = f
      /\ \A j \in 1..(n - 1) : s2[j] = stack[t][j]
  BY TopOf, Swapped DEF Types
<1>2. m \in Nat /\ m <= Len(stack[t]) /\ (\A j \in (m + 1)..Len(s2) : j = n) /\ \A j \in 1..m : s2[j] = stack[t][j]
  BY <1>1
<1> HIDE DEF s2, m
<1>3. /\ \A p \in MadeAt(r)' : \/ p \in MadeAt(r) /\ ~(p[1] = t /\ p[2] > m)
                               \/ \E j \in (m + 1)..Len(s2) : p = <<t, j>> /\ Made(s2[j], r)
      /\ \A p \in PassedAt(r)' : \/ p \in PassedAt(r) /\ ~(p[1] = t /\ p[2] > m)
                                 \/ \E j \in (m + 1)..Len(s2) : p = <<t, j>> /\ Passed(s2[j], r)
      /\ PassedAt(r)' \subseteq MadeAt(r)'
  BY <1>1, <1>2, CountAfter DEF s2
<1>4. /\ \A p \in MadeAt(r)' : p \in MadeAt(r) \/ (p = Place(t) /\ Made(f, r))
      /\ \A p \in PassedAt(r)' : p \in PassedAt(r) \/ (p = Place(t) /\ Passed(f, r))
  BY <1>1, <1>2, <1>3 DEF Place
<1>5. (Place(t) \in MadeAt(r) <=> Made(Top(t), r)) /\ (Place(t) \in PassedAt(r) <=> Passed(Top(t), r))
  BY TopCounts
<1> QED
  BY <1>3, <1>4, <1>5

\* A task that is new is not counted yet.
LEMMA SwapPushCounts ==
    ASSUME Types, NEW t \in Thread, stack[t] # <<>>, NEW f \in Frame, NEW g \in Frame,
           stack' = [stack EXCEPT ![t] = Front(stack[t]) \o <<f, g>>], NEW r,
           Made(f, r) => Made(Top(t), r), Passed(f, r) => Passed(Top(t), r),
           g.kind = "make", g.stage = "new"
    PROVE  /\ PassedAt(r)' \subseteq MadeAt(r)'
           /\ MadeAt(r)' \subseteq MadeAt(r) /\ PassedAt(r)' \subseteq PassedAt(r)
<1> DEFINE n == Len(stack[t])
           m == n - 1
           s1 == Append(Front(stack[t]), f)
           s2 == Append(s1, g)
<1>1. /\ s1 \in Seq(Frame) /\ n \in Nat \ {0} /\ Len(s1) = n /\ s1[n] = f
      /\ \A j \in 1..(n - 1) : s1[j] = stack[t][j]
  <2>1. stack[t] \in Seq(Frame)
    BY DEF Types
  <2>2. n \in Nat \ {0}
    BY <2>1, TopOf
  <2>3. PICK s : s = stack[t]
    OBVIOUS
  <2> DEFINE new == Append(Front(s), f)
  <2>4. /\ new \in Seq(Frame) /\ Len(new) = Len(s) /\ new[Len(s)] = f
        /\ \A j \in 1..(Len(s) - 1) : new[j] = s[j]
    BY <2>1, <2>3, Swapped
  <2>5. s1 = new /\ n = Len(s)
    BY <2>3
  <2> HIDE DEF new, s1, n
  <2> QED
    BY <2>2, <2>3, <2>4, <2>5
<1>2. Front(stack[t]) \in Seq(Frame)
  BY TopOf DEF Types
<1>3. Front(stack[t]) \o <<f, g>> = s2
  BY <1>2, TwoOnTop
<1> HIDE DEF s1
<1>4. /\ s2 \in Seq(Frame) /\ Len(s2) = Len(s1) + 1 /\ s2[Len(s1) + 1] = g /\ \A j \in 1..Len(s1) : s2[j] = s1[j]
  BY <1>1, AppendProperties
<1> HIDE DEF s2
<1>5. /\ m \in Nat /\ m <= Len(stack[t]) /\ (\A j \in (m + 1)..Len(s2) : j = n \/ j = n + 1)
      /\ (\A j \in 1..m : j \in 1..n /\ j \in 1..(n - 1)) /\ n \in 1..n
  BY <1>1, <1>4
<1>6. s2[n] = f /\ s2[n + 1] = g /\ \A j \in 1..m : s2[j] = stack[t][j]
  BY <1>1, <1>4, <1>5
<1> HIDE DEF m
<1>7. /\ \A p \in MadeAt(r)' : \/ p \in MadeAt(r) /\ ~(p[1] = t /\ p[2] > m)
                               \/ \E j \in (m + 1)..Len(s2) : p = <<t, j>> /\ Made(s2[j], r)
      /\ \A p \in PassedAt(r)' : \/ p \in PassedAt(r) /\ ~(p[1] = t /\ p[2] > m)
                                 \/ \E j \in (m + 1)..Len(s2) : p = <<t, j>> /\ Passed(s2[j], r)
      /\ PassedAt(r)' \subseteq MadeAt(r)'
  BY <1>3, <1>4, <1>5, <1>6, CountAfter
<1>8. ~Made(g, r) /\ ~Passed(g, r)
  BY DEF Made, Passed
<1>9. (Place(t) \in MadeAt(r) <=> Made(Top(t), r)) /\ (Place(t) \in PassedAt(r) <=> Passed(Top(t), r))
  BY TopCounts
<1>10. /\ \A p \in MadeAt(r)' : p \in MadeAt(r) \/ (p = Place(t) /\ Made(f, r))
       /\ \A p \in PassedAt(r)' : p \in PassedAt(r) \/ (p = Place(t) /\ Passed(f, r))
  <2>1. ASSUME NEW p \in MadeAt(r)' PROVE p \in MadeAt(r) \/ (p = <<t, n>> /\ Made(f, r))
    BY <1>5, <1>6, <1>7, <1>8
  <2>2. ASSUME NEW p \in PassedAt(r)' PROVE p \in PassedAt(r) \/ (p = <<t, n>> /\ Passed(f, r))
    BY <1>5, <1>6, <1>7, <1>8
  <2> QED
    BY <2>1, <2>2 DEF Place
<1> QED
  BY <1>7, <1>9, <1>10

LEMMA SameRoom ==
    ASSUME Types, Counted, UNCHANGED <<queue, active>>,
           \A r : /\ PassedAt(r)' \subseteq MadeAt(r)'
                  /\ MadeAt(r)' \subseteq MadeAt(r) /\ PassedAt(r)' \subseteq PassedAt(r)
    PROVE  Counted'
<1> SUFFICES ASSUME NEW r \in Reaction \ AlwaysOn PROVE HasRoom(r)'
  BY DEF Counted
<1>1. active[r] \in Int /\ Bounds(r) \in SUBSET Nat
  BY SentenceAssumption DEF Types, Bounds
<1>2. InQueue(r)' = InQueue(r) /\ active'[r] = active[r] /\ Bounds(r)' = Bounds(r)
  BY DEF InQueue, Bounds
<1>3. Room(MadeAt(r)', PassedAt(r)', InQueue(r)', active[r], Bounds(r))
  BY <1>1, <1>2, RoomAfter DEF Counted, HasRoom
<1> QED
  BY <1>2, <1>3 DEF HasRoom

LEMMA LoopsCounted ==
    ASSUME Context, Counted, NEW t \in Thread,
           \/ Offer(t) \/ EndEmit(t)
           \/ \E T \in Type : Packet(t, T) \/ \E inline \in BOOLEAN : Emit(t, T, inline)
    PROVE  Counted'
<1>1. UNCHANGED <<queue, active>> /\ Types
  BY DEF Offer, EndEmit, Packet, Emit, Context
<1>2. CASE \E T \in Type : Packet(t, T) \/ \E inline \in BOOLEAN : Emit(t, T, inline)
  <2>1. PICK T \in Type, inline \in BOOLEAN : stack' = [stack EXCEPT ![t] = Append(stack[t], Loop(T, inline))]
    BY <1>2 DEF Packet, Emit, Push
  <2>2. Loop(T, inline) \in Frame /\ Loop(T, inline).kind = "emit"
    BY <1>1, LoopType, Kinds
  <2>3. \A r : ~Made(Loop(T, inline), r) /\ ~Passed(Loop(T, inline), r)
    BY <2>2 DEF Made, Passed
  <2> QED
    BY <1>1, <2>1, <2>2, <2>3, PushCounts, SameRoom
<1>3. CASE EndEmit(t)
  <2>1. stack[t] # <<>> /\ stack' = [stack EXCEPT ![t] = Front(stack[t])]
    BY <1>3 DEF EndEmit, Doing, Pop
  <2>2. \A r : /\ PassedAt(r)' \subseteq MadeAt(r)'
               /\ MadeAt(r)' \subseteq MadeAt(r) /\ PassedAt(r)' \subseteq PassedAt(r)
    BY <1>1, <2>1, PopCounts
  <2> QED
    BY <1>1, <2>2, SameRoom
<1>4. CASE Offer(t)
  <2> DEFINE f == Top(t)
             g == [f EXCEPT !.at = @ + 1]
             m == Making(list[f.type][f.at], f.inline, "new")
  <2>1. stack[t] # <<>> /\ f.kind = "emit" /\ f \in EmitFrame
    BY <1>4, SoundNow DEF Offer, Doing
  <2>2. CASE UNCHANGED stack
    <3>1. \A r : /\ PassedAt(r)' \subseteq MadeAt(r)'
                 /\ MadeAt(r)' \subseteq MadeAt(r) /\ PassedAt(r)' \subseteq PassedAt(r)
      BY <2>2 DEF PassedAt, MadeAt, Held, Passed, Made
    <3> QED
      BY <1>1, <3>1, SameRoom
  <2>3. CASE ~(f.at > Len(list[f.type]))
    <3>1. stack' = [stack EXCEPT ![t] = Front(stack[t]) \o <<g, m>>]
      BY <1>4, <2>3 DEF Offer
    <3>2. f.type \in Type /\ f.at \in Nat \ {0} /\ f.inline \in BOOLEAN
      BY <2>1 DEF EmitFrame
    <3>3. g \in Frame /\ g.kind = "emit"
      <4>1. f.at + 1 \in Nat \ {0}
        BY <3>2
      <4>2. g \in EmitFrame
        BY <2>1, <4>1 DEF EmitFrame
      <4> QED
        BY <4>2, Kinds DEF Frame
    <3>4. m \in Frame /\ m.kind = "make" /\ m.stage = "new"
      <4>1. list[f.type] \in Seq(Reaction)
        BY <1>1, <3>2 DEF Types
      <4>2. f.at \in 1..Len(list[f.type])
        BY <2>3, <3>2, <4>1, LenProperties
      <4>3. list[f.type][f.at] \in Reaction
        BY <4>1, <4>2, ElementOfSeq
      <4> QED
        BY <3>2, <4>3 DEF Making, MakeFrame, Frame
    <3> HIDE DEF g, m
    <3>5. \A r : ~Made(g, r) /\ ~Passed(g, r)
      BY <3>3 DEF Made, Passed
    <3>6. \A r : /\ PassedAt(r)' \subseteq MadeAt(r)'
                 /\ MadeAt(r)' \subseteq MadeAt(r) /\ PassedAt(r)' \subseteq PassedAt(r)
      BY <1>1, <2>1, <3>1, <3>3, <3>4, <3>5, SwapPushCounts
    <3> QED
      BY <1>1, <3>6, SameRoom
  <2> QED
    BY <1>4, <2>2, <2>3 DEF Offer
<1> QED
  BY <1>2, <1>3, <1>4

\* A frame of the same task counts the same.
LEMMA StageCounted ==
    ASSUME Types, NEW t \in Thread, Doing(t, "run"), Top(t) \in RunFrame,
           NEW todo \in Seq(Spoken), Stage(t, "post", todo)
    PROVE  \A r : /\ PassedAt(r)' \subseteq MadeAt(r)'
                  /\ MadeAt(r)' \subseteq MadeAt(r) /\ PassedAt(r)' \subseteq PassedAt(r)
<1> DEFINE f == Top(t)
           g == [f EXCEPT !.stage = "post", !.todo = todo]
<1>1. stack[t] # <<>> /\ f.kind = "run" /\ f \in RunFrame
  BY DEF Doing
<1>2. g \in RunFrame /\ g \in Frame /\ g.kind = "run" /\ g.task = f.task
  BY <1>1 DEF RunFrame, Frame
<1>3. stack' = [stack EXCEPT ![t] = Append(Front(stack[t]), g)]
  BY DEF Stage, Replace
<1> HIDE DEF g
<1>4. \A r : (Made(g, r) <=> Made(f, r)) /\ (Passed(g, r) <=> Passed(f, r))
  BY <1>1, <1>2 DEF Made, Passed
<1> QED
  BY <1>1, <1>2, <1>3, <1>4, SwapCounts

LEMMA CallbackCounted ==
    ASSUME Context, Counted, NEW t \in Thread, Return(t) \/ Throw(t) \/ OnceUnbinds(t)
    PROVE  Counted'
<1>1. UNCHANGED <<queue, active>> /\ Types
  BY DEF Return, Throw, OnceUnbinds, Context
<1>2. Doing(t, "run") /\ Top(t) \in RunFrame
  BY SoundNow DEF Return, Throw, OnceUnbinds, Post, At, Doing
<1>3. PICK todo \in Seq(Spoken) : Stage(t, "post", todo)
  <2>1. Top(t).task.r \in Reaction
    BY <1>2 DEF RunFrame, Task
  <2>2. CASE Return(t) \/ Throw(t)
    BY <2>1, <2>2, SpokenWords DEF Return, Throw
  <2>3. CASE OnceUnbinds(t)
    BY <2>3, TodoTail DEF OnceUnbinds
  <2> QED
    BY <2>2, <2>3
<1> QED
  BY <1>1, <1>2, <1>3, StageCounted, SameRoom

LEMMA ResubmitCounted ==
    ASSUME Context, Counted, NEW t \in Thread, Resubmit(t)
    PROVE  Counted'
<1> DEFINE f == Top(t)
           m == Making(f.task.r, FALSE, "new")
<1>1. UNCHANGED <<queue, active>> /\ Types
  BY DEF Resubmit, Context
<1>2. stack[t] # <<>> /\ f.kind = "run" /\ f \in RunFrame
  BY SoundNow DEF Resubmit, Post, At, Doing
<1>3. PICK g \in RunFrame :
         g.task = f.task /\ stack' = [stack EXCEPT ![t] = Front(stack[t]) \o <<g, Making(g.task.r, FALSE, "new")>>]
  <2>1. CASE Post(t, "Always") /\ Makes(t, [Top(t) EXCEPT !.todo = Tail(@)])
    <3> DEFINE g == [f EXCEPT !.todo = Tail(f.todo)]
    <3>1. Tail(f.todo) \in Seq(Spoken)
      BY <2>1, TodoTail
    <3>2. g \in RunFrame /\ g.task = f.task
      BY <1>2, <3>1 DEF RunFrame
    <3> QED
      BY <2>1, <3>2 DEF Makes
  <2>2. CASE At(t, "run", "body") /\ Top(t).task.idle /\ Makes(t, [Top(t) EXCEPT !.stage = "idle"])
    <3> DEFINE g == [f EXCEPT !.stage = "idle"]
    <3>1. g \in RunFrame /\ g.task = f.task
      BY <1>2, <2>2 DEF RunFrame
    <3> QED
      BY <2>2, <3>1 DEF Makes
  <2> QED
    BY <2>1, <2>2 DEF Resubmit
<1>4. m \in Frame /\ m.kind = "make" /\ m.stage = "new" /\ Making(g.task.r, FALSE, "new") = m
  <2>1. f.task.r \in Reaction
    BY <1>2 DEF RunFrame, Task
  <2> QED
    BY <1>3, <2>1 DEF Making, MakeFrame, Frame
<1>5. g \in Frame /\ g.kind = "run"
  BY <1>3, Kinds DEF Frame
<1> HIDE DEF m
<1>6. \A r : (Made(g, r) <=> Made(f, r)) /\ (Passed(g, r) <=> Passed(f, r))
  BY <1>2, <1>3, <1>5 DEF Made, Passed
<1>7. \A r : /\ PassedAt(r)' \subseteq MadeAt(r)'
             /\ MadeAt(r)' \subseteq MadeAt(r) /\ PassedAt(r)' \subseteq PassedAt(r)
  BY <1>1, <1>2, <1>3, <1>4, <1>5, <1>6, SwapPushCounts
<1> QED
  BY <1>1, <1>7, SameRoom


LEMMA RoomNow ==
    ASSUME Types, Counted, NEW r \in Reaction \ AlwaysOn
    PROVE  /\ active[r] \in Int /\ Bounds(r) \in SUBSET Nat
           /\ Room(MadeAt(r), PassedAt(r), InQueue(r), active[r], Bounds(r))
  BY SentenceAssumption DEF Types, Bounds, Counted, HasRoom

LEMMA RoomLess ==
    ASSUME Types, Counted, NEW r \in Reaction \ AlwaysOn, NEW x \in MadeAt(r),
           PassedAt(r)' \subseteq MadeAt(r)', MadeAt(r)' \subseteq MadeAt(r) \ {x},
           PassedAt(r)' \subseteq PassedAt(r)
    PROVE  Room(MadeAt(r)', PassedAt(r)', InQueue(r), active[r] - 1, Bounds(r))
<1> DEFINE m == MadeAt(r)  p == PassedAt(r)  m2 == MadeAt(r)'  p2 == PassedAt(r)'  q == InQueue(r)
           a == active[r]  b == Bounds(r)
<1>1. a \in Int /\ b \in SUBSET Nat /\ Room(m, p, q, a, b)
  BY RoomNow
<1>2. x \in m /\ p2 \subseteq m2 /\ m2 \subseteq m \ {x} /\ p2 \subseteq p /\ q \subseteq q
  OBVIOUS
<1> HIDE DEF m, p, m2, p2, q, a, b
<1>3. Room(m2, p2, q, a - 1, b)
  BY <1>1, <1>2, RoomAfter
<1> QED
  BY <1>3 DEF m2, p2, q, a, b

LEMMA NewCounted ==
    ASSUME Context, Counted, NEW t \in Thread, New(t)
    PROVE  Counted'
<1> DEFINE f == Top(t)
           g == [f EXCEPT !.stage = "check"]
<1>1. queue' = queue /\ Types
  BY DEF New, Context
<1>2. stack[t] # <<>> /\ f.kind = "make" /\ f \in MakeFrame /\ f.r \in Reaction /\ f.stage = "new"
  BY SoundNow DEF New, At, Doing, MakeFrame
<1>3. \A r : InQueue(r)' = InQueue(r) /\ Bounds(r)' = Bounds(r)
  BY <1>1 DEF InQueue, Bounds
<1>4. CASE ~enabled[f.r]
  <2>1. stack' = [stack EXCEPT ![t] = Front(stack[t])] /\ active' = active
    BY <1>4 DEF New, Pop
  <2>2. \A r : /\ PassedAt(r)' \subseteq MadeAt(r)'
               /\ MadeAt(r)' \subseteq MadeAt(r) /\ PassedAt(r)' \subseteq PassedAt(r)
    BY <1>1, <1>2, <2>1, PopCounts
  <2> QED
    BY <1>1, <2>1, <2>2, SameRoom
<1>5. CASE enabled[f.r]
  <2>1. stack' = [stack EXCEPT ![t] = Append(Front(stack[t]), g)] /\ active' = [active EXCEPT ![f.r] = @ + 1]
    BY <1>5 DEF New, Replace
  <2>2. g \in Frame /\ g.kind = "make" /\ g.stage = "check" /\ g.r = f.r
    BY <1>2 DEF MakeFrame, Frame
  <2> HIDE DEF g
  <2> SUFFICES ASSUME NEW r \in Reaction \ AlwaysOn PROVE HasRoom(r)'
    BY DEF Counted
  <2>3. ~Passed(g, r) /\ (r # f.r => ~Made(g, r))
    BY <2>2 DEF Passed, Made
  <2>4. /\ PassedAt(r)' \subseteq MadeAt(r)' /\ MadeAt(r)' \subseteq MadeAt(r) \union {Place(t)}
        /\ (r # f.r => MadeAt(r)' \subseteq MadeAt(r)) /\ PassedAt(r)' \subseteq PassedAt(r)
    BY <1>1, <1>2, <2>1, <2>2, <2>3, SwapCounts
  <2>5. active'[r] = IF r = f.r THEN active[r] + 1 ELSE active[r]
    BY <1>1, <1>2, <2>1 DEF Types
  <2>6. Room(MadeAt(r)', PassedAt(r)', InQueue(r), active'[r], Bounds(r))
    <3>1. CASE r = f.r
      <4>1. Room(MadeAt(r)', PassedAt(r)', InQueue(r), active[r] + 1, Bounds(r))
        BY <1>1, <2>4, RoomNow, RoomAfter
      <4> QED
        BY <2>5, <3>1, <4>1
    <3>2. CASE r # f.r
      BY <1>1, <2>4, <2>5, <3>2, RoomNow, RoomAfter
    <3> QED
      BY <3>1, <3>2
  <2> QED
    BY <1>3, <2>6 DEF HasRoom
<1> QED
  BY <1>4, <1>5

\* What Buffer and Once ask before the task goes on.
LEMMA FewEnough ==
    ASSUME Types, NEW r \in Reaction, Precondition(r)
    PROVE  \A n \in Bounds(r) : active[r] <= n
<1> SUFFICES ASSUME NEW n \in Bounds(r) PROVE active[r] <= n
  OBVIOUS
<1> DEFINE found == Find(Sentence[r], {"Buffer", "Once"})
<1>1. PICK i \in DOMAIN found : found[i].of = n
  BY DEF Bounds, Of
<1>2. Holds(found[i], active[r])
  BY <1>1 DEF Precondition, Preconditions
<1>3. n \in Nat /\ active[r] \in Int /\ active[r] < n + 1
  BY <1>1, <1>2, SentenceAssumption DEF Holds, Types, Bounds
<1> QED
  BY <1>3

LEMMA CheckCounted ==
    ASSUME Context, Counted, NEW t \in Thread, Check(t)
    PROVE  Counted'
<1> DEFINE f == Top(t)
           g == [f EXCEPT !.stage = "get"]
<1>1. queue' = queue /\ Types
  BY DEF Check, Context
<1>2. stack[t] # <<>> /\ f.kind = "make" /\ f \in MakeFrame /\ f.r \in Reaction /\ f.stage = "check"
  BY SoundNow DEF Check, At, Doing, MakeFrame
<1>3. \A r : InQueue(r)' = InQueue(r) /\ Bounds(r)' = Bounds(r)
  BY <1>1 DEF InQueue, Bounds
<1> SUFFICES ASSUME NEW r \in Reaction \ AlwaysOn PROVE HasRoom(r)'
  BY DEF Counted
<1>4. Made(f, r) <=> r = f.r
  BY <1>2 DEF Made
<1>5. CASE Precondition(f.r)
  <2>1. stack' = [stack EXCEPT ![t] = Append(Front(stack[t]), g)] /\ active' = active
    BY <1>5 DEF Check, Replace
  <2>2. g \in Frame /\ g.kind = "make" /\ g.stage = "get" /\ g.r = f.r
    BY <1>2 DEF MakeFrame, Frame
  <2> HIDE DEF g
  <2>3. (Made(g, r) <=> r = f.r) /\ (Passed(g, r) <=> r = f.r)
    BY <2>2 DEF Passed, Made
  <2>4. /\ PassedAt(r)' \subseteq MadeAt(r)' /\ MadeAt(r)' \subseteq MadeAt(r)
        /\ r # f.r => PassedAt(r)' \subseteq PassedAt(r)
    BY <1>1, <1>2, <1>4, <2>1, <2>2, <2>3, SwapCounts
  <2>5. r = f.r => \A n \in Bounds(r) : active[r] <= n
    BY <1>1, <1>5, FewEnough
  <2>6. Room(MadeAt(r)', PassedAt(r)', InQueue(r), active[r], Bounds(r))
    <3>1. CASE r = f.r
      BY <1>1, <2>4, <2>5, <3>1, RoomNow, RoomAfter
    <3>2. CASE r # f.r
      BY <1>1, <2>4, <3>2, RoomNow, RoomAfter
    <3> QED
      BY <3>1, <3>2
  <2> QED
    BY <1>3, <2>1, <2>6 DEF HasRoom
<1>6. CASE ~Precondition(f.r)
  <2>1. stack' = [stack EXCEPT ![t] = Front(stack[t])] /\ active' = [active EXCEPT ![f.r] = @ - 1]
    BY <1>6 DEF Check, Pop
  <2>2. /\ PassedAt(r)' \subseteq MadeAt(r)'
        /\ MadeAt(r)' \subseteq MadeAt(r) \ {Place(t)} /\ PassedAt(r)' \subseteq PassedAt(r) \ {Place(t)}
    BY <1>1, <1>2, <2>1, PopCounts
  <2>3. r = f.r => Place(t) \in MadeAt(r)
    BY <1>1, <1>2, <1>4, TopCounts
  <2>4. active'[r] = IF r = f.r THEN active[r] - 1 ELSE active[r]
    BY <1>1, <1>2, <2>1 DEF Types
  <2>5. Room(MadeAt(r)', PassedAt(r)', InQueue(r), active'[r], Bounds(r))
    <3>0. MadeAt(r)' \subseteq MadeAt(r) /\ PassedAt(r)' \subseteq PassedAt(r)
      BY <2>2
    <3>1. CASE r = f.r
      <4>1. Room(MadeAt(r)', PassedAt(r)', InQueue(r), active[r] - 1, Bounds(r))
        BY <1>1, <2>2, <2>3, <3>0, <3>1, RoomLess
      <4> QED
        BY <2>4, <3>1, <4>1
    <3>2. CASE r # f.r
      BY <1>1, <2>2, <2>4, <3>0, <3>2, RoomNow, RoomAfter
    <3> QED
      BY <3>1, <3>2
  <2> QED
    BY <1>3, <2>5 DEF HasRoom
<1> QED
  BY <1>5, <1>6

LEMMA DoneCounted ==
    ASSUME Context, Counted, NEW t \in Thread, Done(t)
    PROVE  Counted'
<1> DEFINE f == Top(t)
<1>1. queue' = queue /\ Types
  BY DEF Done, Context
<1>2. stack[t] # <<>> /\ f.kind = "run" /\ f \in RunFrame /\ f.task.r \in Reaction
  BY SoundNow DEF Done, At, Doing, RunFrame, Task
<1>3. \A r : InQueue(r)' = InQueue(r) /\ Bounds(r)' = Bounds(r)
  BY <1>1 DEF InQueue, Bounds
<1> SUFFICES ASSUME NEW r \in Reaction \ AlwaysOn PROVE HasRoom(r)'
  BY DEF Counted
<1>4. Made(f, r) <=> r = f.task.r
  BY <1>2 DEF Made
<1>5. stack' = [stack EXCEPT ![t] = Front(stack[t])] /\ active' = [active EXCEPT ![f.task.r] = @ - 1]
  BY DEF Done, Pop
<1>6. /\ PassedAt(r)' \subseteq MadeAt(r)'
      /\ MadeAt(r)' \subseteq MadeAt(r) \ {Place(t)} /\ PassedAt(r)' \subseteq PassedAt(r) \ {Place(t)}
  BY <1>1, <1>2, <1>5, PopCounts
<1>7. r = f.task.r => Place(t) \in MadeAt(r)
  BY <1>1, <1>2, <1>4, TopCounts
<1>8. active'[r] = IF r = f.task.r THEN active[r] - 1 ELSE active[r]
  BY <1>1, <1>2, <1>5 DEF Types
<1>9. MadeAt(r)' \subseteq MadeAt(r) /\ PassedAt(r)' \subseteq PassedAt(r)
  BY <1>6
<1>10. Room(MadeAt(r)', PassedAt(r)', InQueue(r), active'[r], Bounds(r))
  <2>1. CASE r = f.task.r
    <3>1. Room(MadeAt(r)', PassedAt(r)', InQueue(r), active[r] - 1, Bounds(r))
      BY <1>1, <1>6, <1>7, <1>9, <2>1, RoomLess
    <3> QED
      BY <1>8, <2>1, <3>1
  <2>2. CASE r # f.task.r
    BY <1>1, <1>6, <1>8, <1>9, <2>2, RoomNow, RoomAfter
  <2> QED
    BY <2>1, <2>2
<1> QED
  BY <1>3, <1>10 DEF HasRoom


\* The tasks that are queued are their own, so that case is one for each reaction.
LEMMA RoomQueued ==
    ASSUME Types, Counted, NEW r \in Reaction \ AlwaysOn, NEW x \in PassedAt(r), NEW k, NEW queued,
           PassedAt(r)' \subseteq MadeAt(r)', MadeAt(r)' \subseteq MadeAt(r) \ {x},
           PassedAt(r)' \subseteq PassedAt(r) \ {x}, queued \subseteq InQueue(r) \union {k}
    PROVE  Room(MadeAt(r)', PassedAt(r)', queued, active[r], Bounds(r))
<1> DEFINE m == MadeAt(r)  p == PassedAt(r)  m2 == MadeAt(r)'  p2 == PassedAt(r)'  q == InQueue(r)
           a == active[r]  b == Bounds(r)
<1>1. a \in Int /\ b \in SUBSET Nat /\ Room(m, p, q, a, b)
  BY RoomNow
<1>2. x \in p /\ p2 \subseteq m2 /\ m2 \subseteq m \ {x} /\ p2 \subseteq p \ {x} /\ queued \subseteq q \union {k}
  OBVIOUS
<1> HIDE DEF m, p, m2, p2, q, a, b
<1>3. Room(m2, p2, queued, a, b)
  BY <1>1, <1>2, RoomAfter
<1> QED
  BY <1>3 DEF m2, p2, a, b

LEMMA RoomTaken ==
    ASSUME Types, Counted, NEW r \in Reaction \ AlwaysOn, NEW x, NEW k \in InQueue(r), NEW queued,
           PassedAt(r)' \subseteq MadeAt(r)', MadeAt(r)' \subseteq MadeAt(r) \union {x},
           PassedAt(r)' \subseteq PassedAt(r) \union {x}, queued \subseteq InQueue(r) \ {k}
    PROVE  Room(MadeAt(r)', PassedAt(r)', queued, active[r], Bounds(r))
<1> DEFINE m == MadeAt(r)  p == PassedAt(r)  m2 == MadeAt(r)'  p2 == PassedAt(r)'  q == InQueue(r)
           a == active[r]  b == Bounds(r)
<1>1. a \in Int /\ b \in SUBSET Nat /\ Room(m, p, q, a, b)
  BY RoomNow
<1>2. /\ k \in q /\ p2 \subseteq m2 /\ m2 \subseteq m \union {x} /\ p2 \subseteq p \union {x}
      /\ queued \subseteq q \ {k}
  OBVIOUS
<1> DEFINE M == Cardinality(m)   M2 == Cardinality(m2)
           P == Cardinality(p)   P2 == Cardinality(p2)
           Q == Cardinality(q)   Q2 == Cardinality(queued)
<1> HIDE DEF m, p, m2, p2, q, a, b
<1>3. /\ IsFiniteSet(m) /\ IsFiniteSet(q) /\ IsFiniteSet(p)
      /\ M \in Nat /\ P \in Nat /\ Q \in Nat /\ M + Q <= a /\ \A n \in b : P + Q <= n
  <2>1. /\ IsFiniteSet(m) /\ IsFiniteSet(q) /\ p \subseteq m
        /\ M + Q <= a /\ \A n \in b : P + Q <= n
    BY <1>1 DEF Room
  <2>2. IsFiniteSet(p)
    BY <2>1, Sizes
  <2> QED
    BY <2>1, <2>2, FS_CardinalityType
<1>4. /\ IsFiniteSet(m2) /\ IsFiniteSet(queued) /\ M2 \in Nat /\ P2 \in Nat /\ Q2 \in Nat
      /\ M2 <= M + 1 /\ P2 <= P + 1 /\ Q2 <= Q - 1
  BY <1>2, <1>3, Sizes
<1>5. Room(m2, p2, queued, a, b)
  BY <1>1, <1>2, <1>3, <1>4 DEF Room
<1> QED
  BY <1>5 DEF m2, p2, a, b

LEMMA RoomSame ==
    ASSUME Types, Counted, NEW r \in Reaction \ AlwaysOn, NEW queued,
           PassedAt(r)' \subseteq MadeAt(r)', MadeAt(r)' \subseteq MadeAt(r),
           PassedAt(r)' \subseteq PassedAt(r), queued \subseteq InQueue(r)
    PROVE  Room(MadeAt(r)', PassedAt(r)', queued, active[r], Bounds(r))
<1> DEFINE m == MadeAt(r)  p == PassedAt(r)  m2 == MadeAt(r)'  p2 == PassedAt(r)'  q == InQueue(r)
           a == active[r]  b == Bounds(r)
<1>1. a \in Int /\ b \in SUBSET Nat /\ Room(m, p, q, a, b)
  BY RoomNow
<1>2. p2 \subseteq m2 /\ m2 \subseteq m /\ p2 \subseteq p /\ queued \subseteq q
  OBVIOUS
<1> HIDE DEF m, p, m2, p2, q, a, b
<1>3. Room(m2, p2, queued, a, b)
  BY <1>1, <1>2, RoomAfter
<1> QED
  BY <1>3 DEF m2, p2, a, b

LEMMA GetCounted ==
    ASSUME Context, Counted, NEW t \in Thread, Get(t)
    PROVE  Counted'
<1> DEFINE f == Top(t)
           below == Front(stack[t])
           k == TaskFor(t, f.r, below)
<1>1. Types
  BY DEF Context
<1>2. /\ stack[t] # <<>> /\ f.kind = "make" /\ f.r \in Reaction /\ f.stage = "get"
  BY SoundNow DEF Get, At, Doing, MakeFrame
<1>3. k \in Task /\ k.r = f.r
  BY <1>2, TaskForIs DEF TaskFor
<1>4. \/ active' = [active EXCEPT ![f.r] = @ - 1] /\ Pop(t) /\ queue' = queue
      \/ Runs(t, k, below) /\ queue' = queue /\ active' = active
      \/ queue' = queue \union {k} /\ Pop(t) /\ active' = active
  BY DEF Get, TaskFor, Source, Seen
<1> HIDE DEF k, below
<1> SUFFICES ASSUME NEW r \in Reaction \ AlwaysOn PROVE HasRoom(r)'
  BY DEF Counted
<1>5. (Made(f, r) <=> r = f.r) /\ (Passed(f, r) <=> r = f.r)
  BY <1>2 DEF Made, Passed
<1>6. Bounds(r)' = Bounds(r)
  BY DEF Bounds
<1>7. ASSUME Pop(t)
      PROVE  /\ PassedAt(r)' \subseteq MadeAt(r)'
             /\ MadeAt(r)' \subseteq MadeAt(r) \ {Place(t)} /\ PassedAt(r)' \subseteq PassedAt(r) \ {Place(t)}
             /\ MadeAt(r)' \subseteq MadeAt(r) /\ PassedAt(r)' \subseteq PassedAt(r)
             /\ r = f.r => Place(t) \in MadeAt(r) /\ Place(t) \in PassedAt(r)
  <2>1. stack' = [stack EXCEPT ![t] = Front(stack[t])]
    BY <1>7 DEF Pop
  <2>2. /\ PassedAt(r)' \subseteq MadeAt(r)'
        /\ MadeAt(r)' \subseteq MadeAt(r) \ {Place(t)} /\ PassedAt(r)' \subseteq PassedAt(r) \ {Place(t)}
    BY <1>1, <1>2, <2>1, PopCounts
  <2>3. r = f.r => Place(t) \in MadeAt(r) /\ Place(t) \in PassedAt(r)
    BY <1>1, <1>2, <1>5, TopCounts
  <2> QED
    BY <2>2, <2>3
<1>8. CASE active' = [active EXCEPT ![f.r] = @ - 1] /\ Pop(t) /\ queue' = queue
  <2>1. active'[r] = IF r = f.r THEN active[r] - 1 ELSE active[r]
    BY <1>1, <1>2, <1>8 DEF Types
  <2>2. InQueue(r)' = InQueue(r)
    BY <1>8 DEF InQueue
  <2>3. CASE r = f.r
    <3>1. Room(MadeAt(r)', PassedAt(r)', InQueue(r), active[r] - 1, Bounds(r))
      BY <1>1, <1>7, <1>8, <2>3, RoomLess
    <3> QED
      BY <1>6, <2>1, <2>2, <2>3, <3>1 DEF HasRoom
  <2>4. CASE r # f.r
    <3>1. Room(MadeAt(r)', PassedAt(r)', InQueue(r), active[r], Bounds(r))
      BY <1>1, <1>7, <1>8, RoomSame
    <3> QED
      BY <1>6, <2>1, <2>2, <2>4, <3>1 DEF HasRoom
  <2> QED
    BY <2>3, <2>4
<1>9. CASE Runs(t, k, below) /\ queue' = queue /\ active' = active
  <2> DEFINE g == Started(t, k)
  <2>1. stack' = [stack EXCEPT ![t] = Append(Front(stack[t]), g)]
    BY <1>9 DEF Runs, Started, below
  <2>2. g \in Frame /\ g.kind = "run" /\ g.task = k
    <3>1. current[t] \in Nat /\ scope[t] \in Nat /\ <<>> \in Seq(Spoken)
      BY SoundNow, EmptySeq
    <3> QED
      BY <1>3, <3>1 DEF Started, RunFrame, Frame
  <2> HIDE DEF g
  <2>3. (Made(g, r) => Made(f, r)) /\ (Passed(g, r) => Passed(f, r))
    BY <1>3, <1>5, <2>2 DEF Made, Passed
  <2>4. /\ PassedAt(r)' \subseteq MadeAt(r)' /\ MadeAt(r)' \subseteq MadeAt(r)
        /\ PassedAt(r)' \subseteq PassedAt(r)
    BY <1>1, <1>2, <2>1, <2>2, <2>3, SwapCounts
  <2>5. InQueue(r)' = InQueue(r)
    BY <1>9 DEF InQueue
  <2>6. Room(MadeAt(r)', PassedAt(r)', InQueue(r), active[r], Bounds(r))
    BY <1>1, <2>4, RoomSame
  <2> QED
    BY <1>6, <1>9, <2>5, <2>6 DEF HasRoom
<1>10. CASE queue' = queue \union {k} /\ Pop(t) /\ active' = active
  <2>1. CASE r = f.r
    <3>1. InQueue(r)' \subseteq InQueue(r) \union {k}
      BY <1>10 DEF InQueue
    <3>2. Room(MadeAt(r)', PassedAt(r)', InQueue(r)', active[r], Bounds(r))
      BY <1>1, <1>7, <1>10, <2>1, <3>1, RoomQueued
    <3> QED
      BY <1>6, <1>10, <3>2 DEF HasRoom
  <2>2. CASE r # f.r
    <3>1. InQueue(r)' \subseteq InQueue(r)
      BY <1>3, <1>10, <2>2 DEF InQueue
    <3>2. Room(MadeAt(r)', PassedAt(r)', InQueue(r)', active[r], Bounds(r))
      BY <1>1, <1>7, <1>10, <3>1, RoomSame
    <3> QED
      BY <1>6, <1>10, <3>2 DEF HasRoom
  <2> QED
    BY <2>1, <2>2
<1> QED
  BY <1>4, <1>8, <1>9, <1>10

LEMMA TakeCounted ==
    ASSUME Context, Counted, NEW t \in Thread, NEW k \in queue, Take(t, k)
    PROVE  Counted'
<1> DEFINE g == Started(t, k)
<1>1. Types /\ k \in Task /\ active' = active /\ stack[t] = <<>> /\ queue' = queue \ {k}
  BY DEF Context, Types, Take
<1>2. stack' = [stack EXCEPT ![t] = Append(stack[t], g)]
  BY <1>1 DEF Take, Runs, Started
<1>3. g \in Frame /\ g.kind = "run" /\ g.task = k
  <2>1. current[t] \in Nat /\ scope[t] \in Nat /\ <<>> \in Seq(Spoken)
    BY SoundNow, EmptySeq
  <2> QED
    BY <1>1, <2>1 DEF Started, RunFrame, Frame
<1> HIDE DEF g
<1> SUFFICES ASSUME NEW r \in Reaction \ AlwaysOn PROVE HasRoom(r)'
  BY DEF Counted
<1>4. (Made(g, r) => r = k.r) /\ (Passed(g, r) => r = k.r) /\ Bounds(r)' = Bounds(r)
  BY <1>3 DEF Made, Passed, Bounds
<1> DEFINE x == <<t, Len(stack[t]) + 1>>
<1>5. /\ PassedAt(r)' \subseteq MadeAt(r)'
      /\ MadeAt(r)' \subseteq MadeAt(r) \union {x} /\ PassedAt(r)' \subseteq PassedAt(r) \union {x}
      /\ ~Made(g, r) => MadeAt(r)' \subseteq MadeAt(r)
      /\ ~Passed(g, r) => PassedAt(r)' \subseteq PassedAt(r)
  BY <1>1, <1>2, <1>3, PushCounts
<1> HIDE DEF x
<1>6. CASE r = k.r
  <2>1. k \in InQueue(r) /\ InQueue(r)' \subseteq InQueue(r) \ {k}
    BY <1>1, <1>6 DEF InQueue
  <2>2. Room(MadeAt(r)', PassedAt(r)', InQueue(r)', active[r], Bounds(r))
    BY <1>1, <1>5, <2>1, RoomTaken
  <2> QED
    BY <1>1, <1>4, <2>2 DEF HasRoom
<1>7. CASE r # k.r
  <2>1. InQueue(r)' \subseteq InQueue(r)
    BY <1>1 DEF InQueue
  <2>2. MadeAt(r)' \subseteq MadeAt(r) /\ PassedAt(r)' \subseteq PassedAt(r)
    BY <1>4, <1>5, <1>7
  <2>3. Room(MadeAt(r)', PassedAt(r)', InQueue(r)', active[r], Bounds(r))
    BY <1>1, <1>5, <2>1, <2>2, RoomSame
  <2> QED
    BY <1>1, <1>4, <2>3 DEF HasRoom
<1> QED
  BY <1>6, <1>7


LEMMA IdleAgainCounted ==
    ASSUME Context, Counted, NEW t \in Thread, IdleAgain(t)
    PROVE  Counted'
<1> DEFINE a == Top(t).task.r
<1>1. Doing(t, "run") /\ Top(t) \in RunFrame /\ Top(t).stage = "idle" /\ Types
  BY SoundNow DEF IdleAgain, At, Doing, Context
<1>2. a \in AlwaysOn /\ a \in Reaction
  BY <1>1 DEF RunFrame, Task
<1>3. /\ queue' = queue \union {AlwaysTask(a, TRUE)} /\ Stage(t, "post", <<>>)
      /\ active' = [active EXCEPT ![a] = @ + Cardinality(Idles(a))]
  BY DEF IdleAgain, Idles
<1> HIDE DEF a
<1> SUFFICES ASSUME NEW r \in Reaction \ AlwaysOn PROVE HasRoom(r)'
  BY DEF Counted
<1>4. /\ PassedAt(r)' \subseteq MadeAt(r)' /\ MadeAt(r)' \subseteq MadeAt(r)
      /\ PassedAt(r)' \subseteq PassedAt(r)
  BY <1>1, <1>3, EmptySeq, StageCounted
<1>5. r # a /\ AlwaysTask(a, TRUE).r = a
  BY <1>2 DEF AlwaysTask
<1>6. active'[r] = active[r]
  BY <1>1, <1>2, <1>3, <1>5 DEF Types
<1>7. InQueue(r)' \subseteq InQueue(r) /\ Bounds(r)' = Bounds(r)
  BY <1>3, <1>5 DEF InQueue, Bounds
<1>8. Room(MadeAt(r)', PassedAt(r)', InQueue(r)', active[r], Bounds(r))
  BY <1>1, <1>4, <1>7, RoomSame
<1> QED
  BY <1>6, <1>7, <1>8 DEF HasRoom

LEMMA StillCounted ==
    ASSUME Context, Counted, UNCHANGED <<queue, stack, active>>
    PROVE  Counted'
<1>1. \A r : PassedAt(r) \subseteq MadeAt(r)
  BY DEF PassedAt, MadeAt, Passed, Made
<1>2. \A r : /\ PassedAt(r)' \subseteq MadeAt(r)'
             /\ MadeAt(r)' \subseteq MadeAt(r) /\ PassedAt(r)' \subseteq PassedAt(r)
  BY <1>1 DEF PassedAt, MadeAt, Held, Passed, Made
<1> QED
  BY <1>2, SameRoom DEF Context

LEMMA InitCounted == Init => Counted
<1> SUFFICES ASSUME Init, NEW r \in Reaction \ AlwaysOn PROVE HasRoom(r)
  BY DEF Counted
<1>1. MadeAt(r) = {} /\ PassedAt(r) = {}
  <2>1. Held = {}
    <3>1. \A t \in Thread : stack[t] = <<>> /\ DOMAIN stack[t] = {}
      BY DEF Init
    <3> QED
      BY <3>1 DEF Held
  <2> QED
    BY <2>1 DEF MadeAt, PassedAt
<1>2. InQueue(r) = {}
  BY DEF Init, InQueue, AlwaysTask
<1>3. active[r] = 0 /\ Bounds(r) \subseteq Nat
  BY SentenceAssumption DEF Init, Bounds
<1>4. IsFiniteSet({}) /\ Cardinality({}) = 0
  BY FS_EmptySet
<1> QED
  BY <1>1, <1>2, <1>3, <1>4 DEF HasRoom, Room

LEMMA NextCounted == Context /\ Counted /\ [Next]_vars => Counted'
<1> SUFFICES ASSUME Context, Counted, [Next]_vars PROVE Counted'
  OBVIOUS
<1>1. ASSUME NEW t \in Thread, Step(t) PROVE Counted'
  <2>1. CASE Offer(t) \/ EndEmit(t)
    BY <2>1, LoopsCounted
  <2>2. CASE New(t)
    BY <2>2, NewCounted
  <2>3. CASE Check(t)
    BY <2>3, CheckCounted
  <2>4. CASE Get(t)
    BY <2>4, GetCounted
  <2>5. CASE Return(t) \/ Throw(t) \/ OnceUnbinds(t)
    BY <2>5, CallbackCounted
  <2>6. CASE Resubmit(t)
    BY <2>6, ResubmitCounted
  <2>7. CASE IdleAgain(t)
    BY <2>7, IdleAgainCounted
  <2>8. CASE Done(t)
    BY <2>8, DoneCounted
  <2>9. CASE \E k \in queue : Take(t, k)
    BY <2>9, TakeCounted
  <2> QED
    BY <1>1, <2>1, <2>2, <2>3, <2>4, <2>5, <2>6, <2>7, <2>8, <2>9 DEF Step
<1>2. ASSUME NEW t \in Thread, NEW T \in Type,
             Packet(t, T) \/ \E inline \in BOOLEAN : Emit(t, T, inline)
      PROVE  Counted'
  BY <1>2, LoopsCounted
<1>3. ASSUME NEW r \in Reaction, Switch(r) \/ Unbind(r) PROVE Counted'
  BY <1>3, StillCounted DEF Switch, Unbind
<1>4. CASE UNCHANGED vars
  BY <1>4, StillCounted DEF vars
<1> QED
  BY <1>1, <1>2, <1>3, <1>4 DEF Next

\* However many threads emit at a time, and wherever each of them is between counting its
\* task and asking Buffer<n>, no more than n tasks of the reaction wait and run, for every
\* n, every number of threads and every sentence (Buffer.hpp:33-40, ReactionTask.hpp:73).
THEOREM BufferKeepsItsBound == Spec => []BufferKept
<1>1. Context /\ Counted => BufferKept
  <2> SUFFICES ASSUME Context, Counted, NEW r \in Reaction, NEW n \in Bounds(r)
               PROVE  Cardinality(RunningOf(r)) + Cardinality(Queued(r)) <= n
    BY DEF BufferKept, Bounds
  <2>1. r \in Reaction \ AlwaysOn
    BY ReactionsAssumption DEF Bounds
  <2>2. /\ IsFiniteSet(MadeAt(r)) /\ IsFiniteSet(InQueue(r)) /\ PassedAt(r) \subseteq MadeAt(r)
        /\ Cardinality(PassedAt(r)) + Cardinality(InQueue(r)) <= n /\ n \in Nat
    BY <2>1, RoomNow DEF Room, Context
  <2>3. RunningOf(r) \subseteq PassedAt(r) /\ Queued(r) \subseteq InQueue(r)
    BY DEF RunningOf, PassedAt, Passed, Queued, InQueue
  <2>4. IsFiniteSet(PassedAt(r))
    BY <2>2, Sizes
  <2>5. /\ Cardinality(PassedAt(r)) \in Nat /\ Cardinality(InQueue(r)) \in Nat
        /\ Cardinality(RunningOf(r)) \in Nat /\ Cardinality(RunningOf(r)) <= Cardinality(PassedAt(r))
        /\ Cardinality(Queued(r)) \in Nat /\ Cardinality(Queued(r)) <= Cardinality(InQueue(r))
    BY <2>2, <2>3, <2>4, Sizes
  <2> QED
    BY <2>2, <2>5
<1> QED
  BY <1>1, InitContext, NextContext, InitCounted, NextCounted, PTL DEF Spec

=============================================================================
