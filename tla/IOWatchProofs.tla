--------------------------- MODULE IOWatchProofs ---------------------------
(* At most one task of a reaction at a time, for any number of reactions, descriptors   *)
(* and words.  That processing_events tells whether there is one rests on who holds the   *)
(* mutex: between the two parts of IOFinished a task is over and its events are still    *)
(* being processed.  What is watched rests on that: an event is masked only for a task    *)
(* that processes it, and a task is dropped only for a descriptor that was closed.      *)
EXTENDS IOWatch, FiniteSetTheorems, TLAPS

TaskType == [in : BOOLEAN, waiting : SUBSET Events, processing : SUBSET Events]

Types == /\ tasks \in [Reaction -> TaskType]
         /\ flight \in [Reaction -> Nat] /\ ran \in [Reaction -> Nat]
         /\ bound \in [Reaction -> {"new", "open", "bound", "closed", "unbound"}]
         /\ mutex \in [who : Reaction \union {None},
                       does : {"nothing", "pass", "return", "finish", "unmask"}]

(* Who holds the mutex, and for what.                                               *)
Holders == /\ mutex.does \in {"nothing", "pass"} <=> mutex.who = None
           /\ pc = "pass" <=> mutex.does = "pass"

Finishing(r) == mutex.who = r /\ mutex.does \in {"finish", "unmask"}
Exists(r) == flight[r] + ran[r] = 1

(* What is known of each reaction.                                                  *)
Sound(r) ==
    /\ flight[r] + ran[r] <= 1
    /\ ~tasks[r].in => tasks[r].processing = {}
    /\ bound[r] \in {"new", "open"} => ~tasks[r].in /\ flight[r] + ran[r] = 0
    /\ Finishing(r) => tasks[r].in /\ flight[r] + ran[r] = 0
    /\ tasks[r].in /\ ~Finishing(r) => (tasks[r].processing # {} <=> Exists(r))

Inv == Types /\ Holders /\ \A r \in Reaction : Sound(r)
-----------------------------------------------------------------------------
(* What is watched.  It rests on Inv, and on what is known of the descriptors.            *)

World == Open \union {"eof", "hup", "shut"}

OtherTypes ==
    /\ DOMAIN watches \subseteq Fd /\ \A f \in DOMAIN watches : watches[f] \subseteq Events
    /\ DOMAIN polled \subseteq Fd /\ \A f \in DOMAIN polled : polled[f] \subseteq Events
    /\ pc # "polling" => DOMAIN polled = {}
    /\ revents \in [Fd -> SUBSET Events] /\ world \in [Fd -> World]
    /\ dirty \in BOOLEAN /\ running \in BOOLEAN /\ pipe \in 0..MaxBytes
    /\ pc \in {"top", "rebuild", "lock", "polling", "returned", "pass", "stopped"}

(* What is sent is something that may be sent, and to a socket that is open; only those    *)
(* that may be are disabled.                                                        *)
Sent ==
    /\ \A f \in Fd : world[f] \in Open \ {"idle"} => world[f] \in Readable
    /\ \A r \in Receivers : bound[r] \in {"open", "bound"} => world[Descriptor[r]] \in Open
    /\ \A r \in Reaction : ~enabled[r] => r \in MayRefuse

(* Who is in the list, and that nothing is left of who is not; the events of a task that is   *)
(* over are still being processed.                                                   *)
Listed(r) ==
    /\ tasks[r].in => bound[r] = "bound" \/ (bound[r] = "closed" /\ r \in Receivers)
    /\ ~tasks[r].in => tasks[r].waiting = {}
    /\ Finishing(r) => tasks[r].processing # {}

Alone(r) == \A q \in Reaction : Descriptor[q] = Descriptor[r] => q = r
MaskOf(w, f) == IF f \in DOMAIN w THEN w[f] ELSE {}
Asked(f) == MaskOf(watches, f) \union MaskOf(polled, f) \union revents[f]

(* Of a reaction that has an open descriptor for itself only reads are reported; while one    *)
(* is processed no other is asked for, so none is waiting behind it and what was reported      *)
(* is still there.                                                                   *)
Watched(r) == tasks[r].in /\ bound[r] = "bound" /\ world[Descriptor[r]] \in Open
Ordered(r) ==
    LET f == Descriptor[r]  t == tasks[r] IN
    /\ bound[r] \in {"new", "open"} => f \notin DOMAIN watches \union DOMAIN polled /\ revents[f] = {}
    /\ "read" \in Asked(f) \union Busy(r) => "read" \in Listening[r]
    /\ Watched(r) => /\ revents[f] \subseteq {"read"} /\ ("read" \in revents[f] => world[f] # "idle")
                     /\ t.waiting # {} => "read" \in t.waiting
                     /\ t.processing # {} => "read" \in t.processing /\ "read" \notin Asked(f) /\ t.waiting = {}
                     /\ "empty" \notin Readable => "close" \notin Busy(r)

(* A task that has events waiting and none that it processes was refused.                  *)
Fired(r) == tasks[r].in /\ bound[r] = "bound" /\ tasks[r].waiting # {} /\ tasks[r].processing = {}
                => MayBeRefused(r)

Masks == ~dirty => \A r \in Reaction, e \in Events :
    LET f == Descriptor[r] IN
    tasks[r].in /\ e \in Listening[r] =>
        f \in DOMAIN watches /\ (e \in watches[f] \/ \E q \in On(f) : e \in Busy(q))

WatchInv == /\ OtherTypes /\ Sent /\ Masks
            /\ \A r \in Reaction : Listed(r) /\ Fired(r) /\ (Alone(r) => Ordered(r))
-----------------------------------------------------------------------------
LEMMA InitInv == Init => Inv
<1> SUFFICES ASSUME Init PROVE Inv
  OBVIOUS
<1>1. Types
  BY DEF Init, Types, TaskType, NoTask, Free, Events
<1>2. Holders
  BY DEF Init, Holders, Free
<1>3. \A r \in Reaction : Sound(r)
  BY IOAssumption DEF Init, Sound, Finishing, Exists, NoTask, Free
<1>4. QED
  BY <1>1, <1>2, <1>3 DEF Inv

(* fire_event() makes a task of some reactions that had none.                          *)
LEMMA FireResult ==
  ASSUME NEW T \in [Reaction -> TaskType], NEW W, NEW R \in SUBSET Reaction, NEW f,
         flight \in [Reaction -> Nat], Fire(T, W, R, f)
  PROVE  /\ tasks' \in [Reaction -> TaskType] /\ flight' \in [Reaction -> Nat]
         /\ \A r \in Reaction : tasks'[r].in = T[r].in
         /\ \A r \in Reaction :
               \/ /\ r \in R /\ Idle(T[r])
                  /\ tasks'[r].processing = T[r].waiting /\ flight'[r] = flight[r] + 1
               \/ tasks'[r] = T[r] /\ flight'[r] = flight[r]
<1> DEFINE ready == {r \in R : Idle(T[r])}
<1>1. PICK outcome \in [ready -> [got : BOOLEAN, left : Open \union {"eof", "hup", "shut"}]] :
         /\ tasks' = [r \in Reaction |->
               IF r \in {q \in ready : outcome[q].got}
               THEN [T[r] EXCEPT !.waiting = {}, !.processing = T[r].waiting]
               ELSE T[r]]
         /\ flight' = [r \in Reaction |->
               IF r \in {q \in ready : outcome[q].got} THEN flight[r] + 1 ELSE flight[r]]
  BY DEF Fire
<1> DEFINE fired == {q \in ready : outcome[q].got}
<1>2. \A r \in fired : r \in R /\ Idle(T[r])
  OBVIOUS
<1> DEFINE taken(t) == [t EXCEPT !.waiting = {}, !.processing = t.waiting]
<1>3. flight' = [r \in Reaction |-> IF r \in fired THEN flight[r] + 1 ELSE flight[r]]
  BY <1>1
<1>4. tasks' = [r \in Reaction |-> IF r \in fired THEN taken(T[r]) ELSE T[r]]
  BY <1>1
<1>5. \A t \in TaskType : taken(t) \in TaskType /\ taken(t).in = t.in /\ taken(t).processing = t.waiting
  BY DEF TaskType
<1>6. flight \in [Reaction -> Nat] /\ \A r \in Reaction : T[r] \in TaskType
  OBVIOUS
<1> HIDE DEF fired, taken, ready
<1>7. /\ flight' \in [Reaction -> Nat]
      /\ \A r \in Reaction : flight'[r] = IF r \in fired THEN flight[r] + 1 ELSE flight[r]
  BY <1>3, <1>6
<1>8. \A r \in Reaction : tasks'[r] = IF r \in fired THEN taken(T[r]) ELSE T[r]
  BY <1>4
<1>9. tasks' \in [Reaction -> TaskType]
  BY <1>4, <1>5, <1>6
<1>10. \A r \in Reaction : tasks'[r].in = T[r].in
  BY <1>5, <1>6, <1>8
<1>11. QED
  BY <1>2, <1>5, <1>6, <1>7, <1>8, <1>9, <1>10
-----------------------------------------------------------------------------
(* A step that leaves alone what Inv speaks of, but for where the poll thread is.        *)
LEMMA Unconcerned ==
  ASSUME Inv, UNCHANGED <<tasks, flight, ran, mutex, bound>>, pc' = "pass" <=> pc = "pass"
  PROVE  Inv'
<1>1. Types' /\ Holders'
  BY DEF Inv, Types, Holders
<1>2. ASSUME NEW r \in Reaction PROVE Sound(r)'
  BY DEF Inv, Sound, Finishing, Exists
<1>3. QED
  BY <1>1, <1>2 DEF Inv

LEMMA BindKeeps == ASSUME Inv, NEW r \in Reaction, Bind(r) PROVE Inv'
<1>0. mutex = Free /\ Types /\ Holders /\ Sound(r)
  BY DEF Bind, Unlocked, Inv
<1>1. mutex' = [who |-> r, does |-> "return"] /\ UNCHANGED <<pc, flight, ran>>
  BY DEF Bind
<1>2. tasks' = [tasks EXCEPT ![r].in = TRUE] /\ bound' = [bound EXCEPT ![r] = "bound"]
  BY DEF Bind
<1>3. Types'
  BY <1>0, <1>1, <1>2 DEF Types, TaskType
<1>4. Holders'
  BY <1>0, <1>1, IOAssumption DEF Holders, Free
<1>5. bound[r] \in {"new", "open"}
  BY DEF Bind
<1>6. ASSUME NEW q \in Reaction PROVE Sound(q)'
  <2>1. Sound(q) /\ ~Finishing(q) /\ ~Finishing(q)'
    BY <1>0, <1>1 DEF Inv, Free, Finishing
  <2>2. CASE q # r
    <3>1. tasks'[q] = tasks[q] /\ (bound'[q] \in {"new", "open"} => bound[q] \in {"new", "open"})
      BY <1>0, <1>2, <2>2 DEF Types
    <3>2. QED
      BY <1>1, <2>1, <3>1 DEF Sound, Exists
  <2>3. CASE q = r
    <3>1. tasks'[r].in /\ tasks'[r].processing = tasks[r].processing
      BY <1>0, <1>2 DEF Types, TaskType
    <3>2. tasks[r].processing = {} /\ flight[r] + ran[r] = 0
      BY <1>0, <1>5 DEF Sound
    <3>3. bound'[r] \notin {"new", "open"}
      BY <1>0, <1>2 DEF Types
    <3>4. QED
      BY <1>1, <2>1, <2>3, <3>1, <3>2, <3>3 DEF Sound, Exists
  <2>4. QED
    BY <2>2, <2>3
<1>7. QED
  BY <1>3, <1>4, <1>6 DEF Inv

LEMMA UnbindKeeps == ASSUME Inv, NEW r \in Reaction, Unbind(r) PROVE Inv'
<1>0. mutex = Free /\ Types /\ Holders
  BY DEF Unbind, Unlocked, Inv
<1>1. mutex' = [who |-> r, does |-> "return"] /\ UNCHANGED <<pc, flight, ran>>
  BY DEF Unbind
<1>2. tasks' = [tasks EXCEPT ![r] = NoTask] /\ bound' = [bound EXCEPT ![r] = "unbound"]
  BY DEF Unbind
<1>3. Types'
  <2>1. NoTask \in TaskType
    BY DEF NoTask, TaskType
  <2>2. QED
    BY <1>0, <1>1, <1>2, <2>1 DEF Types
<1>4. Holders'
  BY <1>0, <1>1, IOAssumption DEF Holders, Free
<1>5. ASSUME NEW q \in Reaction PROVE Sound(q)'
  <2>1. Sound(q) /\ ~Finishing(q) /\ ~Finishing(q)'
    BY <1>0, <1>1 DEF Inv, Free, Finishing
  <2>2. CASE q # r
    <3>1. tasks'[q] = tasks[q] /\ bound'[q] = bound[q]
      BY <1>0, <1>2, <2>2 DEF Types
    <3>2. QED
      BY <1>1, <2>1, <3>1 DEF Sound, Exists
  <2>3. CASE q = r
    <3>1. ~tasks'[r].in /\ tasks'[r].processing = {} /\ bound'[r] = "unbound"
      BY <1>0, <1>2 DEF Types, NoTask
    <3>2. QED
      BY <1>1, <2>1, <2>3, <3>1 DEF Sound
  <2>4. QED
    BY <2>2, <2>3
<1>6. QED
  BY <1>3, <1>4, <1>5 DEF Inv

\* The socket of a reaction is opened or closed.
LEMMA SocketKeeps == ASSUME Inv, NEW r \in Reaction, OpenSocket(r) \/ CloseSocket(r) PROVE Inv'
<1>0. Types /\ Holders
  BY DEF Inv
<1>1. UNCHANGED <<tasks, flight, ran, mutex, pc>>
  BY DEF OpenSocket, CloseSocket, locks
<1>2. /\ bound' \in [Reaction -> {"new", "open", "bound", "closed", "unbound"}]
      /\ \A q \in Reaction : bound'[q] \in {"new", "open"} => bound[q] \in {"new", "open"}
  BY <1>0 DEF OpenSocket, CloseSocket, Types
<1>3. Types' /\ Holders'
  BY <1>0, <1>1, <1>2 DEF Types, Holders
<1>4. ASSUME NEW q \in Reaction PROVE Sound(q)'
  BY <1>1, <1>2 DEF Inv, Sound, Finishing, Exists
<1>5. QED
  BY <1>3, <1>4 DEF Inv

LEMMA BumpedKeeps == ASSUME Inv, NEW r \in Reaction, Bumped(r) PROVE Inv'
<1>0. Types /\ Holders
  BY DEF Inv
<1>1. UNCHANGED <<tasks, flight, ran, bound, pc>>
  BY DEF Bumped, users
<1>2. \/ mutex.who = r /\ mutex.does = "return" /\ mutex' = Free
      \/ mutex.who = r /\ mutex.does = "finish" /\ mutex'.who = r /\ mutex'.does = "unmask"
  BY <1>0 DEF Bumped, Types
<1>3. Types'
  BY <1>0, <1>1 DEF Types, Bumped, Free
<1>4. Holders'
  BY <1>0, <1>1, <1>2, IOAssumption DEF Holders, Free
<1>5. ASSUME NEW q \in Reaction PROVE Sound(q)'
  <2>1. Finishing(q)' <=> Finishing(q)
    BY <1>2, IOAssumption DEF Finishing, Free
  <2>2. QED
    BY <1>1, <2>1 DEF Inv, Sound, Exists
<1>6. QED
  BY <1>3, <1>4, <1>5 DEF Inv

LEMMA RunKeeps == ASSUME Inv, NEW r \in Reaction, Run(r) PROVE Inv'
<1>0. Types /\ Holders
  BY DEF Inv
<1>1. UNCHANGED <<tasks, mutex, pc, bound>>
  BY DEF Run, locks
<1>2. /\ flight' \in [Reaction -> Nat] /\ ran' \in [Reaction -> Nat]
      /\ \A q \in Reaction : flight'[q] + ran'[q] = flight[q] + ran[q]
  BY <1>0 DEF Run, Types
<1>3. Types' /\ Holders'
  BY <1>0, <1>1, <1>2 DEF Types, Holders
<1>4. ASSUME NEW q \in Reaction PROVE Sound(q)'
  BY <1>1, <1>2 DEF Inv, Sound, Finishing, Exists
<1>5. QED
  BY <1>3, <1>4 DEF Inv

LEMMA FinishKeeps == ASSUME Inv, NEW r \in Reaction, Finish(r) PROVE Inv'
<1>0. mutex = Free /\ Types /\ Holders /\ Sound(r)
  BY DEF Finish, Unlocked, Inv
<1>1. UNCHANGED <<pc, flight, bound>> /\ ran' = [ran EXCEPT ![r] = @ - 1] /\ ran[r] > 0
  BY DEF Finish
<1>2. flight[r] + ran[r] = 1 /\ flight'[r] + ran'[r] = 0 /\ ran' \in [Reaction -> Nat]
  BY <1>0, <1>1 DEF Types, Sound
<1>3. ASSUME NEW q \in Reaction, q # r, tasks'[q] = tasks[q], mutex' = Free \/ mutex'.who = r
      PROVE  Sound(q)'
  <2>1. flight'[q] + ran'[q] = flight[q] + ran[q]
    BY <1>0, <1>1, <1>3 DEF Types
  <2>2. ~Finishing(q) /\ ~Finishing(q)'
    BY <1>0, <1>3 DEF Finishing, Free
  <2>3. QED
    BY <1>1, <1>3, <2>1, <2>2 DEF Inv, Sound, Exists
<1>4. CASE ~tasks[r].in
  <2>1. UNCHANGED <<tasks, mutex>>
    BY <1>4 DEF Finish
  <2>2. Types' /\ Holders'
    BY <1>0, <1>1, <1>2, <2>1 DEF Types, Holders
  <2>3. Sound(r)'
    BY <1>0, <1>1, <1>2, <1>4, <2>1 DEF Sound, Finishing, Free
  <2>4. QED
    BY <1>0, <1>3, <2>1, <2>2, <2>3 DEF Inv
<1>5. CASE tasks[r].in /\ "close" \in tasks[r].processing
  <2>1. tasks' = [tasks EXCEPT ![r] = NoTask] /\ mutex' = mutex
    BY <1>5 DEF Finish
  <2>2. Types'
    <3>1. NoTask \in TaskType
      BY DEF NoTask, TaskType
    <3>2. QED
      BY <1>0, <1>1, <1>2, <2>1, <3>1 DEF Types
  <2>3. Holders'
    BY <1>0, <1>1, <2>1 DEF Holders
  <2>4. tasks'[r] = NoTask /\ \A q \in Reaction : q # r => tasks'[q] = tasks[q]
    BY <1>0, <2>1 DEF Types
  <2>5. Sound(r)'
    BY <1>0, <1>1, <1>2, <2>1, <2>4 DEF Sound, Finishing, Free, NoTask
  <2>6. QED
    BY <1>0, <1>3, <2>1, <2>2, <2>3, <2>4, <2>5 DEF Inv
<1>6. CASE tasks[r].in /\ "close" \notin tasks[r].processing
  <2>1. tasks' = tasks /\ mutex' = [who |-> r, does |-> "finish"]
    BY <1>6 DEF Finish
  <2>2. Types'
    BY <1>0, <1>1, <1>2, <2>1 DEF Types
  <2>3. Holders'
    BY <1>0, <1>1, <2>1, IOAssumption DEF Holders, Free
  <2>4. bound[r] \notin {"new", "open"}
    BY <1>0, <1>6 DEF Sound
  <2>5. Sound(r)'
    BY <1>1, <1>2, <1>6, <2>1, <2>4 DEF Sound, Finishing
  <2>6. QED
    BY <1>3, <2>1, <2>2, <2>3, <2>5 DEF Inv
<1>7. QED
  BY <1>4, <1>5, <1>6

\* The second part of IOFinished: r is not processed any more, or again.
LEMMA UnmaskKeeps == ASSUME Inv, NEW r \in Reaction, Unmask(r) PROVE Inv'
<1> DEFINE T == [tasks EXCEPT ![r] = Done(@)]
<1>0. Types /\ Holders /\ Sound(r) /\ Finishing(r)
  BY DEF Unmask, Inv, Finishing
<1>1. mutex' = Free /\ UNCHANGED <<pc, ran, bound>>
  BY DEF Unmask
<1>2. T \in [Reaction -> TaskType] /\ T[r].in = tasks[r].in /\ T[r].processing = {}
  BY <1>0 DEF Done, Types, TaskType
<1>3. \A q \in Reaction : q # r => T[q] = tasks[q]
  BY <1>0 DEF Types
<1>4. PICK W : Fire(T, W, {r}, Descriptor[r])
  BY DEF Unmask
<1> HIDE DEF T
<1>5. {r} \in SUBSET Reaction /\ flight \in [Reaction -> Nat]
  BY <1>0 DEF Types
<1>6. /\ tasks' \in [Reaction -> TaskType] /\ flight' \in [Reaction -> Nat]
      /\ \A q \in Reaction : tasks'[q].in = T[q].in
      /\ \A q \in Reaction :
            \/ /\ q \in {r} /\ Idle(T[q])
               /\ tasks'[q].processing = T[q].waiting /\ flight'[q] = flight[q] + 1
            \/ tasks'[q] = T[q] /\ flight'[q] = flight[q]
  BY <1>2, <1>4, <1>5, FireResult
<1>7. Types'
  BY <1>0, <1>1, <1>6 DEF Types, Free
<1>8. Holders'
  BY <1>0, <1>1 DEF Holders, Free, Finishing
<1>9. Sound(r)'
  <2>1. ~Finishing(r)' /\ tasks[r].in /\ flight[r] + ran[r] = 0 /\ bound'[r] \notin {"new", "open"}
    BY <1>0, <1>1, IOAssumption DEF Finishing, Free, Sound
  <2>2. flight[r] = 0 /\ ran[r] = 0 /\ ran'[r] = 0
    BY <1>0, <1>1, <2>1 DEF Types
  <2>3. tasks'[r].in
    BY <1>2, <1>6, <2>1
  <2>4. \/ tasks'[r].processing # {} /\ flight'[r] = 1
        \/ tasks'[r].processing = {} /\ flight'[r] = 0
    BY <1>2, <1>6, <2>2 DEF Idle
  <2>5. QED
    BY <2>1, <2>2, <2>3, <2>4 DEF Sound, Exists
<1>10. ASSUME NEW q \in Reaction, q # r PROVE Sound(q)'
  <2>1. tasks'[q] = tasks[q] /\ flight'[q] = flight[q] /\ ~Finishing(q) /\ ~Finishing(q)'
    BY <1>0, <1>1, <1>3, <1>6, <1>10, IOAssumption DEF Finishing, Free
  <2>2. QED
    BY <1>1, <2>1 DEF Inv, Sound, Exists
<1>11. QED
  BY <1>7, <1>8, <1>9, <1>10 DEF Inv

\* process_event() makes tasks only of reactions that have none.
LEMMA ProcessEventKeeps == ASSUME Inv, ProcessEvent PROVE Inv'
<1> DEFINE f == Min({g \in Fd : revents[g] # {}})
           eof == "read" \in revents[f] /\ NoBytes(f)
           close(r) == IF eof /\ "read" \notin tasks[r].processing THEN {"close"} ELSE {}
           more(r) == tasks[r].waiting \union (Listening[r] \intersect revents[f]) \union close(r)
           T == [r \in Reaction |->
                   IF r \notin On(f) THEN tasks[r] ELSE [tasks[r] EXCEPT !.waiting = more(r)]]
<1>0. Types /\ Holders /\ pc = "pass"
  BY DEF ProcessEvent, Inv
<1>1. UNCHANGED <<mutex, pc, ran, bound>>
  BY DEF ProcessEvent, locks
<1>2. Fire(T, watches, On(f), f)
  BY DEF ProcessEvent
<1>3. \A r \in Reaction : more(r) \in SUBSET Events
  BY <1>0, IOAssumption DEF Types, TaskType, Events
<1> HIDE DEF more, close, eof
<1>4. T \in [Reaction -> TaskType]
  <2>1. ASSUME NEW r \in Reaction PROVE [tasks[r] EXCEPT !.waiting = more(r)] \in TaskType
    BY <1>0, <1>3 DEF Types, TaskType
  <2>2. QED
    BY <1>0, <2>1 DEF Types
<1>5. \A r \in Reaction : T[r].in = tasks[r].in /\ T[r].processing = tasks[r].processing
  BY <1>0 DEF Types, TaskType
<1>6. On(f) \in SUBSET Reaction /\ \A r \in On(f) : tasks[r].in
  BY DEF On
<1> HIDE DEF T, f
<1>7. flight \in [Reaction -> Nat]
  BY <1>0 DEF Types
<1>8. /\ tasks' \in [Reaction -> TaskType] /\ flight' \in [Reaction -> Nat]
      /\ \A q \in Reaction : tasks'[q].in = T[q].in
      /\ \A q \in Reaction :
            \/ /\ q \in On(f) /\ Idle(T[q])
               /\ tasks'[q].processing = T[q].waiting /\ flight'[q] = flight[q] + 1
            \/ tasks'[q] = T[q] /\ flight'[q] = flight[q]
  BY <1>2, <1>4, <1>6, <1>7, FireResult
<1>9. Types' /\ Holders'
  BY <1>0, <1>1, <1>8 DEF Types, Holders
<1>10. ASSUME NEW q \in Reaction PROVE Sound(q)'
  <2>1. ~Finishing(q) /\ ~Finishing(q)' /\ Sound(q)
    BY <1>0, <1>1, IOAssumption DEF Inv, Holders, Finishing
  <2>2. tasks'[q].in = tasks[q].in /\ flight[q] \in Nat /\ ran'[q] = ran[q] /\ ran[q] \in Nat
    BY <1>0, <1>1, <1>5, <1>8 DEF Types
  <2>3. CASE /\ q \in On(f) /\ Idle(T[q])
             /\ tasks'[q].processing = T[q].waiting /\ flight'[q] = flight[q] + 1
    <3>1. tasks[q].in /\ tasks[q].processing = {} /\ tasks'[q].processing # {}
      BY <1>5, <1>6, <2>3 DEF Idle
    <3>2. flight[q] + ran[q] = 0
      BY <2>1, <2>2, <3>1 DEF Sound, Exists
    <3>3. flight'[q] + ran'[q] = 1
      BY <2>2, <2>3, <3>2
    <3>4. bound'[q] \notin {"new", "open"} /\ tasks'[q].in
      BY <1>1, <2>1, <2>2, <3>1 DEF Sound
    <3>5. QED
      BY <2>1, <3>1, <3>3, <3>4 DEF Sound, Exists
  <2>4. CASE tasks'[q] = T[q] /\ flight'[q] = flight[q]
    <3>1. tasks'[q].processing = tasks[q].processing
      BY <1>5, <2>4
    <3>2. QED
      BY <1>1, <2>1, <2>2, <2>4, <3>1 DEF Sound, Exists
  <2>5. QED
    BY <1>8, <2>3, <2>4
<1>11. QED
  BY <1>9, <1>10 DEF Inv

LEMMA PassKeeps == ASSUME Inv, Collect \/ EndOfPass PROVE Inv'
<1>0. Types /\ Holders
  BY DEF Inv
<1>1. UNCHANGED <<tasks, flight, ran, bound>>
  BY DEF Collect, EndOfPass, users
<1>2. \/ mutex = Free /\ mutex' = [who |-> None, does |-> "pass"] /\ pc' = "pass"
      \/ mutex.does = "pass" /\ mutex' = Free /\ pc' = "top"
  BY <1>0 DEF Collect, EndOfPass, Unlocked, Holders
<1>3. Types'
  BY <1>0, <1>1, <1>2 DEF Types, Free
<1>4. Holders'
  BY <1>2 DEF Holders, Free
<1>5. ASSUME NEW q \in Reaction PROVE Sound(q)'
  <2>1. ~Finishing(q) /\ ~Finishing(q)'
    BY <1>2 DEF Finishing, Free
  <2>2. QED
    BY <1>1, <2>1 DEF Inv, Sound, Exists
<1>6. QED
  BY <1>3, <1>4, <1>5 DEF Inv

LEMMA InvKept == Inv /\ [Next]_vars => Inv'
<1> SUFFICES ASSUME Inv, [Next]_vars PROVE Inv'
  OBVIOUS
<1>1. CASE UNCHANGED vars
  BY <1>1, Unconcerned DEF vars, locks
<1>2. CASE Top \/ Rebuild \/ Enter \/ Return
  <2>1. UNCHANGED <<tasks, flight, ran, mutex, bound>>
    BY <1>2 DEF Top, Rebuild, Enter, Return, users
  <2>2. pc # "pass" /\ pc' # "pass"
    BY <1>2 DEF Top, Rebuild, Enter, Return
  <2>3. QED
    BY <2>1, <2>2, Unconcerned
<1>3. CASE Shutdown \/ \E f \in Fd : EmitUDP(f) \/ Change(f)
  BY <1>3, Unconcerned DEF Shutdown, EmitUDP, Change, locks, users
<1>4. CASE \E r \in Reaction : Switch(r)
  BY <1>4, Unconcerned DEF Switch, locks
<1>5. CASE Collect \/ ProcessEvent \/ EndOfPass
  BY <1>5, PassKeeps, ProcessEventKeeps
<1>6. CASE \E r \in Reaction : OpenSocket(r) \/ Bind(r) \/ CloseSocket(r) \/ Unbind(r) \/ Report(r)
  BY <1>6, SocketKeeps, BindKeeps, UnbindKeeps, BumpedKeeps, FinishKeeps, UnmaskKeeps, RunKeeps
     DEF Report
<1>7. QED
  BY <1>1, <1>2, <1>3, <1>4, <1>5, <1>6 DEF Next, Poller
-----------------------------------------------------------------------------
(* One task of a reaction at a time, and processing_events says whether there is one,    *)
(* for any number of reactions, also of one descriptor (IO.hpp:91).                    *)
THEOREM OneTaskOfEach == Spec => []OneAtATime
<1>1. Inv => OneAtATime
  BY DEF Inv, Sound, OneAtATime, Finishing, Exists
<1>2. QED
  BY <1>1, InitInv, InvKept, PTL DEF Spec
-----------------------------------------------------------------------------
(* What is watched.                                                                 *)

LEMMA GetsWhat ==
  ASSUME NEW r \in Reaction, NEW t, NEW o \in Gets(r, t)
  PROVE  LET here == world[Descriptor[r]] IN
         /\ o.left = here \/ (o.left = "idle" /\ here \in Open \ {"idle"})
         /\ ~o.got => \/ ~enabled[r]
                      \/ r \in Receivers /\ ("read" \notin t.waiting \/ here \notin Open \ {"idle"}
                                             \/ here \notin Wanted[Word[r]])
<1> DEFINE here == world[Descriptor[r]]
<1>1. CASE ~enabled[r]
  BY <1>1 DEF Gets
<1>2. CASE enabled[r] /\ r \notin Receivers
  BY <1>2 DEF Gets
<1>3. CASE enabled[r] /\ r \in Receivers /\ ("read" \notin t.waiting \/ here \notin Open \ {"idle"})
  BY <1>3 DEF Gets
<1>4. CASE enabled[r] /\ r \in Receivers /\ ~("read" \notin t.waiting \/ here \notin Open \ {"idle"})
  <2>1. o \in [got : {here \in Wanted[Word[r]]}, left : {"idle", here}]
    BY <1>4 DEF Gets
  <2>2. QED
    BY <1>4, <2>1
<1>5. QED
  BY <1>1, <1>2, <1>3, <1>4

(* What fire_event() does to the masks and the descriptor, and to whom it does nothing.     *)
FireEffect(T, W, R, f) == \E fired \in SUBSET {r \in R : Idle(T[r])} :
    /\ \A r \in fired : tasks'[r].processing = T[r].waiting /\ tasks'[r].waiting = {}
    /\ \A r \in Reaction \ fired : tasks'[r] = T[r]
    /\ DOMAIN watches' = DOMAIN W
    /\ \A g \in DOMAIN W : watches'[g] = IF g = f THEN W[g] \ UNION {T[r].waiting : r \in fired} ELSE W[g]
    /\ \A r \in R : Idle(T[r]) /\ r \notin fired =>
          \/ ~enabled[r]
          \/ r \in Receivers /\ ("read" \notin T[r].waiting \/ world[f] \notin Open \ {"idle"}
                                 \/ world[f] \notin Wanted[Word[r]])
    /\ world' \in [Fd -> World] /\ \A g \in Fd \ {f} : world'[g] = world[g]
    /\ f \in Fd /\ world'[f] # world[f] =>
          world'[f] = "idle" /\ world[f] \in Open \ {"idle"} /\ \E r \in R : Idle(T[r])

LEMMA FireWatch ==
  ASSUME NEW T \in [Reaction -> TaskType], NEW W, NEW R \in SUBSET Reaction, NEW f,
         \A r \in R : Descriptor[r] = f, world \in [Fd -> World], Fire(T, W, R, f)
  PROVE  FireEffect(T, W, R, f)
<1> DEFINE ready == {r \in R : Idle(T[r])}
<1>1. PICK outcome \in [ready -> [got : BOOLEAN, left : Open \union {"eof", "hup", "shut"}]] :
       LET fired == {r \in ready : outcome[r].got} IN
       /\ \A r \in ready : outcome[r] \in Gets(r, T[r])
       /\ tasks' = [r \in Reaction |->
                      IF r \in fired THEN [T[r] EXCEPT !.waiting = {}, !.processing = T[r].waiting]
                      ELSE T[r]]
       /\ watches' = [g \in DOMAIN W |->
                        IF g = f THEN W[g] \ UNION {T[r].waiting : r \in fired} ELSE W[g]]
       /\ world' = [world EXCEPT ![f] =
                      IF \E r \in ready : outcome[r].left # @
                      THEN outcome[CHOOSE r \in ready : outcome[r].left # @].left ELSE @]
  BY DEF Fire
<1> DEFINE fired == {r \in ready : outcome[r].got}
           taken(t) == [t EXCEPT !.waiting = {}, !.processing = t.waiting]
           new == IF \E r \in ready : outcome[r].left # world[f]
                  THEN outcome[CHOOSE r \in ready : outcome[r].left # world[f]].left ELSE world[f]
<1>2. \A r \in ready : r \in R /\ r \in Reaction /\ Idle(T[r])
  OBVIOUS
<1>3. fired \in SUBSET ready /\ \A r \in ready : r \notin fired => ~outcome[r].got
  OBVIOUS
<1>4. /\ tasks' = [r \in Reaction |-> IF r \in fired THEN taken(T[r]) ELSE T[r]]
      /\ watches' = [g \in DOMAIN W |-> IF g = f THEN W[g] \ UNION {T[r].waiting : r \in fired} ELSE W[g]]
      /\ world' = [world EXCEPT ![f] = new] /\ \A r \in ready : outcome[r] \in Gets(r, T[r])
  BY <1>1
<1>5. \A t \in TaskType : taken(t).processing = t.waiting /\ taken(t).waiting = {}
  BY DEF TaskType
<1>6. ASSUME NEW r \in ready
      PROVE  /\ outcome[r].left = world[f] \/ (outcome[r].left = "idle" /\ world[f] \in Open \ {"idle"})
             /\ r \notin fired =>
                  \/ ~enabled[r]
                  \/ r \in Receivers /\ ("read" \notin T[r].waiting \/ world[f] \notin Open \ {"idle"}
                                         \/ world[f] \notin Wanted[Word[r]])
  <2>1. r \in Reaction /\ Descriptor[r] = f /\ outcome[r] \in Gets(r, T[r]) /\ (r \notin fired => ~outcome[r].got)
    BY <1>2, <1>3, <1>4
  <2> HIDE DEF fired, ready
  <2>2. QED
    BY <2>1, GetsWhat
<1>7. new = world[f] \/ (new = "idle" /\ world[f] \in Open \ {"idle"} /\ \E r \in ready : TRUE)
  <2>1. CASE \A r \in ready : outcome[r].left = world[f]
    BY <2>1
  <2>2. CASE \E r \in ready : outcome[r].left # world[f]
    <3>1. PICK r \in ready : new = outcome[r].left
      BY <2>2
    <3>2. QED
      BY <1>6, <3>1
  <2>3. QED
    BY <2>1, <2>2
<1> HIDE DEF ready, fired, taken, new
<1>8. world' \in [Fd -> World] /\ (\A g \in Fd \ {f} : world'[g] = world[g]) /\ (f \in Fd => world'[f] = new)
  <2>1. "idle" \in World
    BY DEF World, Open
  <2>2. f \in Fd => world[f] \in World
    OBVIOUS
  <2>3. f \in Fd => new \in World
    BY <1>7, <2>1, <2>2
  <2>4. QED
    BY <1>4, <2>3
<1>9. /\ \A r \in fired : tasks'[r].processing = T[r].waiting /\ tasks'[r].waiting = {}
      /\ \A r \in Reaction \ fired : tasks'[r] = T[r]
  <2>1. \A r \in Reaction : tasks'[r] = IF r \in fired THEN taken(T[r]) ELSE T[r]
    BY <1>4
  <2>2. QED
    BY <1>2, <1>3, <1>5, <2>1
<1>10. /\ DOMAIN watches' = DOMAIN W
       /\ \A g \in DOMAIN W : watches'[g] = IF g = f THEN W[g] \ UNION {T[r].waiting : r \in fired} ELSE W[g]
  BY <1>4
<1>11. \A r \in R : Idle(T[r]) => r \in ready
  BY DEF ready
<1>12. fired \in SUBSET {r \in R : Idle(T[r])}
  BY <1>3 DEF ready
<1>13. f \in Fd /\ world'[f] # world[f] =>
               world'[f] = "idle" /\ world[f] \in Open \ {"idle"} /\ \E r \in R : Idle(T[r])
  BY <1>2, <1>7, <1>8
<1>14. \A r \in R : Idle(T[r]) /\ r \notin fired =>
               \/ ~enabled[r]
               \/ r \in Receivers /\ ("read" \notin T[r].waiting \/ world[f] \notin Open \ {"idle"}
                                      \/ world[f] \notin Wanted[Word[r]])
  BY <1>6, <1>11
<1>15. QED
  BY <1>8, <1>9, <1>10, <1>12, <1>13, <1>14, Zenon DEF FireEffect

\* rebuild_list() masks of a descriptor what its tasks are busy with, and nothing else.
LEMMA MaskIs ==
  ASSUME NEW f, NEW s \in Sorted(f)
  PROVE  /\ \A e \in Mask(s) : \E r \in On(f) : e \in Listening[r] \ Busy(r)
         /\ \A r \in On(f) : \A e \in Listening[r] : e \in Mask(s) \/ \E q \in On(f) : e \in Busy(q)
<1> DEFINE n == Cardinality(On(f))
<1>1. IsFiniteSet(On(f)) /\ n \in Nat
  <2>1. On(f) \in SUBSET Reaction
    BY DEF On
  <2>2. IsFiniteSet(On(f))
    BY <2>1, SocketAssumption, FS_Subset
  <2>3. QED
    BY <2>2, FS_CardinalityType
<1>2. s \in Injection(1..n, On(f)) /\ s \in [1..n -> On(f)]
  BY DEF Sorted, Injection
<1>3. \A r \in On(f) : \E i \in 1..n : s[i] = r
  <2>1. Cardinality(1..n) = n
    BY <1>1, FS_Interval
  <2>2. s \in Surjection(1..n, On(f))
    BY <1>1, <1>2, <2>1, FS_Injection
  <2>3. QED
    BY <2>2 DEF Surjection
<1>4. DOMAIN s = 1..n /\ Len(s) = n
  <2>1. s \in Seq(On(f))
    BY <1>1, <1>2
  <2>2. DOMAIN s = 1..n
    BY <1>2
  <2>3. QED
    BY <1>1, <2>1, <2>2
<1> HIDE DEF n
<1>5. \A i \in 1..n : i \in i..Len(s) /\ s[i] \in On(f) /\ \A j \in i..Len(s) : s[j] \in On(f)
  <2>1. \A i \in 1..n : i \in i..n /\ \A j \in i..n : j \in 1..n
    BY <1>1
  <2>2. QED
    BY <1>2, <1>4, <2>1
<1>6. ASSUME NEW e \in Mask(s) PROVE \E r \in On(f) : e \in Listening[r] \ Busy(r)
  <2>1. PICK i \in 1..n : e \in Listening[s[i]] \ UNION {Busy(s[j]) : j \in i..Len(s)}
    BY <1>4 DEF Mask
  <2>2. e \notin Busy(s[i])
    BY <1>5, <2>1
  <2>3. QED
    BY <1>5, <2>1, <2>2
<1>7. ASSUME NEW r \in On(f), NEW e \in Listening[r], \A q \in On(f) : e \notin Busy(q)
      PROVE  e \in Mask(s)
  <2>1. PICK i \in 1..n : s[i] = r
    BY <1>3
  <2>2. e \in Listening[s[i]] \ UNION {Busy(s[j]) : j \in i..Len(s)}
    BY <1>5, <1>7, <2>1
  <2>3. QED
    BY <1>4, <2>2 DEF Mask
<1>8. QED
  BY <1>6, <1>7

LEMMA InitWatch == Init => WatchInv
<1> SUFFICES ASSUME Init PROVE WatchInv
  OBVIOUS
<1>1. OtherTypes
  <2>1. DOMAIN watches = {} /\ DOMAIN polled = {}
    BY DEF Init
  <2>2. world \in [Fd -> World] /\ revents \in [Fd -> SUBSET Events]
    BY DEF Init, World, Open, NoEvents
  <2>3. pipe \in 0..MaxBytes
    BY IOAssumption DEF Init
  <2>4. dirty \in BOOLEAN /\ running \in BOOLEAN /\ pc = "top"
    BY DEF Init
  <2>5. QED
    BY <2>1, <2>2, <2>3, <2>4 DEF OtherTypes
<1>2. Sent
  <2>1. \A f \in Fd : world[f] = "shut" \/ world[f] = "idle"
    BY DEF Init
  <2>2. \A r \in Reaction : bound[r] = "new" /\ enabled[r]
    BY DEF Init
  <2>3. Receivers \subseteq Reaction
    BY DEF Receivers
  <2>4. QED
    BY <2>1, <2>2, <2>3 DEF Sent, Open
<1>3. Masks
  BY DEF Init, Masks, NoTask
<1>4. ASSUME NEW r \in Reaction PROVE Listed(r) /\ Fired(r) /\ Ordered(r)
  <2>1. /\ tasks[r] = NoTask /\ bound[r] = "new" /\ mutex = Free /\ revents[Descriptor[r]] = {}
        /\ DOMAIN watches = {} /\ DOMAIN polled = {}
    BY IOAssumption DEF Init, NoEvents
  <2>2. ~tasks[r].in /\ tasks[r].waiting = {} /\ tasks[r].processing = {} /\ ~Finishing(r)
    BY <2>1, IOAssumption DEF NoTask, Free, Finishing
  <2>3. Asked(Descriptor[r]) = {} /\ Busy(r) = {}
    BY <2>1, <2>2 DEF Asked, MaskOf, Busy
  <2>4. Listed(r) /\ Fired(r)
    BY <2>2 DEF Listed, Fired
  <2>5. Ordered(r)
    BY <2>1, <2>2, <2>3 DEF Ordered, Watched
  <2>6. QED
    BY <2>4, <2>5
<1>5. QED
  BY <1>1, <1>2, <1>3, <1>4 DEF WatchInv

\* A step that leaves alone what the masks are made of.
LEMMA SameMasks ==
  ASSUME Inv, WatchInv, UNCHANGED <<tasks, watches, dirty, polled, revents, bound>>, OtherTypes', Sent',
         \A r \in Reaction : Finishing(r)' => tasks[r].processing # {},
         \A r \in Reaction : Alone(r) /\ Watched(r)' =>
             Watched(r) /\ ("read" \in revents[Descriptor[r]] => world'[Descriptor[r]] # "idle")
  PROVE  WatchInv'
<1>1. Masks'
  BY DEF WatchInv, Masks, On, Busy
<1>2. ASSUME NEW r \in Reaction PROVE Listed(r)' /\ Fired(r)' /\ (Alone(r) => Ordered(r)')
  <2>1. Listed(r)' /\ Fired(r)'
    BY DEF WatchInv, Listed, Fired, MayBeRefused
  <2>2. ASSUME Alone(r) PROVE Ordered(r)'
    <3>1. Ordered(r)
      BY <2>2 DEF WatchInv
    <3>2. Asked(Descriptor[r])' = Asked(Descriptor[r]) /\ Busy(r)' = Busy(r)
      BY DEF Asked, MaskOf, Busy
    <3>3. Watched(r)' => Watched(r) /\ ("read" \in revents[Descriptor[r]] => world'[Descriptor[r]] # "idle")
      BY <2>2
    <3>4. QED
      BY <3>1, <3>2, <3>3 DEF Ordered
  <2>3. QED
    BY <2>1, <2>2
<1>3. QED
  BY <1>1, <1>2 DEF WatchInv, Alone

\* What stays as it is when a descriptor does not change.
LEMMA SameWorld ==
  ASSUME Inv, WatchInv, UNCHANGED <<tasks, watches, dirty, polled, revents, bound, world, enabled>>, OtherTypes',
         \A r \in Reaction : Finishing(r)' => tasks[r].processing # {}
  PROVE  WatchInv'
<1>1. Sent'
  BY DEF WatchInv, Sent
<1>2. ASSUME NEW r \in Reaction, Alone(r), Watched(r)'
      PROVE  Watched(r) /\ ("read" \in revents[Descriptor[r]] => world'[Descriptor[r]] # "idle")
  <2>1. Watched(r)
    BY <1>2 DEF Watched
  <2>2. QED
    BY <1>2, <2>1 DEF WatchInv, Ordered
<1>3. QED
  BY <1>1, <1>2, SameMasks

LEMMA ThreadsWatch ==
  ASSUME Inv, WatchInv, Top \/ Collect \/ EndOfPass \/ Shutdown \/ \E r \in Reaction : Bumped(r)
  PROVE  WatchInv'
<1>1. UNCHANGED <<tasks, watches, dirty, polled, revents, bound, world, enabled>>
  BY DEF Top, Collect, EndOfPass, Shutdown, Bumped, users
<1>2. OtherTypes
  BY DEF WatchInv
<1>3. pipe' \in 0..MaxBytes
  <2>1. pipe \in Nat /\ MaxBytes \in Nat /\ pipe <= MaxBytes
    BY <1>2, IOAssumption DEF OtherTypes
  <2>2. CASE Collect
    <3>1. pipe' = Max({0, pipe - 1})
      BY <2>2 DEF Collect
    <3>2. Max({0, pipe - 1}) \in {0, pipe - 1} /\ Max({0, pipe - 1}) >= 0
      <4>1. \E x \in {0, pipe - 1} : \A y \in {0, pipe - 1} : x >= y
        BY <2>1
      <4> DEFINE S == {0, pipe - 1}
                 Top1(x) == \A y \in S : x >= y
      <4>2. (CHOOSE x \in S : Top1(x)) \in S /\ Top1(CHOOSE x \in S : Top1(x))
        BY <4>1
      <4>3. QED
        BY <4>2 DEF Max
    <3>3. QED
      BY <2>1, <3>1, <3>2
  <2>3. CASE Shutdown
    BY <2>1, <2>3 DEF Shutdown, Bump
  <2>4. CASE ~Collect /\ ~Shutdown
    BY <1>2, <2>4 DEF Top, EndOfPass, Bumped, OtherTypes
  <2>5. QED
    BY <2>2, <2>3, <2>4
<1>4. /\ pc' \in {"top", "rebuild", "lock", "polling", "returned", "pass", "stopped"} /\ running' \in BOOLEAN
      /\ pc' # "polling" => DOMAIN polled = {}
  BY <1>2 DEF Top, Collect, EndOfPass, Shutdown, Bumped, OtherTypes, locks
<1>5. OtherTypes'
  BY <1>1, <1>2, <1>3, <1>4 DEF OtherTypes
<1>6. ASSUME NEW r \in Reaction, Finishing(r)' PROVE tasks[r].processing # {}
  <2>1. Finishing(r) \/ mutex'.who = None
    <3>1. CASE Top \/ Shutdown
      BY <1>6, <3>1 DEF Top, Shutdown, locks, Finishing
    <3>2. CASE Collect \/ EndOfPass
      BY <3>2 DEF Collect, EndOfPass, Free
    <3>3. CASE \E q \in Reaction : Bumped(q)
      <4>1. PICK q \in Reaction : Bumped(q)
        BY <3>3
      <4>2. mutex' = Free \/ (mutex.who = q /\ mutex.does = "finish" /\ mutex'.who = q)
        BY <4>1 DEF Bumped, Inv, Types
      <4>3. QED
        BY <1>6, <4>2 DEF Finishing, Free
    <3>4. QED
      BY <3>1, <3>2, <3>3
  <2>2. QED
    BY <1>6, <2>1, IOAssumption DEF Finishing, WatchInv, Listed
<1>7. QED
  BY <1>1, <1>5, <1>6, SameWorld

\* The callback reads what there is; nothing is asked for that it does.
LEMMA RunWatch == ASSUME Inv, WatchInv, NEW r \in Reaction, Run(r) PROVE WatchInv'
<1> DEFINE f == Descriptor[r]
<1>1. UNCHANGED <<tasks, watches, dirty, polled, revents, bound, enabled, running, pipe, mutex, pc>>
  BY DEF Run, locks
<1>2. UNCHANGED world \/ (r \notin Receivers /\ world[f] \in {"data", "empty"} /\ world' = [world EXCEPT ![f] = "idle"])
  BY DEF Run
<1>3. f \in Fd /\ OtherTypes /\ Sent
  BY IOAssumption DEF WatchInv
<1>4. /\ world' \in [Fd -> World] /\ \A g \in Fd \ {f} : world'[g] = world[g]
      /\ world'[f] = world[f] \/ (r \notin Receivers /\ world[f] \in {"data", "empty"} /\ world'[f] = "idle")
  <2>1. "idle" \in World
    BY DEF World, Open
  <2>2. QED
    BY <1>2, <1>3, <2>1 DEF OtherTypes
<1>5. OtherTypes'
  BY <1>1, <1>3, <1>4 DEF OtherTypes
<1>6. Sent'
  <2>1. \A g \in Fd : world'[g] \in Open \ {"idle"} => world'[g] \in Readable
    BY <1>3, <1>4 DEF Sent
  <2>2. \A q \in Receivers : bound'[q] \in {"open", "bound"} => world'[Descriptor[q]] \in Open
    <3>1. \A q \in Receivers : Descriptor[q] \in Fd
      BY IOAssumption DEF Receivers
    <3>2. "idle" \in Open
      BY DEF Open
    <3>3. QED
      BY <1>1, <1>3, <1>4, <3>1, <3>2 DEF Sent
  <2>3. QED
    BY <1>1, <1>3, <2>1, <2>2 DEF Sent
<1>7. ASSUME NEW q \in Reaction, Finishing(q)' PROVE tasks[q].processing # {}
  BY <1>1, <1>7 DEF Finishing, WatchInv, Listed
<1>8. ASSUME NEW q \in Reaction, Alone(q), Watched(q)'
      PROVE  Watched(q) /\ ("read" \in revents[Descriptor[q]] => world'[Descriptor[q]] # "idle")
  <2>1. Ordered(q) /\ Descriptor[q] \in Fd
    BY <1>8, IOAssumption DEF WatchInv
  <2>2. Watched(q)
    <3>1. world[Descriptor[q]] \in Open
      BY <1>4, <1>8, <2>1 DEF Watched, Open
    <3>2. QED
      BY <1>1, <1>8, <3>1 DEF Watched
  <2>3. CASE q = r
    <3>1. tasks[r].in /\ flight[r] > 0
      BY <2>2, <2>3 DEF Watched, Run
    <3>2. tasks[r].processing # {}
      <4>1. Sound(r) /\ flight[r] \in Nat /\ ran[r] \in Nat
        BY DEF Inv, Types
      <4>2. flight[r] + ran[r] = 1
        BY <3>1, <4>1 DEF Sound
      <4>3. QED
        BY <3>1, <4>1, <4>2 DEF Sound, Exists
    <3>3. "read" \notin Asked(f)
      BY <2>1, <2>2, <2>3, <3>2 DEF Ordered
    <3>4. QED
      BY <2>2, <2>3, <3>3 DEF Asked
  <2>4. CASE q # r
    <3>1. world'[Descriptor[q]] = world[Descriptor[q]]
      BY <1>4, <1>8, <2>1, <2>4 DEF Alone
    <3>2. QED
      BY <2>1, <2>2, <3>1 DEF Ordered
  <2>5. QED
    BY <2>3, <2>4
<1>9. QED
  BY <1>1, <1>5, <1>6, <1>7, <1>8, SameMasks

LEMMA OutsideWatch ==
  ASSUME Inv, WatchInv, \E f \in Fd : EmitUDP(f) \/ Change(f)
  PROVE  WatchInv'
<1>1. UNCHANGED <<tasks, watches, dirty, polled, revents, bound, enabled, running, pipe, mutex, pc>>
  BY DEF EmitUDP, Change, locks
<1>2. PICK f \in Fd : EmitUDP(f) \/ Change(f)
  OBVIOUS
<1>3. OtherTypes /\ Sent
  BY DEF WatchInv
<1>4. /\ world' \in [Fd -> World] /\ \A g \in Fd \ {f} : world'[g] = world[g]
      /\ world[f] \in Open /\ world'[f] # "idle"
      /\ world'[f] \in Open => (world[f] = "idle" /\ world'[f] \in Readable) \/ world'[f] = world[f]
      /\ f \in Sockets => world'[f] \in Readable
  <2>1. CASE EmitUDP(f)
    <3>1. PICK d \in Readable : world' = [world EXCEPT ![f] = d]
      BY <2>1 DEF EmitUDP
    <3>2. d \in World /\ d # "idle" /\ world[f] = "idle"
      BY <2>1, IOAssumption DEF World, Open, EmitUDP
    <3>3. QED
      BY <1>3, <3>1, <3>2 DEF OtherTypes, Open
  <2>2. CASE Change(f)
    <3>1. PICK s \in {"data", "empty", "eof", "hup", "shut"} :
             /\ s \in {"data", "empty"} => world[f] = "idle" /\ s \in Readable
             /\ world' = [world EXCEPT ![f] = s]
      BY <2>2 DEF Change
    <3>2. s \in World /\ world[f] \in Open /\ f \notin Sockets
      BY <2>2 DEF World, Open, Change
    <3>3. s \in Open => s \in {"data", "empty"}
      BY DEF Open
    <3>4. QED
      BY <1>3, <3>1, <3>2, <3>3 DEF OtherTypes
  <2>3. QED
    BY <1>2, <2>1, <2>2
<1>5. OtherTypes'
  BY <1>1, <1>3, <1>4 DEF OtherTypes
<1>6. Sent'
  <2>1. \A g \in Fd : world'[g] \in Open \ {"idle"} => world'[g] \in Readable
    BY <1>3, <1>4 DEF Sent
  <2>2. \A q \in Receivers : bound'[q] \in {"open", "bound"} => world'[Descriptor[q]] \in Open
    <3>1. \A q \in Receivers : Descriptor[q] \in Fd /\ Descriptor[q] \in Sockets
      BY IOAssumption DEF Receivers, Sockets
    <3>2. Readable \subseteq Open
      BY IOAssumption DEF Open
    <3>3. QED
      BY <1>1, <1>3, <1>4, <3>1, <3>2 DEF Sent
  <2>3. QED
    BY <1>1, <1>3, <2>1, <2>2 DEF Sent
<1>7. ASSUME NEW q \in Reaction, Finishing(q)' PROVE tasks[q].processing # {}
  BY <1>1, <1>7 DEF Finishing, WatchInv, Listed
<1>8. ASSUME NEW q \in Reaction, Alone(q), Watched(q)'
      PROVE  Watched(q) /\ ("read" \in revents[Descriptor[q]] => world'[Descriptor[q]] # "idle")
  <2>1. Ordered(q) /\ Descriptor[q] \in Fd
    BY <1>8, IOAssumption DEF WatchInv
  <2>2. world[Descriptor[q]] \in Open
    BY <1>4, <1>8, <2>1 DEF Watched
  <2>3. Watched(q)
    BY <1>1, <1>8, <2>2 DEF Watched
  <2>4. world'[Descriptor[q]] # "idle" \/ world'[Descriptor[q]] = world[Descriptor[q]]
    BY <1>4, <2>1
  <2>5. QED
    BY <2>1, <2>3, <2>4 DEF Ordered
<1>9. QED
  BY <1>1, <1>5, <1>6, <1>7, <1>8, SameMasks

LEMMA SwitchWatch == ASSUME Inv, WatchInv, NEW r \in Reaction, Switch(r) PROVE WatchInv'
<1>1. UNCHANGED <<tasks, watches, dirty, polled, revents, bound, world, pc, running, pipe, mutex>>
  BY DEF Switch, locks
<1>2. OtherTypes' /\ Sent'
  <2>1. OtherTypes'
    BY <1>1 DEF WatchInv, OtherTypes
  <2>2. \A q \in Reaction : ~enabled'[q] => q \in MayRefuse
    <3>1. enabled' = [enabled EXCEPT ![r] = ~@] /\ r \in MayRefuse
      BY DEF Switch
    <3>2. \A q \in Reaction : q # r => enabled'[q] = enabled[q]
      BY <3>1
    <3>3. QED
      BY <3>1, <3>2 DEF WatchInv, Sent
  <2>3. QED
    BY <1>1, <2>1, <2>2 DEF WatchInv, Sent
<1>3. ASSUME NEW q \in Reaction, Finishing(q)' PROVE tasks[q].processing # {}
  BY <1>1, <1>3 DEF Finishing, WatchInv, Listed
<1>4. ASSUME NEW q \in Reaction, Alone(q), Watched(q)'
      PROVE  Watched(q) /\ ("read" \in revents[Descriptor[q]] => world'[Descriptor[q]] # "idle")
  <2>1. Watched(q)
    BY <1>1, <1>4 DEF Watched
  <2>2. QED
    BY <1>1, <1>4, <2>1 DEF WatchInv, Ordered
<1>5. QED
  BY <1>1, <1>2, <1>3, <1>4, SameMasks

\* A step after which the list is to be rebuilt, that changes at most one task of it and no mask.
LEMMA DirtyWatch ==
  ASSUME Inv, WatchInv, NEW r \in Reaction, dirty' = TRUE, OtherTypes', Sent',
         UNCHANGED <<watches, polled, revents, world>>,
         \A q \in Reaction \ {r} : /\ tasks'[q] = tasks[q] /\ bound'[q] = bound[q]
                                   /\ Finishing(q)' => tasks[q].processing # {},
         Listed(r)', Fired(r)', Alone(r) => Ordered(r)'
  PROVE  WatchInv'
<1>1. Masks'
  BY DEF Masks
<1>2. ASSUME NEW q \in Reaction, q # r PROVE Listed(q)' /\ Fired(q)' /\ (Alone(q) => Ordered(q)')
  <2>1. tasks'[q] = tasks[q] /\ bound'[q] = bound[q] /\ (Finishing(q)' => tasks[q].processing # {})
    BY <1>2
  <2>2. Listed(q)' /\ Fired(q)'
    BY <2>1 DEF WatchInv, Listed, Fired, MayBeRefused
  <2>3. Asked(Descriptor[q])' = Asked(Descriptor[q]) /\ Busy(q)' = Busy(q) /\ Watched(q)' = Watched(q)
    BY <2>1 DEF Asked, MaskOf, Busy, Watched
  <2>4. ASSUME Alone(q) PROVE Ordered(q)'
    <3>1. Ordered(q)
      BY <2>4 DEF WatchInv
    <3>2. QED
      BY <2>1, <2>3, <3>1 DEF Ordered
  <2>5. QED
    BY <2>2, <2>4
<1>3. QED
  BY <1>1, <1>2 DEF WatchInv, Alone

LEMMA FinishWatch == ASSUME Inv, WatchInv, NEW r \in Reaction, Finish(r) PROVE WatchInv'
<1>0. mutex = Free /\ Types /\ Sound(r) /\ ran[r] > 0 /\ OtherTypes /\ Sent
  BY DEF Finish, Unlocked, Inv, WatchInv
<1>1. UNCHANGED <<watches, polled, revents, world, enabled, bound, running, pc>>
  BY DEF Finish
<1>2. pipe' \in 0..MaxBytes
  <2>1. pipe \in Nat /\ pipe < MaxBytes /\ MaxBytes \in Nat
    BY <1>0, IOAssumption DEF OtherTypes, Finish
  <2>2. pipe' = pipe \/ pipe' = pipe + 1
    BY DEF Finish, Bump
  <2>3. QED
    BY <2>1, <2>2
<1>3. dirty' \in BOOLEAN
  BY <1>0 DEF Finish, OtherTypes
<1>4. OtherTypes'
  BY <1>0, <1>1, <1>2, <1>3 DEF OtherTypes
<1>5. CASE ~tasks[r].in
  <2>1. UNCHANGED <<tasks, dirty, mutex>>
    BY <1>5 DEF Finish
  <2>2. ASSUME NEW q \in Reaction, Finishing(q)' PROVE tasks[q].processing # {}
    BY <2>1, <2>2 DEF Finishing, WatchInv, Listed
  <2>3. QED
    BY <1>1, <1>4, <2>1, <2>2, SameWorld
<1>6. CASE tasks[r].in /\ "close" \in tasks[r].processing
  <2>1. tasks' = [tasks EXCEPT ![r] = NoTask] /\ dirty' = TRUE /\ mutex' = mutex
    BY <1>6 DEF Finish
  <2>2. tasks'[r] = NoTask /\ \A q \in Reaction \ {r} : tasks'[q] = tasks[q]
    BY <1>0, <2>1 DEF Types
  <2>3. \A q \in Reaction : ~Finishing(q)'
    BY <1>0, <2>1, IOAssumption DEF Finishing, Free
  <2>4. Sent'
    BY <1>0, <1>1 DEF Sent
  <2>5. Listed(r)' /\ Fired(r)'
    BY <2>2, <2>3 DEF Listed, Fired, NoTask
  <2>6. ASSUME Alone(r) PROVE Ordered(r)'
    <3>1. Ordered(r) /\ ~Watched(r)' /\ Busy(r)' = {}
      BY <2>2, <2>6 DEF WatchInv, Watched, NoTask, Busy
    <3>2. Asked(Descriptor[r])' = Asked(Descriptor[r])
      BY <1>1 DEF Asked, MaskOf
    <3>3. QED
      BY <1>1, <3>1, <3>2 DEF Ordered
  <2>7. QED
    BY <1>1, <1>4, <2>1, <2>2, <2>3, <2>4, <2>5, <2>6, DirtyWatch
<1>7. CASE tasks[r].in /\ "close" \notin tasks[r].processing
  <2>1. UNCHANGED <<tasks, dirty>> /\ mutex' = [who |-> r, does |-> "finish"]
    BY <1>7 DEF Finish
  <2>2. tasks[r].processing # {}
    <3>1. ~Finishing(r) /\ flight[r] \in Nat /\ ran[r] \in Nat
      BY <1>0, IOAssumption DEF Finishing, Free, Types
    <3>2. flight[r] + ran[r] = 1
      BY <1>0, <3>1 DEF Sound
    <3>3. QED
      BY <1>0, <1>7, <3>1, <3>2 DEF Sound, Exists
  <2>3. ASSUME NEW q \in Reaction, Finishing(q)' PROVE tasks[q].processing # {}
    BY <2>1, <2>2, <2>3 DEF Finishing
  <2>4. QED
    BY <1>1, <1>4, <2>1, <2>3, SameWorld
<1>8. QED
  BY <1>5, <1>6, <1>7

LEMMA BindWatch == ASSUME Inv, WatchInv, NEW r \in Reaction, Bind(r) \/ Unbind(r) PROVE WatchInv'
<1>0. mutex = Free /\ Types /\ Sound(r) /\ OtherTypes /\ Sent /\ Listed(r)
  BY DEF Bind, Unbind, Unlocked, Inv, WatchInv
<1>1. UNCHANGED <<watches, polled, revents, world, enabled, running, pc>> /\ dirty' = TRUE
  BY DEF Bind, Unbind
<1>2. mutex' = [who |-> r, does |-> "return"]
  BY DEF Bind, Unbind
<1>3. pipe' \in 0..MaxBytes
  <2>1. pipe \in Nat /\ pipe < MaxBytes /\ MaxBytes \in Nat
    BY <1>0, IOAssumption DEF OtherTypes, Bind, Unbind
  <2>2. pipe' = pipe + 1
    BY DEF Bind, Unbind, Bump
  <2>3. QED
    BY <2>1, <2>2
<1>4. OtherTypes'
  BY <1>0, <1>1, <1>3 DEF OtherTypes
<1>5. \A q \in Reaction : ~Finishing(q)'
  BY <1>2 DEF Finishing
<1>6. /\ \A q \in Reaction \ {r} : tasks'[q] = tasks[q] /\ bound'[q] = bound[q]
      /\ Bind(r) => bound'[r] = "bound" /\ tasks'[r] = [tasks[r] EXCEPT !.in = TRUE]
      /\ Unbind(r) => bound'[r] = "unbound" /\ tasks'[r] = NoTask
  BY <1>0 DEF Bind, Unbind, Types
<1>7. Asked(Descriptor[r])' = Asked(Descriptor[r])
  BY <1>1 DEF Asked, MaskOf
<1>8. CASE Bind(r)
  <2>1. bound[r] = IF r \in Receivers THEN "open" ELSE "new"
    BY <1>8 DEF Bind
  <2>2. tasks[r] \in TaskType /\ tasks[r].waiting = {} /\ tasks[r].processing = {}
    BY <1>0, <2>1 DEF Types, Sound, Listed
  <2>3. tasks'[r].in /\ tasks'[r].waiting = {} /\ tasks'[r].processing = {}
    BY <1>6, <1>8, <2>2 DEF TaskType
  <2>4. Sent'
    <3>1. \A q \in Receivers : bound'[q] \in {"open", "bound"} => bound[q] \in {"open", "bound"}
      BY <1>6, <1>8, <2>1 DEF Receivers
    <3>2. QED
      BY <1>0, <1>1, <3>1 DEF Sent
  <2>5. Listed(r)' /\ Fired(r)'
    BY <1>5, <1>6, <1>8, <2>3 DEF Listed, Fired
  <2>6. ASSUME Alone(r) PROVE Ordered(r)'
    <3>1. Ordered(r)
      BY <2>6 DEF WatchInv
    <3>2. Asked(Descriptor[r])' = {} /\ Busy(r)' = {} /\ revents'[Descriptor[r]] = {}
      BY <1>1, <1>7, <2>1, <2>3, <3>1 DEF Ordered, Asked, MaskOf, Busy
    <3>3. QED
      BY <1>6, <1>8, <2>3, <3>2 DEF Ordered
  <2>7. QED
    BY <1>1, <1>4, <1>5, <1>6, <2>4, <2>5, <2>6, DirtyWatch
<1>9. CASE Unbind(r)
  <2>1. Sent'
    <3>1. \A q \in Receivers : bound'[q] \in {"open", "bound"} => bound[q] \in {"open", "bound"}
      BY <1>6, <1>9 DEF Receivers
    <3>2. QED
      BY <1>0, <1>1, <3>1 DEF Sent
  <2>2. Listed(r)' /\ Fired(r)'
    BY <1>5, <1>6, <1>9 DEF Listed, Fired, NoTask
  <2>3. ASSUME Alone(r) PROVE Ordered(r)'
    <3>1. Ordered(r) /\ ~Watched(r)' /\ Busy(r)' = {} /\ bound'[r] = "unbound"
      BY <1>6, <1>9, <2>3 DEF WatchInv, Watched, NoTask, Busy
    <3>2. QED
      BY <1>1, <1>7, <3>1 DEF Ordered
  <2>4. QED
    BY <1>1, <1>4, <1>5, <1>6, <1>9, <2>1, <2>2, <2>3, DirtyWatch
<1>10. QED
  BY <1>8, <1>9

LEMMA SocketWatch ==
  ASSUME Inv, WatchInv, NEW r \in Reaction, OpenSocket(r) \/ CloseSocket(r)
  PROVE  WatchInv'
<1> DEFINE f == Descriptor[r]
<1>0. Types /\ OtherTypes /\ Sent /\ r \in Receivers /\ f \in Fd /\ Sound(r)
  BY IOAssumption DEF OpenSocket, CloseSocket, Inv, WatchInv
<1>1. UNCHANGED <<tasks, watches, dirty, polled, revents, running, pipe, pc, mutex, enabled>>
  BY DEF OpenSocket, CloseSocket, locks
<1>2. /\ \A q \in Reaction \ {r} : bound'[q] = bound[q]
      /\ OpenSocket(r) => bound[r] = "new" /\ bound'[r] = "open" /\ world' = [world EXCEPT ![f] = "idle"]
      /\ CloseSocket(r) => bound[r] = "bound" /\ bound'[r] = "closed" /\ world' = [world EXCEPT ![f] = "shut"]
  BY <1>0 DEF OpenSocket, CloseSocket, Types
<1>3. /\ world' \in [Fd -> World] /\ \A g \in Fd \ {f} : world'[g] = world[g]
      /\ world'[f] = IF OpenSocket(r) THEN "idle" ELSE "shut"
  <2>1. "idle" \in World /\ "shut" \in World
    BY DEF World, Open
  <2>2. OpenSocket(r) => ~CloseSocket(r)
    BY <1>2
  <2>3. QED
    BY <1>0, <1>2, <2>1, <2>2 DEF OtherTypes
<1>4. \A q \in Reaction : q # r => Descriptor[q] # f /\ Descriptor[q] \in Fd
  BY <1>0, SocketAssumption, IOAssumption
<1>5. OtherTypes'
  BY <1>0, <1>1, <1>3 DEF OtherTypes
<1>6. Sent'
  <2>1. \A g \in Fd : world'[g] \in Open \ {"idle"} => world'[g] \in Readable
    BY <1>0, <1>3 DEF Sent, Open
  <2>2. ASSUME NEW q \in Receivers, bound'[q] \in {"open", "bound"} PROVE world'[Descriptor[q]] \in Open
    <3>1. CASE q = r
      BY <1>2, <1>3, <2>2, <3>1 DEF Open
    <3>2. CASE q # r
      BY <1>0, <1>2, <1>3, <1>4, <2>2, <3>2 DEF Sent, Receivers
    <3>3. QED
      BY <3>1, <3>2
  <2>3. QED
    BY <1>0, <1>1, <2>1, <2>2 DEF Sent
<1>7. Masks'
  BY <1>1 DEF WatchInv, Masks, On, Busy
<1>8. ASSUME NEW q \in Reaction PROVE Listed(q)' /\ Fired(q)' /\ (Alone(q) => Ordered(q)')
  <2>1. Listed(q) /\ Fired(q) /\ (Alone(q) => Ordered(q))
    BY DEF WatchInv
  <2>2. Finishing(q)' => Finishing(q)
    BY <1>1 DEF Finishing
  <2>3. Asked(Descriptor[q])' = Asked(Descriptor[q]) /\ Busy(q)' = Busy(q)
    BY <1>1 DEF Asked, MaskOf, Busy
  <2>4. CASE q # r
    <3>1. bound'[q] = bound[q] /\ world'[Descriptor[q]] = world[Descriptor[q]]
      BY <1>2, <1>3, <1>4, <2>4
    <3>2. Listed(q)' /\ Fired(q)'
      BY <1>1, <2>1, <2>2, <3>1 DEF Listed, Fired, MayBeRefused
    <3>3. Alone(q) => Ordered(q)'
      BY <1>1, <2>1, <2>3, <3>1 DEF Ordered, Watched
    <3>4. QED
      BY <3>2, <3>3
  <2>5. CASE q = r
    <3>1. Listed(r)'
      BY <1>0, <1>1, <1>2, <2>1, <2>2, <2>5 DEF Listed, Sound
    <3>2. Fired(r)' /\ ~Watched(r)'
      BY <1>2 DEF Fired, Watched
    <3>3. bound'[r] \in {"new", "open"} => bound[r] \in {"new", "open"}
      BY <1>2
    <3>4. Alone(r) => Ordered(r)'
      BY <1>1, <2>1, <2>3, <2>5, <3>2, <3>3 DEF Ordered
    <3>5. QED
      BY <2>5, <3>1, <3>2, <3>4
  <2>6. QED
    BY <2>4, <2>5
<1>9. QED
  BY <1>5, <1>6, <1>7, <1>8 DEF WatchInv, Alone

\* poll() is called, or returns: it reports no more than what it was asked for, except that a
\* descriptor was closed.
LEMMA PollWatch == ASSUME Inv, WatchInv, Enter \/ Return PROVE WatchInv'
<1>0. Types /\ OtherTypes /\ Sent
  BY DEF Inv, WatchInv
<1>1. UNCHANGED <<tasks, watches, dirty, running, pipe, mutex, world, bound, enabled>>
  BY DEF Enter, Return, users
<1>2. ASSUME NEW f \in Fd
      PROVE  /\ f \notin DOMAIN watches \union DOMAIN polled /\ revents[f] = {} =>
                    f \notin DOMAIN polled' /\ revents'[f] = {}
             /\ "read" \in Asked(f)' => "read" \in Asked(f)
             /\ world[f] \in Open =>
                   revents'[f] = revents[f] \/ (revents'[f] \subseteq {"read"} /\ ("read" \in revents'[f] => world[f] # "idle"))
             /\ revents'[f] \subseteq Events
  <2>1. CASE Enter
    <3>1. polled' = watches /\ revents' = revents
      BY <2>1 DEF Enter
    <3>2. QED
      BY <1>0, <1>1, <3>1 DEF Asked, MaskOf, OtherTypes
  <2>2. CASE Return
    <3>1. DOMAIN polled' = {} /\ revents'[f] = IF f \in DOMAIN polled THEN Reported(f, polled[f]) ELSE {}
      BY <2>2 DEF Return
    <3>2. /\ world[f] \in Open => Reported(f, polled[f]) \subseteq {"read"}
          /\ world[f] = "idle" => Reported(f, polled[f]) = {}
          /\ Reported(f, polled[f]) \subseteq Events
          /\ "read" \in Reported(f, polled[f]) => "read" \in polled[f]
      <4>1. world[f] \in World
        BY <1>0 DEF OtherTypes
      <4>2. QED
        BY <4>1 DEF Reported, World, Open, Events
    <3>3. "read" \in Asked(f)' => "read" \in Asked(f)
      BY <1>1, <3>1, <3>2 DEF Asked, MaskOf
    <3>4. QED
      BY <3>1, <3>2, <3>3
  <2>3. QED
    BY <2>1, <2>2
<1>3. OtherTypes'
  <2>1. \/ pc' = "polling" /\ polled' = watches
        \/ pc' = "returned" /\ DOMAIN polled' = {}
    BY DEF Enter, Return
  <2>2. revents' \in [Fd -> SUBSET Events]
    <3>1. \E g : revents' = [f \in Fd |-> g[f]]
      <4>1. CASE Enter
        <5>1. revents' = [f \in Fd |-> revents[f]]
          BY <1>0, <4>1 DEF OtherTypes, Enter
        <5>2. QED
          BY <5>1
      <4>2. CASE Return
        <5>1. revents' = [f \in Fd |-> revents'[f]]
          BY <4>2 DEF Return
        <5>2. QED
          BY <5>1
      <4>3. QED
        BY <4>1, <4>2
    <3>2. QED
      BY <1>2, <3>1
  <2>3. QED
    BY <1>0, <1>1, <2>1, <2>2 DEF OtherTypes
<1>4. Sent' /\ Masks'
  BY <1>0, <1>1 DEF WatchInv, Sent, Masks, On, Busy
<1>5. ASSUME NEW r \in Reaction PROVE Listed(r)' /\ Fired(r)' /\ (Alone(r) => Ordered(r)')
  <2>1. Listed(r)' /\ Fired(r)'
    BY <1>1 DEF WatchInv, Listed, Fired, MayBeRefused, Finishing
  <2>2. ASSUME Alone(r) PROVE Ordered(r)'
    <3>1. Ordered(r) /\ Descriptor[r] \in Fd
      BY <2>2, IOAssumption DEF WatchInv
    <3>2. Watched(r)' = Watched(r) /\ Busy(r)' = Busy(r)
      BY <1>1 DEF Watched, Busy
    <3>3. Watched(r) => revents'[Descriptor[r]] \subseteq {"read"} /\ ("read" \in revents'[Descriptor[r]] => world[Descriptor[r]] # "idle")
      BY <1>2, <3>1 DEF Ordered, Watched
    <3>4. QED
      BY <1>1, <1>2, <3>1, <3>2, <3>3 DEF Ordered
  <2>3. QED
    BY <2>1, <2>2
<1>6. QED
  BY <1>3, <1>4, <1>5 DEF WatchInv, Alone

LEMMA RebuildWatch == ASSUME Inv, WatchInv, Rebuild PROVE WatchInv'
<1> DEFINE watched == {Descriptor[r] : r \in {q \in Reaction : tasks[q].in}}
<1>0. OtherTypes /\ pc = "rebuild" /\ Sent
  BY DEF Rebuild, WatchInv
<1>1. UNCHANGED <<tasks, running, pipe, mutex, polled, revents, world, bound, enabled>> /\ pc' = "lock" /\ dirty' = FALSE
  BY DEF Rebuild, users
<1>2. PICK order : /\ \A f \in watched : order[f] \in Sorted(f)
                   /\ watches' = [f \in watched |-> Mask(order[f])]
  BY DEF Rebuild
<1>3. \A r \in Reaction : Descriptor[r] \in Fd /\ (tasks[r].in => Descriptor[r] \in watched)
  BY IOAssumption
<1>4. ASSUME NEW f \in watched
      PROVE  /\ f \in Fd
             /\ \A e \in watches'[f] : \E r \in On(f) : e \in Listening[r] \ Busy(r)
             /\ \A r \in On(f) : \A e \in Listening[r] : e \in watches'[f] \/ \E q \in On(f) : e \in Busy(q)
  <2>1. watches'[f] = Mask(order[f]) /\ order[f] \in Sorted(f)
    BY <1>2
  <2>2. f \in Fd
    BY IOAssumption
  <2> HIDE DEF watched
  <2>3. QED
    BY <2>1, <2>2, MaskIs
<1>5. DOMAIN watches' = watched
  BY <1>2
<1> HIDE DEF watched
<1>6. \A f : On(f)' = On(f)
  BY <1>1 DEF On
<1>7. \A q \in Reaction : Busy(q)' = Busy(q)
  BY <1>1 DEF Busy
<1>8. OtherTypes'
  <2>1. \A f \in DOMAIN watches' : f \in Fd /\ watches'[f] \subseteq Events
    BY <1>4, <1>5, IOAssumption DEF On
  <2>2. QED
    BY <1>0, <1>1, <2>1 DEF OtherTypes
<1>9. Sent'
  BY <1>0, <1>1 DEF Sent
<1>10. Masks'
  <2> SUFFICES ASSUME NEW r \in Reaction, NEW e \in Events, tasks[r].in, e \in Listening[r]
               PROVE  LET f == Descriptor[r] IN
                      f \in DOMAIN watches' /\ (e \in watches'[f] \/ \E q \in On(f) : e \in Busy(q))
    BY <1>1, <1>6, <1>7 DEF Masks, On
  <2>1. Descriptor[r] \in watched /\ r \in On(Descriptor[r])
    BY <1>3 DEF On
  <2>2. QED
    BY <1>4, <1>5, <2>1
<1>11. ASSUME NEW r \in Reaction PROVE Listed(r)' /\ Fired(r)' /\ (Alone(r) => Ordered(r)')
  <2>1. Listed(r)' /\ Fired(r)'
    BY <1>1 DEF WatchInv, Listed, Fired, MayBeRefused, Finishing
  <2>2. ASSUME Alone(r) PROVE Ordered(r)'
    <3> DEFINE f == Descriptor[r]
    <3>1. Ordered(r) /\ Sound(r) /\ Watched(r)' = Watched(r)
      BY <1>1, <2>2 DEF WatchInv, Watched, Inv
    <3>2. \A q \in On(f) : q = r /\ tasks[r].in
      BY <2>2 DEF Alone, On
    <3>3. f \in watched => tasks[r].in
      BY <2>2 DEF Alone, watched
    <3>4. "read" \in MaskOf(watches, f)' => "read" \in Listening[r] \ Busy(r)
      BY <1>4, <1>5, <3>2 DEF MaskOf
    <3>5. Asked(f)' = MaskOf(watches, f)' \union MaskOf(polled, f) \union revents[f]
      BY <1>1 DEF Asked, MaskOf
    <3>6. MaskOf(polled, f) \union revents[f] \subseteq Asked(f)
      BY DEF Asked
    <3>7. bound[r] \in {"new", "open"} => f \notin DOMAIN watches'
      BY <1>5, <3>1, <3>3 DEF Sound
    <3>8. "read" \in Asked(f)' \union Busy(r)' => "read" \in Listening[r]
      BY <1>7, <3>1, <3>4, <3>5, <3>6 DEF Ordered
    <3>9. Watched(r) /\ tasks[r].processing # {} => "read" \notin Asked(f)'
      BY <3>1, <3>4, <3>5, <3>6 DEF Ordered, Busy
    <3>10. QED
      BY <1>1, <1>7, <3>1, <3>7, <3>8, <3>9 DEF Ordered
  <2>3. QED
    BY <2>1, <2>2
<1>12. QED
  BY <1>8, <1>9, <1>10, <1>11 DEF WatchInv, Alone

\* The descriptors when an event was taken from f.
LEMMA SentStill ==
  ASSUME OtherTypes, Sent, UNCHANGED <<bound, enabled>>, NEW f, world' \in [Fd -> World],
         \A g \in Fd \ {f} : world'[g] = world[g],
         f \in Fd /\ world'[f] # world[f] => world'[f] = "idle" /\ world[f] \in Open \ {"idle"}
  PROVE  Sent' /\ \A g \in Fd : world'[g] \in Open <=> world[g] \in Open
<1>1. "idle" \in Open
  BY DEF Open
<1>2. \A g \in Fd : world'[g] = world[g] \/ (world'[g] = "idle" /\ world[g] \in Open)
  OBVIOUS
<1>3. \A q \in Receivers : Descriptor[q] \in Fd
  BY IOAssumption DEF Receivers
<1>4. QED
  BY <1>1, <1>2, <1>3 DEF Sent

LEMMA UnmaskWatch == ASSUME Inv, WatchInv, NEW r \in Reaction, Unmask(r) PROVE WatchInv'
<1> DEFINE f == Descriptor[r]
           T == [tasks EXCEPT ![r] = Done(@)]
           W == [g \in DOMAIN watches |-> IF g = f THEN Unmasked(watches[g], tasks[r]) ELSE watches[g]]
<1>0. /\ Types /\ OtherTypes /\ Sent /\ Masks /\ f \in Fd
      /\ Listed(r) /\ Finishing(r) /\ tasks[r].in /\ tasks[r].processing # {} /\ Sound(r)
  BY IOAssumption DEF Unmask, Finishing, Inv, WatchInv, Sound, Listed
<1>1. mutex' = Free /\ UNCHANGED <<dirty, running, pipe, pc, polled, revents, enabled, bound>>
  BY DEF Unmask
<1>2. Fire(T, W, {r}, f)
  BY DEF Unmask
<1>3. /\ T \in [Reaction -> TaskType] /\ T[r].in /\ T[r].processing = {} /\ T[r].waiting = tasks[r].waiting
      /\ \A q \in Reaction \ {r} : T[q] = tasks[q]
  BY <1>0 DEF Done, Types, TaskType
<1>4. DOMAIN W = DOMAIN watches /\ \A g \in DOMAIN watches :
         W[g] = IF g = f THEN watches[g] \union tasks[r].processing ELSE watches[g]
  BY DEF Unmasked
<1>5. {r} \in SUBSET Reaction /\ flight \in [Reaction -> Nat] /\ world \in [Fd -> World]
  BY <1>0 DEF Types, OtherTypes
<1> HIDE DEF T, W
<1>6. tasks' \in [Reaction -> TaskType] /\ \A q \in Reaction : tasks'[q].in = T[q].in
  BY <1>2, <1>3, <1>5, FireResult
<1>6a. FireEffect(T, W, {r}, f)
  <2>1. \A q \in {r} : Descriptor[q] = f
    OBVIOUS
  <2>2. T \in [Reaction -> TaskType]
    BY <1>3
  <2> HIDE DEF f
  <2>3. QED
    BY <1>2, <1>5, <2>1, <2>2, FireWatch
<1>7. PICK fired \in SUBSET {q \in {r} : Idle(T[q])} :
         /\ \A q \in fired : tasks'[q].processing = T[q].waiting /\ tasks'[q].waiting = {}
         /\ \A q \in Reaction \ fired : tasks'[q] = T[q]
         /\ DOMAIN watches' = DOMAIN W
         /\ \A g \in DOMAIN W : watches'[g] = IF g = f THEN W[g] \ UNION {T[q].waiting : q \in fired} ELSE W[g]
         /\ \A q \in {r} : Idle(T[q]) /\ q \notin fired =>
               \/ ~enabled[q]
               \/ q \in Receivers /\ ("read" \notin T[q].waiting \/ world[f] \notin Open \ {"idle"}
                                      \/ world[f] \notin Wanted[Word[q]])
         /\ world' \in [Fd -> World] /\ \A g \in Fd \ {f} : world'[g] = world[g]
         /\ f \in Fd /\ world'[f] # world[f] =>
               world'[f] = "idle" /\ world[f] \in Open \ {"idle"} /\ \E q \in {r} : Idle(T[q])
  BY <1>6a, Zenon DEF FireEffect
<1>8. fired \subseteq {r} /\ (r \in fired => tasks[r].waiting # {})
  BY <1>3, <1>7 DEF Idle
<1>9. /\ tasks'[r].in
      /\ r \in fired  => tasks'[r].processing = tasks[r].waiting /\ tasks'[r].waiting = {}
      /\ r \notin fired => tasks'[r].processing = {} /\ tasks'[r].waiting = tasks[r].waiting
      /\ \A q \in Reaction \ {r} : tasks'[q] = tasks[q]
  BY <1>3, <1>6, <1>7, <1>8
<1>10. /\ DOMAIN watches' = DOMAIN watches
       /\ \A g \in DOMAIN watches \ {f} : watches'[g] = watches[g]
       /\ f \in DOMAIN watches => watches'[f] = (watches[f] \union tasks[r].processing) \ (IF r \in fired THEN tasks[r].waiting ELSE {})
  <2>1. UNION {T[q].waiting : q \in fired} = IF r \in fired THEN tasks[r].waiting ELSE {}
    BY <1>3, <1>8
  <2>2. QED
    BY <1>4, <1>7, <2>1
<1>11. tasks[r] \in TaskType /\ tasks[r].processing \subseteq Events
  BY <1>0 DEF Types, TaskType
<1>12. OtherTypes'
  <2>1. \A g \in DOMAIN watches' : g \in Fd /\ watches'[g] \subseteq Events
    BY <1>0, <1>10, <1>11 DEF OtherTypes
  <2>2. QED
    BY <1>0, <1>1, <1>7, <1>10, <2>1 DEF OtherTypes
<1>13. Sent' /\ \A g \in Fd : world'[g] \in Open <=> world[g] \in Open
  BY <1>0, <1>1, <1>7, SentStill
<1>14. \A q \in Reaction : ~Finishing(q)'
  BY <1>1, IOAssumption DEF Finishing, Free
<1>15. Masks'
  <2> SUFFICES ASSUME ~dirty, NEW q \in Reaction, NEW e \in Events, tasks'[q].in, e \in Listening[q]
               PROVE  LET g == Descriptor[q] IN
                      g \in DOMAIN watches' /\ (e \in watches'[g] \/ \E p \in On(g)' : e \in Busy(p)')
    BY <1>1 DEF Masks
  <2> DEFINE g == Descriptor[q]
  <2>1. tasks[q].in
    BY <1>0, <1>9
  <2>2. g \in DOMAIN watches /\ (e \in watches[g] \/ \E p \in On(g) : e \in Busy(p))
    BY <1>0, <2>1 DEF Masks
  <2>3. \A p \in Reaction : p \in On(g) => p \in On(g)'
    BY <1>9 DEF On
  <2>4. r \in On(f)'
    BY <1>9 DEF On
  <2>5. CASE e \in watches[g]
    <3>1. e \in watches'[g] \/ (g = f /\ r \in fired /\ e \in tasks[r].waiting)
      BY <1>10, <2>2, <2>5
    <3>2. QED
      BY <1>9, <1>10, <2>2, <2>4, <3>1 DEF Busy
  <2>6. CASE \E p \in On(g) : e \in Busy(p)
    <3>1. PICK p \in On(g) : e \in Busy(p)
      BY <2>6
    <3>2. p \in Reaction /\ p \in On(g)' /\ Descriptor[p] = g
      BY <2>3, <3>1 DEF On
    <3>3. CASE p # r
      BY <1>9, <1>10, <2>2, <3>1, <3>2, <3>3 DEF Busy
    <3>4. CASE p = r /\ e \in tasks[r].waiting
      BY <1>9, <1>10, <2>2, <2>4, <3>2, <3>4 DEF Busy
    <3>5. CASE p = r /\ e \in tasks[r].processing /\ e \notin tasks[r].waiting
      BY <1>10, <2>2, <3>2, <3>5
    <3>6. QED
      BY <3>1, <3>3, <3>4, <3>5 DEF Busy
  <2>7. QED
    BY <2>2, <2>5, <2>6
<1>16. ASSUME NEW q \in Reaction PROVE Listed(q)' /\ Fired(q)' /\ (Alone(q) => Ordered(q)')
  <2>1. Listed(q) /\ Fired(q) /\ (Alone(q) => Ordered(q)) /\ Descriptor[q] \in Fd
    BY IOAssumption DEF WatchInv
  <2>2. CASE q # r
    <3>1. tasks'[q] = tasks[q]
      BY <1>9, <2>2
    <3>2. Listed(q)' /\ Fired(q)'
      BY <1>1, <1>14, <2>1, <3>1 DEF Listed, Fired, MayBeRefused
    <3>3. ASSUME Alone(q) PROVE Ordered(q)'
      <4>1. Descriptor[q] # f
        BY <2>2, <3>3 DEF Alone
      <4>2. Asked(Descriptor[q])' = Asked(Descriptor[q])
        BY <1>1, <1>10, <4>1 DEF Asked, MaskOf
      <4>3. Busy(q)' = Busy(q) /\ Watched(q)' = Watched(q) /\ world'[Descriptor[q]] = world[Descriptor[q]]
        BY <1>1, <1>7, <2>1, <3>1, <4>1 DEF Busy, Watched
      <4>4. QED
        BY <1>1, <1>10, <2>1, <3>1, <3>3, <4>2, <4>3 DEF Ordered
    <3>4. QED
      BY <3>2, <3>3
  <2>3. CASE q = r
    <3>1. Listed(r)'
      BY <1>0, <1>1, <1>9, <1>14 DEF Listed
    <3>2. Alone(r) /\ Watched(r) => tasks[r].waiting = {}
      BY <1>0, <2>1, <2>3 DEF Ordered
    <3>3. ASSUME Fired(r)' = FALSE PROVE FALSE
      <4>1. bound[r] = "bound" /\ tasks'[r].waiting # {} /\ tasks'[r].processing = {} /\ ~MayBeRefused(r)
        BY <1>1, <3>3 DEF Fired, MayBeRefused
      <4>2. tasks[r].waiting # {} /\ r \notin fired
        BY <1>9, <4>1
      <4>3. r \notin Receivers
        <5>1. r \in Receivers => Alone(r)
          BY SocketAssumption DEF Alone
        <5>2. r \in Receivers => Watched(r)
          BY <1>0, <4>1 DEF Sent, Watched
        <5>3. QED
          BY <3>2, <4>2, <5>1, <5>2
      <4>4. Idle(T[r])
        BY <1>3, <4>2 DEF Idle
      <4>5. ~enabled[r]
        BY <1>7, <4>2, <4>3, <4>4
      <4>6. QED
        BY <1>0, <4>1, <4>5 DEF Sent, MayBeRefused
    <3>4. ASSUME Alone(r) PROVE Ordered(r)'
      <4>1. Ordered(r) /\ bound[r] \notin {"new", "open"}
        BY <1>0, <2>1, <2>3, <3>4 DEF Sound
      <4>2. Asked(f)' \subseteq Asked(f) \union tasks[r].processing /\ Busy(r)' \subseteq Busy(r)
        BY <1>1, <1>9, <1>10 DEF Asked, MaskOf, Busy
      <4>3. "read" \in Asked(f)' \union Busy(r)' => "read" \in Listening[r]
        BY <4>1, <4>2 DEF Ordered, Busy
      <4>4. ASSUME Watched(r)'
            PROVE  /\ revents'[f] \subseteq {"read"} /\ ("read" \in revents'[f] => world'[f] # "idle")
                   /\ tasks'[r].waiting = {} /\ tasks'[r].processing = {} /\ Busy(r)' = {}
        <5>1. Watched(r)
          BY <1>0, <1>1, <1>13, <4>4 DEF Watched
        <5>2. tasks[r].waiting = {} /\ r \notin fired /\ ~Idle(T[r])
          BY <1>3, <1>8, <3>2, <3>4, <5>1 DEF Idle
        <5>3. world'[f] = world[f]
          BY <1>0, <1>7, <5>2
        <5>4. QED
          BY <1>1, <1>9, <4>1, <5>1, <5>2, <5>3 DEF Ordered, Busy
      <4>5. QED
        BY <1>1, <4>1, <4>3, <4>4 DEF Ordered
    <3>5. QED
      BY <2>3, <3>1, <3>3, <3>4 DEF Fired
  <2>4. QED
    BY <2>2, <2>3
<1>17. QED
  BY <1>12, <1>13, <1>15, <1>16 DEF WatchInv, Alone

LEMMA ProcessEventWatch == ASSUME Inv, WatchInv, ProcessEvent PROVE WatchInv'
<1> DEFINE f == Min({g \in Fd : revents[g] # {}})
           eof == "read" \in revents[f] /\ NoBytes(f)
           close(r) == IF eof /\ "read" \notin tasks[r].processing THEN {"close"} ELSE {}
           more(r) == tasks[r].waiting \union (Listening[r] \intersect revents[f]) \union close(r)
           T == [r \in Reaction |->
                   IF r \notin On(f) THEN tasks[r] ELSE [tasks[r] EXCEPT !.waiting = more(r)]]
<1>0. Types /\ Holders /\ OtherTypes /\ Sent /\ Masks /\ pc = "pass"
  BY DEF ProcessEvent, Inv, WatchInv
<1>1. /\ UNCHANGED <<mutex, pc, bound, enabled, running, pipe, polled>>
      /\ revents' = [revents EXCEPT ![f] = {}] /\ dirty' \in BOOLEAN /\ (dirty => dirty')
  BY <1>0 DEF ProcessEvent, locks, OtherTypes
<1>2. Fire(T, watches, On(f), f)
  BY DEF ProcessEvent
<1>3. \A r \in Reaction : /\ more(r) \in SUBSET Events
                          /\ tasks[r].waiting \union (Listening[r] \intersect revents[f]) \subseteq more(r)
                          /\ \A e \in more(r) : \/ e \in tasks[r].waiting \/ e \in Listening[r] \intersect revents[f]
                                                \/ e = "close" /\ eof
  BY <1>0, IOAssumption DEF Types, TaskType, Events
<1>4. eof => "read" \in revents[f] /\ world[f] \in {"idle", "empty", "eof", "hup"}
  BY DEF NoBytes
<1> HIDE DEF more, close, eof
<1>5. T \in [Reaction -> TaskType]
  <2>1. ASSUME NEW r \in Reaction PROVE [tasks[r] EXCEPT !.waiting = more(r)] \in TaskType
    BY <1>0, <1>3 DEF Types, TaskType
  <2>2. QED
    BY <1>0, <2>1 DEF Types
<1>6. \A r \in Reaction : /\ T[r].in = tasks[r].in /\ T[r].processing = tasks[r].processing
                          /\ T[r].waiting = IF r \in On(f) THEN more(r) ELSE tasks[r].waiting
                          /\ r \notin On(f) => T[r] = tasks[r]
  BY <1>0 DEF Types, TaskType
<1>7. On(f) \in SUBSET Reaction /\ \A r \in On(f) : tasks[r].in /\ Descriptor[r] = f
  BY DEF On
<1> HIDE DEF T, f
<1>8. flight \in [Reaction -> Nat] /\ world \in [Fd -> World]
  BY <1>0 DEF Types, OtherTypes
<1>9. tasks' \in [Reaction -> TaskType] /\ \A q \in Reaction : tasks'[q].in = T[q].in
  BY <1>2, <1>5, <1>7, <1>8, FireResult
<1>10. FireEffect(T, watches, On(f), f)
  BY <1>2, <1>5, <1>7, <1>8, FireWatch
<1>11. PICK fired \in SUBSET {r \in On(f) : Idle(T[r])} :
    /\ \A r \in fired : tasks'[r].processing = T[r].waiting /\ tasks'[r].waiting = {}
    /\ \A r \in Reaction \ fired : tasks'[r] = T[r]
    /\ DOMAIN watches' = DOMAIN watches
    /\ \A g \in DOMAIN watches : watches'[g] = IF g = f THEN watches[g] \ UNION {T[r].waiting : r \in fired} ELSE watches[g]
    /\ \A r \in On(f) : Idle(T[r]) /\ r \notin fired =>
          \/ ~enabled[r]
          \/ r \in Receivers /\ ("read" \notin T[r].waiting \/ world[f] \notin Open \ {"idle"}
                                 \/ world[f] \notin Wanted[Word[r]])
    /\ world' \in [Fd -> World] /\ \A g \in Fd \ {f} : world'[g] = world[g]
    /\ f \in Fd /\ world'[f] # world[f] =>
          world'[f] = "idle" /\ world[f] \in Open \ {"idle"} /\ \E r \in On(f) : Idle(T[r])
  BY <1>10, Zenon DEF FireEffect
<1>12. /\ \A r \in Reaction : r \in fired => r \in On(f) /\ tasks[r].processing = {} /\ more(r) # {}
       /\ \A r \in Reaction : /\ tasks'[r].in = tasks[r].in
                              /\ r \notin On(f) => tasks'[r] = tasks[r]
                              /\ r \in fired => tasks'[r].processing = more(r) /\ tasks'[r].waiting = {}
                              /\ r \in On(f) /\ r \notin fired => /\ tasks'[r].processing = tasks[r].processing
                                                                  /\ tasks'[r].waiting = more(r)
  <2>1. \A r \in Reaction : r \in fired => r \in On(f) /\ Idle(T[r])
    BY <1>11
  <2>2. \A r \in Reaction : r \in fired => r \in On(f) /\ tasks[r].processing = {} /\ more(r) # {}
    BY <1>6, <2>1 DEF Idle
  <2>3. QED
    BY <1>6, <1>9, <1>11, <2>2
<1>13. \A g : On(g)' = On(g)
  BY <1>12 DEF On
<1>14. OtherTypes'
  <2>1. \A g \in DOMAIN watches' : g \in Fd /\ watches'[g] \subseteq Events
    BY <1>0, <1>11 DEF OtherTypes
  <2>2. revents' \in [Fd -> SUBSET Events]
    BY <1>0, <1>1 DEF OtherTypes
  <2>3. QED
    BY <1>0, <1>1, <1>11, <2>1, <2>2 DEF OtherTypes
<1>15. Sent' /\ \A g \in Fd : world'[g] \in Open <=> world[g] \in Open
  BY <1>0, <1>1, <1>11, SentStill
<1>16. \A q \in Reaction : ~Finishing(q)'
  BY <1>0, <1>1, IOAssumption DEF Holders, Finishing
<1>17. Masks'
  <2> SUFFICES ASSUME ~dirty', NEW q \in Reaction, NEW e \in Events, tasks'[q].in, e \in Listening[q]
               PROVE  LET g == Descriptor[q] IN
                      g \in DOMAIN watches' /\ (e \in watches'[g] \/ \E p \in On(g)' : e \in Busy(p)')
    BY DEF Masks
  <2> DEFINE g == Descriptor[q]
  <2>1. g \in DOMAIN watches /\ (e \in watches[g] \/ \E p \in On(g) : e \in Busy(p))
    BY <1>0, <1>1, <1>12 DEF Masks
  <2>2. CASE e \in watches[g]
    <3>1. e \in watches'[g] \/ \E p \in fired : e \in T[p].waiting /\ g = f
      BY <1>11, <2>1, <2>2
    <3>2. CASE e \in watches'[g]
      BY <1>11, <2>1, <3>2
    <3>3. CASE \E p \in fired : e \in T[p].waiting /\ g = f
      <4>1. PICK p \in fired : e \in T[p].waiting /\ g = f
        BY <3>3
      <4>2. p \in On(g)' /\ e \in Busy(p)'
        BY <1>6, <1>7, <1>12, <1>13, <4>1 DEF Busy
      <4>3. QED
        BY <1>11, <2>1, <4>2
    <3>4. QED
      BY <3>1, <3>2, <3>3
  <2>3. CASE \E p \in On(g) : e \in Busy(p)
    <3>1. PICK p \in On(g) : e \in Busy(p)
      BY <2>3
    <3>2. p \in Reaction /\ p \in On(g)'
      BY <1>13, <3>1 DEF On
    <3>3. e \in Busy(p)'
      BY <1>3, <1>12, <3>1, <3>2 DEF Busy
    <3>4. QED
      BY <1>11, <2>1, <3>2, <3>3
  <2>4. QED
    BY <2>1, <2>2, <2>3
<1>18. ASSUME NEW q \in Reaction PROVE Listed(q)' /\ Fired(q)' /\ (Alone(q) => Ordered(q)')
  <2>0. Listed(q) /\ Fired(q) /\ (Alone(q) => Ordered(q)) /\ Descriptor[q] \in Fd
    BY IOAssumption DEF WatchInv
  <2>1. Listed(q)'
    <3>1. ~tasks[q].in => q \notin On(f)
      BY <1>7
    <3>2. QED
      BY <1>1, <1>12, <1>16, <2>0, <3>1 DEF Listed
  \* What is reported of a descriptor that only q is at.
  <2>2. ASSUME Alone(q), Watched(q), q \in On(f)
        PROVE  /\ f = Descriptor[q] /\ world[f] \in Open /\ revents[f] \subseteq {"read"}
               /\ "read" \in revents[f] => world[f] # "idle" /\ "read" \in Listening[q]
               /\ more(q) # {} => "read" \in more(q)
               /\ "read" \notin revents[f] => more(q) = tasks[q].waiting
               /\ "empty" \notin Readable => "close" \notin more(q) \union tasks[q].processing
    <3>1. f = Descriptor[q] /\ world[f] \in Open /\ revents[f] \subseteq {"read"}
          /\ ("read" \in revents[f] => world[f] # "idle")
      BY <1>7, <2>0, <2>2 DEF Watched, Ordered
    <3>2. "read" \in revents[f] => "read" \in Listening[q]
      BY <2>0, <2>2, <3>1 DEF Ordered, Asked
    <3>3. "read" \in revents[f] => "read" \in more(q)
      BY <1>3, <3>2
    <3>4. "read" \notin revents[f] => more(q) = tasks[q].waiting
      BY <1>3, <1>4, <3>1
    <3>5. tasks[q].waiting # {} => "read" \in tasks[q].waiting
      BY <2>0, <2>2 DEF Ordered
    <3>6. eof => world[f] = "empty"
      BY <1>4, <3>1 DEF Open
    <3>7. "empty" \notin Readable => ~eof
      BY <1>0, <2>0, <3>1, <3>6 DEF Sent
    <3>8. "empty" \notin Readable => "close" \notin tasks[q].waiting \union tasks[q].processing
      BY <2>0, <2>2 DEF Ordered, Busy
    <3>9. "empty" \notin Readable => "close" \notin more(q)
      BY <1>3, <3>1, <3>7, <3>8
    <3>10. more(q) # {} => "read" \in more(q)
      BY <1>3, <3>3, <3>4, <3>5
    <3>11. QED
      BY <3>1, <3>2, <3>4, <3>8, <3>9, <3>10
  <2>3. CASE q \notin On(f)
    <3>1. tasks'[q] = tasks[q]
      BY <1>12, <2>3
    <3>2. Fired(q)'
      BY <1>1, <2>0, <3>1 DEF Fired, MayBeRefused
    <3>3. ASSUME Alone(q) PROVE Ordered(q)'
      <4>1. Busy(q)' = Busy(q)
        BY <3>1 DEF Busy
      <4>2. Asked(Descriptor[q])' \subseteq Asked(Descriptor[q]) /\ revents'[Descriptor[q]] \subseteq revents[Descriptor[q]]
        <5>1. revents'[Descriptor[q]] \subseteq revents[Descriptor[q]]
          BY <1>0, <1>1, <2>0 DEF OtherTypes
        <5>2. MaskOf(watches, Descriptor[q])' \subseteq MaskOf(watches, Descriptor[q])
          BY <1>11 DEF MaskOf
        <5>3. MaskOf(polled, Descriptor[q])' = MaskOf(polled, Descriptor[q])
          BY <1>1 DEF MaskOf
        <5>4. QED
          BY <5>1, <5>2, <5>3 DEF Asked
      <4>3. Watched(q)' => Watched(q) /\ Descriptor[q] # f
        BY <1>1, <1>15, <2>0, <2>3, <3>1 DEF Watched, On
      <4>4. Descriptor[q] # f => world'[Descriptor[q]] = world[Descriptor[q]]
        BY <1>11, <2>0
      <4>5. QED
        BY <1>1, <1>11, <2>0, <3>1, <3>3, <4>1, <4>2, <4>3, <4>4 DEF Ordered
    <3>4. QED
      BY <2>1, <3>2, <3>3
  <2>4. CASE q \in On(f)
    <3>0. tasks[q].in /\ f = Descriptor[q] /\ f \in Fd
      BY <1>7, <2>0, <2>4
    <3>1. ASSUME bound[q] = "bound", tasks'[q].waiting # {}, tasks'[q].processing = {} PROVE MayBeRefused(q)
      <4>1. q \notin fired /\ Idle(T[q]) /\ tasks[q].processing = {} /\ more(q) # {}
        <5>1. q \notin fired /\ tasks[q].processing = {} /\ more(q) # {}
          BY <1>12, <2>4, <3>1
        <5>2. QED
          BY <1>6, <2>4, <5>1 DEF Idle
      <4>2. CASE ~enabled[q]
        BY <1>0, <4>2 DEF Sent, MayBeRefused
      <4>3. CASE enabled[q]
        <5>1. /\ q \in Receivers /\ T[q].waiting = more(q)
              /\ ("read" \notin more(q) \/ world[f] \notin Open \ {"idle"} \/ world[f] \notin Wanted[Word[q]])
          BY <1>6, <1>11, <2>4, <4>1, <4>3
        <5>2. Alone(q) /\ Watched(q)
          BY <1>0, <3>0, <3>1, <5>1, SocketAssumption DEF Alone, Sent, Watched
        <5>3. CASE "read" \notin revents[f]
          <6>1. tasks[q].waiting # {}
            BY <2>2, <2>4, <4>1, <5>2, <5>3
          <6>2. QED
            BY <2>0, <3>0, <3>1, <4>1, <6>1 DEF Fired
        <5>4. CASE "read" \in revents[f]
          <6>1. world[f] \in Open \ {"idle"} /\ "read" \in more(q)
            BY <2>2, <2>4, <4>1, <5>2, <5>4
          <6>2. world[f] \in Readable /\ world[f] \notin Wanted[Word[q]]
            BY <1>0, <3>0, <5>1, <6>1 DEF Sent
          <6>3. QED
            BY <5>1, <6>2 DEF MayBeRefused
        <5>5. QED
          BY <5>3, <5>4
      <4>4. QED
        BY <4>2, <4>3
    <3>2. Fired(q)'
      BY <1>1, <3>1 DEF Fired, MayBeRefused
    <3>3. ASSUME Alone(q) PROVE Ordered(q)'
      <4> DEFINE g == Descriptor[q]
      <4>1. Ordered(q) /\ bound[q] \notin {"new", "open"} /\ revents'[g] = {}
        BY <1>0, <1>1, <2>0, <3>0, <3>3 DEF Sound, Inv, OtherTypes
      <4>2. MaskOf(polled, g)' = {} /\ Asked(g)' = MaskOf(watches, g)'
        BY <1>0, <1>1, <4>1 DEF MaskOf, Asked, OtherTypes
      <4>3. MaskOf(watches, g)' \subseteq MaskOf(watches, g) /\ (q \in fired => MaskOf(watches, g)' \intersect more(q) = {})
        BY <1>6, <1>11, <2>4, <3>0 DEF MaskOf
      <4>4. Busy(q)' \subseteq more(q) \union tasks[q].processing
        BY <1>12, <2>4 DEF Busy
      <4>5. "read" \in more(q) => "read" \in Listening[q]
        BY <1>3, <4>1 DEF Ordered, Busy
      <4>6. "read" \in Asked(g)' \union Busy(q)' => "read" \in Listening[q]
        BY <3>0, <4>1, <4>2, <4>3, <4>4, <4>5 DEF Ordered, Asked, Busy
      <4>7. ASSUME Watched(q)'
            PROVE  /\ tasks'[q].waiting # {} => "read" \in tasks'[q].waiting
                   /\ tasks'[q].processing # {} =>
                         "read" \in tasks'[q].processing /\ "read" \notin Asked(g)' /\ tasks'[q].waiting = {}
                   /\ "empty" \notin Readable => "close" \notin Busy(q)'
        <5>1. Watched(q)
          BY <1>1, <1>12, <1>15, <2>0, <4>7 DEF Watched
        <5>2. /\ more(q) # {} => "read" \in more(q)
              /\ "read" \notin revents[f] => more(q) = tasks[q].waiting
              /\ "empty" \notin Readable => "close" \notin more(q) \union tasks[q].processing
          BY <2>2, <2>4, <3>3, <5>1
        <5>3. CASE q \in fired
          <6>1. tasks'[q].processing = more(q) /\ tasks'[q].waiting = {} /\ "read" \in more(q)
            BY <1>12, <5>2, <5>3
          <6>2. QED
            BY <4>2, <4>3, <4>4, <5>2, <5>3, <6>1
        <5>4. CASE q \notin fired
          <6>1. tasks'[q].processing = tasks[q].processing /\ tasks'[q].waiting = more(q)
            BY <1>12, <2>4, <5>4
          <6>2. tasks[q].processing # {} => /\ "read" \in tasks[q].processing /\ "read" \notin Asked(g)
                                            /\ tasks[q].waiting = {}
            BY <3>0, <4>1, <5>1 DEF Ordered
          <6>3. tasks[q].processing # {} => more(q) = {} /\ "read" \notin Asked(g)'
            BY <3>0, <4>2, <4>3, <5>2, <6>2 DEF Asked
          <6>4. QED
            BY <4>4, <5>2, <6>1, <6>2, <6>3
        <5>5. QED
          BY <5>3, <5>4
      <4>8. QED
        BY <1>1, <3>0, <4>1, <4>6, <4>7 DEF Ordered
    <3>4. QED
      BY <2>1, <3>2, <3>3
  <2>5. QED
    BY <2>3, <2>4
<1>19. QED
  BY <1>14, <1>15, <1>17, <1>18 DEF WatchInv, Alone

LEMMA WatchKept == Inv /\ WatchInv /\ [Next]_vars => WatchInv'
<1> SUFFICES ASSUME Inv, WatchInv, [Next]_vars PROVE WatchInv'
  OBVIOUS
<1>1. CASE UNCHANGED vars
  <2>1. OtherTypes' /\ \A r \in Reaction : Finishing(r)' => tasks[r].processing # {}
    BY <1>1 DEF WatchInv, OtherTypes, Listed, Finishing, vars, locks
  <2>2. QED
    BY <1>1, <2>1, SameWorld DEF vars, locks
<1>2. CASE Poller \/ Shutdown \/ \E f \in Fd : EmitUDP(f) \/ Change(f)
  BY <1>2, ThreadsWatch, RebuildWatch, PollWatch, ProcessEventWatch, OutsideWatch DEF Poller
<1>3. CASE \E r \in Reaction : OpenSocket(r) \/ Bind(r) \/ CloseSocket(r) \/ Unbind(r) \/ Switch(r)
  BY <1>3, SocketWatch, BindWatch, SwitchWatch
<1>4. CASE \E r \in Reaction : Report(r)
  BY <1>4, ThreadsWatch, FinishWatch, UnmaskWatch, RunWatch DEF Report
<1>5. QED
  BY <1>1, <1>2, <1>3, <1>4 DEF Next
-----------------------------------------------------------------------------
(* Every variable of the controller keeps its type; what poll() is asked for is about        *)
(* descriptors, and the bytes of bump() stay within the pipe.                               *)
THEOREM ControllerTypes == Spec => []TypeOK
<1>1. ASSUME Inv, WatchInv PROVE TypeOK
  <2>1. mutex.who \in Reaction \union {None} /\ mutex.does \in {"nothing", "pass", "return", "finish", "unmask"}
    BY <1>1 DEF Inv, Types
  <2>2. QED
    BY <1>1, <2>1 DEF Inv, Types, TaskType, WatchInv, OtherTypes, World, TypeOK
<1>2. QED
  BY <1>1, InitInv, InvKept, InitWatch, WatchKept, PTL DEF Spec

(* No event is masked from poll() but while a task of its descriptor processes it, or has    *)
(* it waiting behind one it processes, or was refused (IOController_Posix.ipp:28-53,       *)
(* 209-226), however many reactions share a descriptor.                                  *)
THEOREM NothingStaysMasked == Spec => []Watchful
<1>1. ASSUME Inv, WatchInv PROVE Watchful
  <2> SUFFICES ASSUME NEW r \in Reaction, NEW e \in Events, tasks[r].in, bound[r] = "bound",
                      e \in Listening[r], mutex = Free, ~dirty
               PROVE  LET f == Descriptor[r] IN
                      /\ f \in DOMAIN watches
                      /\ e \in watches[f] \/ \E q \in On(f) :
                            e \in Busy(q) /\ (tasks[q].processing # {} \/ MayBeRefused(q))
    BY DEF Watchful
  <2>1. Descriptor[r] \in DOMAIN watches
        /\ (e \in watches[Descriptor[r]] \/ \E q \in On(Descriptor[r]) : e \in Busy(q))
    BY <1>1 DEF WatchInv, Masks
  <2>2. ASSUME NEW q \in On(Descriptor[r]), e \in Busy(q) PROVE tasks[q].processing # {} \/ MayBeRefused(q)
    <3>1. q \in Reaction /\ tasks[q].in /\ Descriptor[q] = Descriptor[r]
      BY DEF On
    <3>2. tasks[q].processing = {} => tasks[q].waiting # {}
      BY <2>2 DEF Busy
    <3>3. CASE bound[q] = "bound"
      BY <1>1, <3>1, <3>2, <3>3 DEF WatchInv, Fired
    <3>4. CASE bound[q] # "bound"
      <4>1. q \in Receivers /\ bound[q] = "closed"
        BY <1>1, <3>1, <3>4 DEF WatchInv, Listed
      <4>2. r = q
        BY <3>1, <4>1, SocketAssumption
      <4>3. QED
        BY <3>4, <4>2
    <3>5. QED
      BY <3>3, <3>4
  <2>3. QED
    BY <2>1, <2>2
<1>2. QED
  BY <1>1, InitInv, InvKept, InitWatch, WatchKept, PTL DEF Spec

\* Whoever is in the list stays there when tasks are made of T.
LEMMA FireKeepsList ==
  ASSUME NEW T, NEW W, NEW R, NEW f, NEW r \in Reaction, T[r] \in TaskType, Fire(T, W, R, f)
  PROVE  tasks'[r].in = T[r].in
<1>1. PICK fired : tasks' = [q \in Reaction |->
          IF q \in fired THEN [T[q] EXCEPT !.waiting = {}, !.processing = T[q].waiting] ELSE T[q]]
  BY DEF Fire
<1>2. QED
  BY <1>1 DEF TaskType

LEMMA ListedStill ==
  ASSUME Types, ProcessEvent \/ (\E q \in Reaction : Unmask(q)), NEW r \in Reaction
  PROVE  tasks'[r].in = tasks[r].in
<1>0. tasks \in [Reaction -> TaskType]
  BY DEF Types
<1>1. CASE ProcessEvent
  <2> DEFINE f == Min({g \in Fd : revents[g] # {}})
             more(q) == tasks[q].waiting \union (Listening[q] \intersect revents[f])
                        \union IF "read" \in revents[f] /\ NoBytes(f) /\ "read" \notin tasks[q].processing
                               THEN {"close"} ELSE {}
             T == [q \in Reaction |->
                     IF q \notin On(f) THEN tasks[q] ELSE [tasks[q] EXCEPT !.waiting = more(q)]]
  <2>1. Fire(T, watches, On(f), f)
    BY <1>1 DEF ProcessEvent
  <2>2. more(r) \in SUBSET Events
    BY <1>0, IOAssumption DEF TaskType, Events
  <2> HIDE DEF more
  <2>3. T[r] \in TaskType /\ T[r].in = tasks[r].in
    BY <1>0, <2>2 DEF TaskType
  <2> HIDE DEF T, f
  <2>4. QED
    BY <2>1, <2>3, FireKeepsList
<1>2. CASE \E q \in Reaction : Unmask(q)
  <2>1. PICK q \in Reaction : Unmask(q)
    BY <1>2
  <2> DEFINE T == [tasks EXCEPT ![q] = Done(@)]
  <2>2. PICK W : Fire(T, W, {q}, Descriptor[q])
    BY <2>1 DEF Unmask
  <2>3. T[r] \in TaskType /\ T[r].in = tasks[r].in
    BY <1>0 DEF Done, TaskType
  <2> HIDE DEF T
  <2>4. QED
    BY <2>2, <2>3, FireKeepsList
<1>3. QED
  BY <1>1, <1>2

(* A task leaves the list only when it is unbound or its descriptor was closed, if each       *)
(* reaction has a descriptor of its own and nothing readable is empty.  Of a shared one        *)
(* another task may have read what poll() reported, and an empty datagram has no bytes either:  *)
(* both are taken for the end of a stream (IOController_Posix.ipp:66-79).                     *)
THEOREM LeavesOnlyIfClosed ==
  ASSUME \A r \in Reaction : Alone(r), "empty" \notin Readable
  PROVE  Spec => RemovedOnlyIfClosed
<1>1. ASSUME Inv, WatchInv, [Next]_vars, NEW r \in Reaction, tasks[r].in, ~tasks'[r].in
      PROVE  bound[r] # "bound" \/ bound'[r] # "bound" \/ world[Descriptor[r]] \notin Open
  <2>0. Types
    BY <1>1 DEF Inv
  <2>1. CASE tasks' = tasks
    BY <1>1, <2>1
  <2>2. CASE \E q \in Reaction : Unbind(q)
    <3>1. PICK q \in Reaction : Unbind(q)
      BY <2>2
    <3>2. q = r
      BY <1>1, <2>0, <3>1 DEF Unbind, Types
    <3>3. QED
      BY <2>0, <3>1, <3>2 DEF Unbind, Types
  <2>3. CASE \E q \in Reaction : Finish(q)
    <3>1. PICK q \in Reaction : Finish(q)
      BY <2>3
    <3>2. tasks' = tasks \/ ("close" \in tasks[q].processing /\ tasks' = [tasks EXCEPT ![q] = NoTask])
      BY <3>1 DEF Finish
    <3>3. q = r /\ "close" \in Busy(r)
      BY <1>1, <2>0, <3>2 DEF Types, Busy
    <3>4. ~Watched(r)
      BY <1>1, <3>3 DEF WatchInv, Ordered
    <3>5. QED
      BY <1>1, <3>4 DEF Watched
  <2>4. CASE \E q \in Reaction : Bind(q)
    <3>1. PICK q \in Reaction : tasks' = [tasks EXCEPT ![q].in = TRUE]
      BY <2>4 DEF Bind
    <3>2. tasks'[r].in
      BY <1>1, <2>0, <3>1 DEF Types, TaskType
    <3>3. QED
      BY <1>1, <3>2
  <2>5. CASE ProcessEvent \/ \E q \in Reaction : Unmask(q)
    <3>1. tasks'[r].in = tasks[r].in
      BY <2>0, <2>5, ListedStill
    <3>2. QED
      BY <1>1, <3>1
  <2>6. QED
    <3>1. CASE Top \/ Rebuild \/ Enter \/ Return \/ Collect \/ EndOfPass \/ Shutdown \/ UNCHANGED vars
      BY <2>1, <3>1 DEF Top, Rebuild, Enter, Return, Collect, EndOfPass, Shutdown, vars
    <3>2. CASE \E f \in Fd : EmitUDP(f) \/ Change(f)
      BY <2>1, <3>2 DEF EmitUDP, Change
    <3>3. CASE \E q \in Reaction : OpenSocket(q) \/ CloseSocket(q) \/ Switch(q) \/ Bumped(q) \/ Run(q)
      BY <2>1, <3>3 DEF OpenSocket, CloseSocket, Switch, Bumped, Run
    <3>4. QED
      BY <1>1, <2>2, <2>3, <2>4, <2>5, <3>1, <3>2, <3>3 DEF Next, Poller, Report
<1>2. Inv /\ WatchInv /\ [Next]_vars =>
        [\A r \in Reaction : tasks[r].in /\ ~tasks'[r].in =>
             bound[r] # "bound" \/ bound'[r] # "bound" \/ world[Descriptor[r]] \notin Open]_vars
  BY <1>1
<1>3. QED
  BY <1>2, InitInv, InvKept, InitWatch, WatchKept, PTL DEF Spec, RemovedOnlyIfClosed
=============================================================================
