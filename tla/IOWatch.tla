------------------------------ MODULE IOWatch ------------------------------
(* The IOController of a PowerPlant (IOController_Posix.ipp) with the reactions   *)
(* of on<IO> (IO.hpp) and on<UDP> (UDP.hpp): one thread polls the descriptors of   *)
(* all reactions; others add and remove reactions, and report that a task ended.  *)
(*                                                                               *)
(* A step is what one thread does between taking a lock and letting it go, split  *)
(* where it waits for the other lock.  tasks_mutex is held by "poll", by the      *)
(* thread that works on a reaction, or by nobody; notifier.mutex is held while    *)
(* the poll thread is in poll().                                                 *)
EXTENDS Integers, FiniteSets, FiniteSetsExt, Functions, Sequences

CONSTANTS
    Reaction, Fd,   \* reactions; descriptor numbers, in the order of watches
    Descriptor,     \* Descriptor[r]: what r is bound to
    Listening,      \* Listening[r]: its events, of "read", "close" and "error"
    Word,           \* Word[r]: "IO", "UDP", "Broadcast", "Multicast" or "TCP"
    Readable,       \* what may become readable: "data", for a socket a connection or a
                    \* datagram to its own address, an "empty" one, or one to a
                    \* "broadcast" address or to a "group"
    MayRefuse,      \* the reactions that may be disabled, whose get_task() then gives none
    None, MaxBytes  \* Bound: bytes in the notification pipe

Events == {"read", "close", "error"}
ASSUME IOAssumption ==
    /\ Descriptor \in [Reaction -> Fd] /\ Listening \in [Reaction -> SUBSET Events]
    /\ Word \in [Reaction -> {"IO", "UDP", "Broadcast", "Multicast", "TCP"}] /\ None \notin Reaction /\ Fd \subseteq Int
    /\ Readable \subseteq {"data", "empty", "broadcast", "group"} /\ MayRefuse \subseteq Reaction
    /\ MaxBytes \in Nat \ {0}

VARIABLES
    tasks,    \* the task list: those in it, their waiting and processing events
    watches,  \* watches[fd]: the mask poll() is given for a descriptor in the list
    dirty, running,
    pipe,     \* bytes in the notification pipe
    mutex,    \* the owner of tasks_mutex, and what it is about to do
    pc,       \* where the poll thread is
    polled,   \* the masks that poll() was called with
    revents,  \* what it returned
    world,    \* what is behind each descriptor
    enabled,  \* Reaction::enabled
    flight,   \* tasks of each reaction that were submitted and have not run
    ran,      \* tasks whose callback has run and whose post_run is due
    bound     \* "new", "bound" or "unbound"; for a socket also "open" and "closed"

locks == <<mutex, pc>>
vars == <<tasks, watches, dirty, running, pipe, locks, polled, revents, world,
          enabled, flight, ran, bound>>
users == <<world, enabled, flight, ran, bound>>

Open == {"idle", "data", "empty", "broadcast", "group"}
Receivers == {r \in Reaction : Word[r] # "IO"}
\* The descriptors that on<UDP>() or on<TCP>() itself opens.
Sockets == {Descriptor[r] : r \in Receivers}

(* A socket is that of one reaction, which listens for datagrams or connections, and    *)
(* for its close (UDP.hpp:333, TCP.hpp:156).                                        *)
ASSUME SocketAssumption ==
    /\ IsFiniteSet(Reaction)
    /\ \A r \in Receivers : Listening[r] = {"read", "close"}
    /\ \A r \in Receivers, q \in Reaction : Descriptor[q] = Descriptor[r] => q = r

Free == [who |-> None, does |-> "nothing"]
NoTask == [in |-> FALSE, waiting |-> {}, processing |-> {}]
NoEvents == [f \in Fd |-> {}]

Init ==
    /\ tasks = [r \in Reaction |-> NoTask] /\ watches = [f \in {} |-> {}]
    /\ dirty = FALSE /\ running = TRUE /\ pipe = 0
    /\ mutex = Free /\ pc = "top" /\ polled = watches /\ revents = NoEvents
    /\ world = [f \in Fd |-> IF f \in Sockets THEN "shut" ELSE "idle"] /\ enabled = [r \in Reaction |-> TRUE]
    /\ flight = [r \in Reaction |-> 0] /\ ran = [r \in Reaction |-> 0]
    /\ bound = [r \in Reaction |-> "new"]
-----------------------------------------------------------------------------
Unlocked == mutex = Free
On(f) == {r \in Reaction : tasks[r].in /\ Descriptor[r] = f}

(* rebuild_list(): an event is masked out that a task of the descriptor is         *)
(* processing or has waiting.  The tasks are sorted by what they listen to, and    *)
(* each adds its events to the mask of those before it and takes its own out;      *)
(* equal tasks are in any order.                                                  *)
Value(r) == (IF "read" \in Listening[r] THEN 1 ELSE 0)
            + (IF "close" \in Listening[r] THEN 16 ELSE 0)
            + (IF "error" \in Listening[r] THEN 40 ELSE 0)
Busy(r) == tasks[r].processing \union tasks[r].waiting
Sorted(f) == {s \in [1..Cardinality(On(f)) -> On(f)] :
                 IsInjective(s) /\ \A i, j \in DOMAIN s : i < j => Value(s[i]) <= Value(s[j])}
Mask(s) == UNION {Listening[s[i]] \ UNION {Busy(s[j]) : j \in i..Len(s)} : i \in DOMAIN s}

(* bump() writes a byte; whoever calls it then waits for notifier.mutex.           *)
\* Mutant of Bump: nothing is written.
BumpMutant(n) == n
\* Mutant of Bump: two bytes are written.
BumpTwiceMutant(n) == n + 2
Bump(n) == n + 1
NotPolling == pc # "polling"

(* What the get() of a word makes a task of: a datagram sent to an address of an    *)
(* interface, to a broadcast address or to a multicast group, or a connection.     *)
UnicastGet == {"data", "empty"}
BroadcastGet == {"broadcast"}
MulticastGet == {"group"}
AcceptGet == {"data"}
Wanted == [UDP |-> UnicastGet, Broadcast |-> BroadcastGet, Multicast |-> MulticastGet,
           TCP |-> AcceptGet]

(* get_task(), which for a receiver reads one datagram: whether there is a task,   *)
(* and what is left to read.                                                      *)
Gets(r, t) ==
    LET here == world[Descriptor[r]] IN
    IF ~enabled[r] THEN {[got |-> FALSE, left |-> here]}
    ELSE IF r \notin Receivers THEN {[got |-> TRUE, left |-> here]}
    ELSE IF "read" \notin t.waiting \/ here \notin Open \ {"idle"}
         THEN {[got |-> FALSE, left |-> here]}
    ELSE [got : {here \in Wanted[Word[r]]}, left : {"idle", here}]

\* Mutant of Idle: a task that is processing is fired again.
IdleMutant(t) == t.waiting # {}
Idle(t) == t.processing = {} /\ t.waiting # {}

(* fire_event() for the tasks R of descriptor f, whose state is T.                 *)
Fire(T, W, R, f) ==
    LET ready == {r \in R : Idle(T[r])} IN
    \E outcome \in [ready -> [got : BOOLEAN, left : Open \union {"eof", "hup", "shut"}]] :
       LET fired == {r \in ready : outcome[r].got} IN
       /\ \A r \in ready : outcome[r] \in Gets(r, T[r])
       /\ tasks' = [r \in Reaction |->
                      IF r \in fired THEN [T[r] EXCEPT !.waiting = {}, !.processing = T[r].waiting]
                      ELSE T[r]]
       /\ watches' = [g \in DOMAIN W |->
                        IF g = f THEN W[g] \ UNION {T[r].waiting : r \in fired} ELSE W[g]]
       /\ flight' = [r \in Reaction |-> IF r \in fired THEN flight[r] + 1 ELSE flight[r]]
       /\ world' = [world EXCEPT ![f] =
                      IF \E r \in ready : outcome[r].left # @
                      THEN outcome[CHOOSE r \in ready : outcome[r].left # @].left ELSE @]
-----------------------------------------------------------------------------
(* on<UDP>() opens its socket, or throws, and binds it with on<IO>.                 *)
OpenSocket(r) ==
    /\ r \in Receivers /\ bound[r] = "new"
    /\ bound' = [bound EXCEPT ![r] = "open"]
    /\ world' = [world EXCEPT ![Descriptor[r]] = "idle"]
    /\ UNCHANGED <<tasks, watches, dirty, running, pipe, locks, polled, revents,
                   enabled, flight, ran>>

(* on<IO>(): IOConfiguration, handled inline.                                      *)
Bind(r) ==
    /\ bound[r] = IF r \in Receivers THEN "open" ELSE "new"
    /\ Unlocked /\ pipe < MaxBytes
    /\ bound' = [bound EXCEPT ![r] = "bound"]
    /\ tasks' = [tasks EXCEPT ![r].in = TRUE]
    /\ dirty' = TRUE /\ pipe' = Bump(pipe) /\ mutex' = [who |-> r, does |-> "return"]
    /\ UNCHANGED <<watches, running, pc, polled, revents, world, enabled, flight, ran>>

(* ReactionHandle::unbind(): the unbinders run in the order they were added, so a   *)
(* socket is closed first; poll() then reports that it is not open.               *)
CloseSocket(r) ==
    /\ r \in Receivers /\ bound[r] = "bound"
    /\ bound' = [bound EXCEPT ![r] = "closed"]
    /\ world' = [world EXCEPT ![Descriptor[r]] = "shut"]
    /\ UNCHANGED <<tasks, watches, dirty, running, pipe, locks, polled, revents,
                   enabled, flight, ran>>

(* Unbind<IO>, handled inline.                                                     *)
Unbind(r) ==
    /\ bound[r] = IF r \in Receivers THEN "closed" ELSE "bound"
    /\ Unlocked /\ pipe < MaxBytes
    /\ bound' = [bound EXCEPT ![r] = "unbound"]
    /\ tasks' = [tasks EXCEPT ![r] = NoTask]
    /\ dirty' = TRUE /\ pipe' = Bump(pipe) /\ mutex' = [who |-> r, does |-> "return"]
    /\ UNCHANGED <<watches, running, pc, polled, revents, world, enabled, flight, ran>>

(* bump() has got notifier.mutex.                                                  *)
Bumped(r) ==
    /\ mutex.who = r /\ NotPolling
    /\ \/ mutex.does = "return" /\ mutex' = Free
       \/ mutex.does = "finish" /\ mutex' = [mutex EXCEPT !.does = "unmask"]
    /\ UNCHANGED <<tasks, watches, dirty, running, pipe, pc, polled, revents, users>>

(* IOFinished, from post_run on the thread of the task.  It leaves the list if it   *)
(* was given the close event; nothing wakes the poll thread then.                 *)
Finish(r) ==
    /\ ran[r] > 0 /\ Unlocked /\ pipe < MaxBytes
    /\ ran' = [ran EXCEPT ![r] = @ - 1]
    /\ IF ~tasks[r].in THEN UNCHANGED <<tasks, dirty, pipe, mutex>>
       ELSE IF "close" \in tasks[r].processing
       THEN /\ tasks' = [tasks EXCEPT ![r] = NoTask] /\ dirty' = TRUE
            /\ UNCHANGED <<pipe, mutex>>
       ELSE /\ pipe' = Bump(pipe) /\ mutex' = [who |-> r, does |-> "finish"]
            /\ UNCHANGED <<tasks, dirty>>
    /\ UNCHANGED <<watches, running, pc, polled, revents, world, enabled, flight, bound>>

\* Mutant of Unmasked: the mask stays as it was.
UnmaskedMutant(m, t) == m
Unmasked(m, t) == m \union t.processing
Done(t) == [t EXCEPT !.processing = {}]

(* The rest of it; the poll thread may have called poll() again meanwhile.         *)
Unmask(r) ==
    /\ mutex.who = r /\ mutex.does = "unmask" /\ mutex' = Free
    /\ LET f == Descriptor[r]
           T == [tasks EXCEPT ![r] = Done(@)]
           W == [g \in DOMAIN watches |->
                   IF g = f THEN Unmasked(watches[g], tasks[r]) ELSE watches[g]]
       IN Fire(T, W, {r}, f)
    /\ UNCHANGED <<dirty, running, pipe, pc, polled, revents, enabled, ran, bound>>

(* The Shutdown reaction.                                                         *)
Shutdown ==
    /\ running /\ pipe < MaxBytes /\ running' = FALSE /\ pipe' = Bump(pipe)
    /\ UNCHANGED <<tasks, watches, dirty, locks, polled, revents, users>>
-----------------------------------------------------------------------------
(* One pass of on<Always>: what it reads before it polls.                          *)
Top ==
    /\ pc = "top"
    /\ pc' = IF ~running THEN "stopped" ELSE IF dirty THEN "rebuild" ELSE "lock"
    /\ UNCHANGED <<tasks, watches, dirty, running, pipe, mutex, polled, revents, users>>

Rebuild ==
    /\ pc = "rebuild" /\ Unlocked /\ pc' = "lock" /\ dirty' = FALSE
    /\ LET watched == {Descriptor[r] : r \in {q \in Reaction : tasks[q].in}} IN
       \E order \in [watched -> UNION {Sorted(f) : f \in watched}] :
          /\ \A f \in watched : order[f] \in Sorted(f)
          /\ watches' = [f \in watched |-> Mask(order[f])]
    /\ UNCHANGED <<tasks, running, pipe, mutex, polled, revents, users>>

(* poll() is called with notifier.mutex held.                                      *)
Enter ==
    /\ pc = "lock" /\ pc' = "polling" /\ polled' = watches
    /\ UNCHANGED <<tasks, watches, dirty, running, pipe, mutex, revents, users>>

(* What poll() reports of a descriptor.  Close and error are reported asked or not. *)
Reported(f, mask) ==
    CASE world[f] = "idle" -> {}
      [] world[f] \in (Open \ {"idle"}) \union {"eof"} -> mask \intersect {"read"}
      [] world[f] = "hup" -> (mask \intersect {"read"}) \union {"close"}
      [] world[f] = "shut" -> {"error"}

Return ==
    /\ pc = "polling" /\ pc' = "returned"
    /\ revents' = [f \in Fd |-> IF f \in DOMAIN polled THEN Reported(f, polled[f]) ELSE {}]
    /\ pipe > 0 \/ revents' # NoEvents
    /\ polled' = [f \in {} |-> {}]
    /\ UNCHANGED <<tasks, watches, dirty, running, pipe, mutex, users>>

(* tasks_mutex is taken, and a byte is read if the pipe was reported.              *)
Collect ==
    /\ pc = "returned" /\ Unlocked /\ pc' = "pass"
    /\ mutex' = [who |-> None, does |-> "pass"]
    /\ pipe' = Max({0, pipe - 1})
    /\ UNCHANGED <<tasks, watches, dirty, running, polled, revents, users>>

\* Mutant of NoBytes: whatever is readable is taken for the end of a stream.
NoBytesMutant(f) == TRUE
NoBytes(f) == world[f] \in {"idle", "empty", "eof", "hup"}

(* process_event() for the first descriptor that has events.                       *)
ProcessEvent ==
    /\ pc = "pass" /\ revents # NoEvents
    /\ LET f == Min({g \in Fd : revents[g] # {}})
           eof == "read" \in revents[f] /\ NoBytes(f)
           close(r) == IF eof /\ "read" \notin tasks[r].processing THEN {"close"} ELSE {}
           T == [r \in Reaction |->
                   IF r \notin On(f) THEN tasks[r]
                   ELSE [tasks[r] EXCEPT !.waiting =
                           @ \union (Listening[r] \intersect revents[f]) \union close(r)]]
       IN /\ Fire(T, watches, On(f), f)
          /\ revents' = [revents EXCEPT ![f] = {}]
          /\ dirty' = (dirty \/ \A r \in Reaction : tasks[r].in => Descriptor[r] < f)
    /\ UNCHANGED <<running, pipe, locks, polled, enabled, ran, bound>>

EndOfPass ==
    /\ pc = "pass" /\ revents = NoEvents /\ pc' = "top" /\ mutex' = Free
    /\ UNCHANGED <<tasks, watches, dirty, running, pipe, polled, revents, users>>

Poller == Top \/ Rebuild \/ Enter \/ Return \/ Collect \/ ProcessEvent \/ EndOfPass
-----------------------------------------------------------------------------
(* The callback of a task runs; one of on<IO> may read what there is.              *)
Run(r) ==
    /\ flight[r] > 0
    /\ flight' = [flight EXCEPT ![r] = @ - 1] /\ ran' = [ran EXCEPT ![r] = @ + 1]
    /\ \/ UNCHANGED world
       \/ /\ r \notin Receivers /\ world[Descriptor[r]] \in {"data", "empty"}
          /\ world' = [world EXCEPT ![Descriptor[r]] = "idle"]
    /\ UNCHANGED <<tasks, watches, dirty, running, pipe, locks, polled, revents, enabled, bound>>

(* A datagram is sent to the socket, by emit<UDP> of this program or of another.    *)
EmitUDP(f) ==
    /\ f \in Sockets /\ world[f] = "idle"
    /\ \E d \in Readable : world' = [world EXCEPT ![f] = d]
    /\ UNCHANGED <<tasks, watches, dirty, running, pipe, locks, polled, revents,
                   enabled, flight, ran, bound>>

(* Data arrives, the other end closes, the connection is torn down, or the         *)
(* application closes the descriptor.                                             *)
Change(f) ==
    /\ f \notin Sockets /\ world[f] \in Open
    /\ \E s \in {"data", "empty", "eof", "hup", "shut"} :
          /\ s \in {"data", "empty"} => world[f] = "idle" /\ s \in Readable
          /\ world' = [world EXCEPT ![f] = s]
    /\ UNCHANGED <<tasks, watches, dirty, running, pipe, locks, polled, revents,
                   enabled, flight, ran, bound>>

(* ReactionHandle::disable() and enable().                                         *)
Switch(r) ==
    /\ r \in MayRefuse /\ enabled' = [enabled EXCEPT ![r] = ~@]
    /\ UNCHANGED <<tasks, watches, dirty, running, pipe, locks, polled, revents,
                   world, flight, ran, bound>>

Report(r) == Bumped(r) \/ Finish(r) \/ Unmask(r) \/ Run(r)
Next == Poller \/ Shutdown \/ (\E f \in Fd : EmitUDP(f) \/ Change(f))
        \/ \E r \in Reaction : OpenSocket(r) \/ Bind(r) \/ CloseSocket(r) \/ Unbind(r)
                                \/ Switch(r) \/ Report(r)
Spec == Init /\ [][Next]_vars
(* The poll thread and the threads of the tasks keep going; nobody has to bind, to  *)
(* unbind or to send.                                                             *)
FairSpec == Spec /\ WF_vars(Poller) /\ \A r \in Reaction : WF_vars(Report(r))
-----------------------------------------------------------------------------
MayBeRefused(r) == r \in MayRefuse \/ (r \in Receivers /\ ~(Readable \subseteq Wanted[Word[r]]))

TypeOK ==
    /\ tasks \in [Reaction -> [in : BOOLEAN, waiting : SUBSET Events, processing : SUBSET Events]]
    /\ DOMAIN watches \subseteq Fd /\ \A f \in DOMAIN watches : watches[f] \subseteq Events
    /\ dirty \in BOOLEAN /\ running \in BOOLEAN /\ pipe \in 0..MaxBytes
    /\ mutex.who \in Reaction \union {None}
    /\ mutex.does \in {"nothing", "pass", "return", "finish", "unmask"}
    /\ pc \in {"top", "rebuild", "lock", "polling", "returned", "pass", "stopped"}
    /\ revents \in [Fd -> SUBSET Events]
    /\ world \in [Fd -> Open \union {"eof", "hup", "shut"}]
    /\ flight \in [Reaction -> Nat] /\ ran \in [Reaction -> Nat]

(* While a reaction processes an event no other task of it exists (IO.hpp:91), and  *)
(* processing_events says exactly whether one does.                               *)
OneAtATime == \A r \in Reaction :
    /\ flight[r] + ran[r] <= 1
    /\ tasks[r].in /\ mutex.who # r =>
          (tasks[r].processing # {} <=> flight[r] + ran[r] = 1)

(* An event is masked from poll() only while a task of that descriptor processes    *)
(* it, or has it waiting behind one it processes, or was refused: whatever else a   *)
(* reaction listens to is watched, or will be when the list is rebuilt, and poll()  *)
(* returns for that (IOController_Posix.ipp:28-53, 209-226).                       *)
Watchful == \A r \in Reaction, e \in Events :
    tasks[r].in /\ bound[r] = "bound" /\ e \in Listening[r] /\ mutex = Free /\ ~dirty
    => LET f == Descriptor[r] IN
       /\ f \in DOMAIN watches
       /\ e \in watches[f] \/ \E q \in On(f) :
             e \in Busy(q) /\ (tasks[q].processing # {} \/ MayBeRefused(q))

(* A task leaves the list only when it is unbound or its descriptor was closed.    *)
RemovedOnlyIfClosed == [][\A r \in Reaction :
    tasks[r].in /\ ~tasks'[r].in =>
        bound[r] # "bound" \/ bound'[r] # "bound" \/ world[Descriptor[r]] \notin Open]_vars

(* on<IO> is triggered when there is data to read (IO.hpp:79): data that stays is   *)
(* reported to a reaction that waits for it, unless get_task() refused an event    *)
(* of it, which then stays in waiting_events and masks those to come.             *)
Hears(r) == tasks[r].in /\ enabled[r] /\ running /\ "read" \in Listening[r]
            /\ world[Descriptor[r]] = "data"
Refused(r) == MayBeRefused(r) /\ mutex = Free /\ tasks[r].processing = {} /\ tasks[r].waiting # {}
EventsFire == \A r \in Reaction :
    Hears(r) ~> (~Hears(r) \/ flight[r] + ran[r] > 0 \/ Refused(r))

(* ... and so it is meant to be for every event (IO.hpp:79).                       *)
EveryEventFires == \A r \in Reaction : Hears(r) ~> (~Hears(r) \/ flight[r] + ran[r] > 0)

(* The poll thread ends after Shutdown.                                            *)
ShutdownStops == ~running ~> pc = "stopped"
=============================================================================
