---------------------------- MODULE NodeBinding ----------------------------
(* The Node addon: the class NUClearNet (index.js), the binding it owns           *)
(* (NetworkBinding.cpp) and the workers that poll its sockets (NetworkListener). *)
(*                                                                               *)
(* JavaScript runs on one thread: a method that the application calls, a timer,  *)
(* a call that was queued by a thread safe function, or a progress callback is   *)
(* one step.  The listeners run beside it on threads of libuv.                   *)
EXTENDS Naturals, FiniteSets, FiniteSetsExt, Functions

CONSTANTS
    Event,        \* the names an application listens to
    Special,      \* those that name no message: nuclear_join, nuclear_packet, ...
    Key,          \* Key[e]: what the hash of e becomes as the name of a property
    None,         \* no descriptor, no name
    Fd,           \* descriptor numbers; one stands for the two sockets of a reset()
    Listener,     \* the NetworkListener objects, in the order of their creation
    Workers,      \* threads of the pool that runs them
    MayFail,      \* what may fail: "arguments", "reset", "announce"
    MaxHandlers,  \* Bound: listeners of one event
    MaxCalls,     \* Bound: calls of one kind that are queued
    MaxTimers     \* Bound: timers

ASSUME BindingAssumption ==
    /\ Special \subseteq Event /\ Key \in [Event -> Event] /\ IsInjective(Key)
    /\ None \notin Event /\ None \notin Fd /\ Fd # {}
    /\ Listener \subseteq Nat /\ Workers \in Nat \ {0} /\ MaxHandlers \in Nat
    /\ MaxCalls \in Nat \ {0} /\ MaxTimers \in Nat \ {0}

VARIABLES
    js,        \* _active, _waiting, _destroyed; hooked: the constructor's own listeners
    handlers,  \* how many listeners each event has
    callbackMap,
    timers,    \* those of _onWait: ripe ones may fire, the others wait for an announce
    net,       \* the sockets of the NUClearNetwork, announce due, callbacks set
    calls,     \* the queues of the thread safe functions
    listener,  \* the state of each NetworkListener
    told,      \* history: the last connect() threw
    exited     \* an exception left a timer: the process is over

vars == <<js, handlers, callbackMap, timers, net, calls, listener, told, exited>>

(* The kinds of queued calls: "event" is one of on_packet, on_join and on_leave,   *)
(* "soon" and "later" are on_wait for a retransmission and for an announce.       *)
Kind == {"event", "soon", "later"}

(* hash(): xxhash64 of the name, as a Buffer, which becomes a property name.       *)
Hash(e) == Key[e]
Forgotten == [k \in Range(Key) |-> None]

Init ==
    /\ js = [active |-> FALSE, waiting |-> 0, destroyed |-> FALSE, hooked |-> TRUE]
    /\ handlers = [e \in Event |-> 0]
    /\ callbackMap = Forgotten
    /\ timers = [ripe |-> 0, unripe |-> 0]
    /\ net = [fd |-> None, due |-> TRUE, callbacks |-> TRUE]
    /\ calls = [k \in Kind |-> 0]
    /\ listener = [i \in Listener |-> [at |-> "none", fd |-> None, signalled |-> FALSE]]
    /\ told = FALSE /\ exited = FALSE
-----------------------------------------------------------------------------
(* NUClearNetwork::process(): the network, the calls and whether it threw.  An    *)
(* announce that fails leaves last_announce set and no next event; without        *)
(* sockets it fails unless there is no target either.  Whatever else happens may  *)
(* queue one call: on_wait for a retransmission ("soon"), or an event.            *)
Queue(q, k) == IF net.callbacks /\ q[k] < MaxCalls THEN [q EXCEPT ![k] = @ + 1] ELSE q

Rest(n, q) == {[net |-> n, calls |-> c, threw |-> FALSE] :
                  c \in {q} \union {Queue(q, k) : k \in Kind \ {"later"}}}

AnnounceFails(n) == "announce" \in MayFail \/ n.fd = None

Process(n) ==
    LET after == [n EXCEPT !.due = FALSE] IN
    IF ~n.due THEN Rest(n, calls)
    ELSE Rest(after, Queue(calls, "later"))
         \union IF AnnounceFails(n)
                THEN {[net |-> after, calls |-> calls, threw |-> TRUE]} ELSE {}

(* Whatever index.js does is over when an exception has ended the process.        *)
Alive == ~exited
-----------------------------------------------------------------------------
(* on(), addListener(): the newListener handler remembers the name by its hash.    *)
On(e) ==
    /\ Alive /\ ~js.destroyed /\ handlers[e] < MaxHandlers
    /\ callbackMap' = IF js.hooked /\ e \notin Special /\ handlers[e] = 0
                      THEN [callbackMap EXCEPT ![Hash(e)] = e] ELSE callbackMap
    /\ handlers' = [handlers EXCEPT ![e] = @ + 1]
    /\ UNCHANGED <<js, timers, net, calls, listener, told, exited>>

LastOf(e) == handlers[e] = 1

(* removeListener(): the removeListener handler forgets it with the last one.      *)
RemoveListener(e) ==
    /\ Alive /\ handlers[e] > 0
    /\ callbackMap' = IF js.hooked /\ e \notin Special /\ LastOf(e)
                      THEN [callbackMap EXCEPT ![Hash(e)] = None] ELSE callbackMap
    /\ handlers' = [handlers EXCEPT ![e] = @ - 1]
    /\ UNCHANGED <<js, timers, net, calls, listener, told, exited>>

(* The removeAllListeners() of EventEmitter, which removes the constructor's own   *)
(* two listeners as well, theirs last.                                            *)
Unheard == [k \in DOMAIN callbackMap |->
    IF js.hooked /\ \E e \in Event \ Special : handlers[e] > 0 /\ Hash(e) = k
    THEN None ELSE callbackMap[k]]

RemoveAllListeners ==
    /\ Alive
    /\ handlers' = [e \in Event |-> 0] /\ callbackMap' = Unheard
    /\ js' = [js EXCEPT !.hooked = FALSE]
    /\ UNCHANGED <<timers, net, calls, listener, told, exited>>

\* Mutant of Closed: the sockets stay open.
ClosedMutant(n) == n
Closed(n) == [n EXCEPT !.fd = None]

(* open_data() and open_announce(); either may throw.                             *)
Opened(n, fd) == [n EXCEPT !.fd = fd]
Unopened(n) == Closed(n)

(* The NetworkListener of a reset(), which watches listen_fds().                   *)
NewListener(fd) == [at |-> "queued", fd |-> fd, signalled |-> FALSE]

\* Mutant of Silent: the callbacks of the network are kept.
SilentMutant(n) == n
Silent(n) == [n EXCEPT !.callbacks = FALSE]

(* connect().  The binding checks the arguments, resets the network, which closes  *)
(* the old sockets first, and queues a listener; then process() runs.  All of     *)
(* these may throw, with _active set already.                                     *)
ConnectFails ==
    /\ Alive /\ ~js.destroyed
    /\ js' = [js EXCEPT !.active = TRUE] /\ told' = TRUE
    /\ \/ "arguments" \in MayFail /\ UNCHANGED net
       \/ "reset" \in MayFail /\ net' = Unopened(net)
    /\ UNCHANGED <<handlers, callbackMap, timers, calls, listener, exited>>

Unused == {i \in Listener : listener[i].at = "none"}
Connect(fd) ==
    /\ Alive /\ ~js.destroyed /\ Unused # {}
    /\ js' = [js EXCEPT !.active = TRUE]
    /\ LET i == Min(Unused) IN
          listener' = [listener EXCEPT ![i] = NewListener(fd)]
    /\ \E r \in Process(Opened(net, fd)) :
          net' = r.net /\ calls' = r.calls /\ told' = r.threw
    /\ UNCHANGED <<handlers, callbackMap, timers, exited>>

Disconnect ==
    /\ Alive /\ ~js.destroyed
    /\ js' = [js EXCEPT !.active = FALSE] /\ told' = FALSE
    /\ net' = Closed(net)
    /\ UNCHANGED <<handlers, callbackMap, timers, calls, listener, exited>>

(* send() throws unless it is active and its arguments are valid; a reliable       *)
(* message wants to be resent soon.                                               *)
MaySend == Alive /\ ~js.destroyed /\ js.active
Send ==
    /\ MaySend
    /\ calls' = Queue(calls, "soon")
    /\ UNCHANGED <<js, handlers, callbackMap, timers, net, listener, told, exited>>

(* destroy(), once: a second call would use the released thread safe functions.    *)
Destroy ==
    /\ Alive /\ ~js.destroyed
    /\ js' = [js EXCEPT !.active = FALSE, !.hooked = FALSE, !.destroyed = TRUE]
    /\ handlers' = [e \in Event |-> 0]
    /\ callbackMap' = Forgotten
    /\ net' = Silent(IF js.active THEN Closed(net) ELSE net)
    /\ told' = FALSE
    /\ UNCHANGED <<timers, calls, listener, exited>>
-----------------------------------------------------------------------------
(* _onPacket(), _onJoin(), _onLeave(): handlers run; nothing else changes.         *)
Deliver ==
    /\ Alive /\ calls["event"] > 0
    /\ calls' = [calls EXCEPT !["event"] = @ - 1]
    /\ UNCHANGED <<js, handlers, callbackMap, timers, net, listener, told, exited>>

\* Mutant of Count: _waiting is not counted up.
CountMutant(j) == j
Count(j) == [j EXCEPT !.waiting = @ + 1]

(* _onWait().  A timer for an announce fires after the announce is due.            *)
OnWait(k) ==
    /\ Alive /\ k \in {"soon", "later"} /\ calls[k] > 0 /\ js.waiting < MaxTimers
    /\ calls' = [calls EXCEPT ![k] = @ - 1]
    /\ js' = Count(js)
    /\ timers' = IF k = "soon" THEN [timers EXCEPT !.ripe = @ + 1]
                 ELSE [timers EXCEPT !.unripe = @ + 1]
    /\ UNCHANGED <<handlers, callbackMap, net, listener, told, exited>>

\* Mutant of Restart: the chain is not started again.
RestartMutant(active, waiting) == 0
Restart(active, waiting) == IF active /\ waiting = 0 THEN 1 ELSE 0

(* The function that _onWait() gives to setTimeout().                              *)
FireTimer ==
    /\ Alive /\ timers.ripe > 0
    /\ \E r \in IF js.active THEN Process(net)
                ELSE {[net |-> net, calls |-> calls, threw |-> FALSE]} :
          LET again == IF r.threw THEN 0 ELSE Restart(js.active, js.waiting - 1) IN
          /\ net' = r.net /\ calls' = r.calls /\ exited' = r.threw
          /\ js' = [js EXCEPT !.waiting = @ - 1 + again]
          /\ timers' = [timers EXCEPT !.ripe = @ - 1 + again]
    /\ UNCHANGED <<handlers, callbackMap, listener, told>>

(* 500 ms pass.                                                                   *)
TimePasses ==
    /\ Alive /\ (~net.due \/ timers.unripe > 0)
    /\ net' = [net EXCEPT !.due = TRUE]
    /\ timers' = [ripe |-> timers.ripe + timers.unripe, unripe |-> 0]
    /\ UNCHANGED <<js, handlers, callbackMap, calls, listener, told, exited>>

(* NetworkListener::OnProgress(), on the JavaScript thread; exceptions are dropped. *)
OnProgress(i) ==
    /\ Alive /\ listener[i].signalled
    /\ listener' = [listener EXCEPT ![i].signalled = FALSE]
    /\ \E r \in Process(net) : net' = r.net /\ calls' = r.calls
    /\ UNCHANGED <<js, handlers, callbackMap, timers, told, exited>>
-----------------------------------------------------------------------------
Polling(i) == listener[i].at \in {"loop", "quiet", "data", "invalid"}
Moves(i, at) ==
    /\ listener' = [listener EXCEPT ![i].at = at, ![i].fd = IF at = "ended" THEN None ELSE @]
    /\ UNCHANGED <<js, handlers, callbackMap, timers, net, calls, told, exited>>

(* The worker gets a thread of the pool.                                          *)
Start(i) ==
    /\ Alive /\ listener[i].at = "queued"
    /\ Cardinality({j \in Listener : Polling(j)}) < Workers
    /\ Moves(i, "loop")

(* The test of Execute()'s loop, and poll(), which is done after 500 ms at latest.  *)
(* It tells by its number whether a descriptor is open.                           *)
Poll(i) ==
    /\ Alive /\ listener[i].at = "loop"
    /\ \/ js.destroyed /\ Moves(i, "ended")
       \/ ~js.destroyed /\ listener[i].fd # net.fd /\ Moves(i, "invalid")
       \/ /\ ~js.destroyed /\ listener[i].fd = net.fd
          /\ \E seen \in {"quiet", "data"} : Moves(i, seen)

\* Mutants of Ends: a poll() that times out ends the loop; none does.
EndsQuietMutant(at) == at \in {"invalid", "quiet"}
EndsNeverMutant(at) == FALSE
Ends(at) == at = "invalid"

(* What Execute() does with the outcome.                                          *)
Check(i) ==
    /\ Alive
    /\ listener[i].at \in {"invalid", "quiet", "data"}
    /\ \/ Ends(listener[i].at) /\ Moves(i, "ended")
       \/ ~Ends(listener[i].at) /\ listener[i].at # "data" /\ Moves(i, "loop")
       \/ /\ ~Ends(listener[i].at) /\ listener[i].at = "data"
          /\ listener' = [listener EXCEPT ![i].at = "loop", ![i].signalled = TRUE]
          /\ UNCHANGED <<js, handlers, callbackMap, timers, net, calls, told, exited>>

Application ==
    \/ \E e \in Event : On(e) \/ RemoveListener(e)
    \/ RemoveAllListeners \/ ConnectFails \/ Disconnect \/ Send \/ Destroy
    \/ \E fd \in Fd : Connect(fd)
Clock == OnWait("soon") \/ OnWait("later") \/ FireTimer \/ TimePasses
Work(i) == Start(i) \/ Poll(i) \/ Check(i)
Next == Application \/ Clock \/ Deliver
        \/ (\E i \in Listener : OnProgress(i) \/ Work(i))

Spec == Init /\ [][Next]_vars
(* The event loop gets to its timers and queues, and a thread of the pool that     *)
(* runs goes on; the application may stop calling at any time.                    *)
FairSpec == Spec /\ WF_vars(OnWait("soon")) /\ WF_vars(OnWait("later"))
                 /\ WF_vars(FireTimer) /\ WF_vars(TimePasses)
                 /\ \A i \in Listener : WF_vars(Work(i))
-----------------------------------------------------------------------------
TypeOK ==
    /\ js \in [active : BOOLEAN, waiting : Nat, destroyed : BOOLEAN, hooked : BOOLEAN]
    /\ handlers \in [Event -> Nat]
    /\ callbackMap \in [Range(Key) -> Event \union {None}]
    /\ timers \in [ripe : Nat, unripe : Nat] /\ js.waiting = timers.ripe + timers.unripe
    /\ net \in [fd : Fd \union {None}, due : BOOLEAN, callbacks : BOOLEAN]
    /\ calls \in [Kind -> Nat]
    /\ listener \in [Listener ->
         [at : {"none", "queued", "loop", "quiet", "data", "invalid", "ended"},
          fd : Fd \union {None}, signalled : BOOLEAN]]
    /\ told \in BOOLEAN /\ exited \in BOOLEAN

(* Sockets are open only while _active, and _active without sockets is the trace   *)
(* of a connect() whose exception the application has seen (index.js:156-168).     *)
OpenIsActive == /\ net.fd # None => js.active
                /\ js.active /\ net.fd = None => told

(* Open sockets are watched: a listener that polls their numbers is queued or       *)
(* running and has not seen them closed, whichever connections came before         *)
(* (NetworkBinding.cpp:254-274, NetworkListener.cpp:73-134).                       *)
Watched ==
    net.fd # None => \E i \in Listener :
        listener[i].fd = net.fd /\ listener[i].at \in {"queued", "loop", "quiet", "data"}

(* After destroy() nothing is queued for JavaScript and no listener comes back:    *)
(* a listener that had seen data may still run process(), to no effect             *)
(* (NetworkBinding.cpp:300-323, index.js:185-199).                                *)
NothingAfterDestroy ==
    [][js.destroyed => /\ \A k \in Kind : calls'[k] <= calls[k]
                       /\ handlers' = handlers /\ net'.fd = None]_vars

(* While connected the chain of timers does not break: as long as a timer runs or   *)
(* on_wait is queued, no step but an uncaught exception leaves none (index.js:130). *)
Chained == js.waiting + calls["soon"] + calls["later"] > 0
ChainKept == [][Chained /\ js.active /\ js'.active /\ ~exited' => Chained']_vars

(* When the application has disconnected for good every listener ends, however     *)
(* many connections came before (NetworkListener.cpp:118-125).                     *)
ListenersEnd == <>[](net.fd = None) =>
                <>[](exited \/ \A i \in Listener : listener[i].at \in {"none", "ended"})
=============================================================================
