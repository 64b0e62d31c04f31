------------------------- MODULE NodeBindingProofs -------------------------
(* What holds of the Node addon for any application, any number of connections,     *)
(* descriptors and workers, and any bounds: its types, that open sockets are          *)
(* watched, that a network without sockets is one the application was told of, that    *)
(* destroy() ends everything, and that the chain of timers does not break.            *)
EXTENDS NodeBinding, WellFoundedInduction, TLAPS

Net == [fd : Fd \union {None}, due : BOOLEAN, callbacks : BOOLEAN]

(* After destroy() the sockets are closed, the callbacks gone and nobody listens.     *)
DestroyedIsQuiet == js.destroyed =>
    /\ ~js.active /\ net.fd = None /\ ~net.callbacks
    /\ \A e \in Event : handlers[e] = 0

Inv == TypeOK /\ OpenIsActive /\ DestroyedIsQuiet /\ Watched
-----------------------------------------------------------------------------
(* The next listener is one of those not used yet.                                  *)
Less == {ss \in Nat \X Nat : ss[1] < ss[2]}

LEMMA MinIsMember == ASSUME NEW S, S \subseteq Nat, S # {} PROVE Min(S) \in S
<1>1. IsWellFoundedOn(Less, Nat)
  BY NatLessThanWellFounded DEF OpToRel, Less
<1>2. \E x \in S : \A y \in S : ~ (<<y, x>> \in Less)
  BY <1>1, WFMin
<1>3. \A x, y \in Nat : ~ (<<y, x>> \in Less) => x =< y
  BY DEF Less
<1>4. \E x \in S : \A y \in S : x =< y
  BY <1>2, <1>3
<1>5. QED
  BY <1>4 DEF Min

(* A call is queued, or it is not.                                                 *)
LEMMA QueueResult ==
  ASSUME NEW q \in [Kind -> Nat], NEW k \in Kind
  PROVE /\ Queue(q, k) \in [Kind -> Nat]
        /\ \A c \in Kind : Queue(q, k)[c] >= q[c]
        /\ ~net.callbacks => Queue(q, k) = q
  BY DEF Queue

LEMMA RestResult ==
  ASSUME NEW m, NEW q \in [Kind -> Nat], NEW x \in Rest(m, q)
  PROVE /\ x.net = m /\ x.threw \in BOOLEAN /\ x.calls \in [Kind -> Nat]
        /\ \A c \in Kind : x.calls[c] >= q[c]
        /\ ~net.callbacks => x.calls = q
<1>1. PICK c \in {q} \union {Queue(q, k) : k \in Kind \ {"later"}} :
         x = [net |-> m, calls |-> c, threw |-> FALSE]
  BY DEF Rest
<1>2. \/ c = q
      \/ \E k \in Kind : c = Queue(q, k)
  OBVIOUS
<1>3. c \in [Kind -> Nat] /\ \A k \in Kind : c[k] >= q[k]
  BY <1>2, QueueResult
<1>4. ~net.callbacks => c = q
  BY <1>2, QueueResult
<1>5. x.net = m /\ x.threw \in BOOLEAN /\ x.calls = c
  BY <1>1
<1>6. QED
  BY <1>3, <1>4, <1>5

(* process() leaves the sockets and callbacks alone, and takes no call out of a queue. *)
LEMMA ProcessResult ==
  ASSUME NEW n \in Net, calls \in [Kind -> Nat], NEW r \in Process(n)
  PROVE /\ r.net \in Net /\ r.net.fd = n.fd /\ r.net.callbacks = n.callbacks
        /\ r.calls \in [Kind -> Nat] /\ r.threw \in BOOLEAN
        /\ \A c \in Kind : r.calls[c] >= calls[c]
        /\ ~net.callbacks => r.calls = calls
<1> DEFINE after == [n EXCEPT !.due = FALSE]
           q == Queue(calls, "later")
<1>1. after \in Net /\ after.fd = n.fd /\ after.callbacks = n.callbacks
  BY DEF Net
<1>2. \/ r \in Rest(n, calls)
      \/ r \in Rest(after, q)
      \/ r = [net |-> after, calls |-> calls, threw |-> TRUE]
  BY DEF Process
<1>3. q \in [Kind -> Nat] /\ (\A c \in Kind : q[c] >= calls[c]) /\ (~net.callbacks => q = calls)
  BY QueueResult DEF Kind
<1> HIDE DEF after, q
<1>4. r.net = n \/ r.net = after
  BY <1>2, <1>3, RestResult
<1>5. r.threw \in BOOLEAN
  <2>1. CASE r = [net |-> after, calls |-> calls, threw |-> TRUE]
    BY <2>1
  <2>2. QED
    BY <1>2, <1>3, <2>1, RestResult, Zenon
<1>6. r.calls \in [Kind -> Nat]
  BY <1>2, <1>3, RestResult
<1>7. \A c \in Kind : r.calls[c] >= calls[c]
  <2>1. CASE r \in Rest(n, calls)
    BY <2>1, RestResult
  <2>2. CASE r \in Rest(after, q)
    <3>1. \A c \in Kind : r.calls[c] >= q[c]
      BY <2>2, <1>3, RestResult
    <3>2. QED
      BY <3>1, <1>3, <1>6
  <2>3. CASE r = [net |-> after, calls |-> calls, threw |-> TRUE]
    <3>1. r.calls = calls
      BY <2>3
    <3>2. QED
      BY <3>1
  <2>4. QED
    BY <1>2, <2>1, <2>2, <2>3
<1>8. ~net.callbacks => r.calls = calls
  BY <1>2, <1>3, RestResult
<1>9. r.net \in Net /\ r.net.fd = n.fd /\ r.net.callbacks = n.callbacks
  BY <1>1, <1>4
<1>10. QED
  BY <1>5, <1>6, <1>7, <1>8, <1>9
-----------------------------------------------------------------------------
(* The types.  Only a few of the variables change in a step.                         *)
JsOK == js \in [active : BOOLEAN, waiting : Nat, destroyed : BOOLEAN, hooked : BOOLEAN]
ListenersOK == listener \in [Listener ->
    [at : {"none", "queued", "loop", "quiet", "data", "invalid", "ended"},
     fd : Fd \union {None}, signalled : BOOLEAN]]
TimersOK == timers \in [ripe : Nat, unripe : Nat] /\ js.waiting = timers.ripe + timers.unripe
MapOK == callbackMap \in [Range(Key) -> Event \union {None}]

LEMMA TypeParts == TypeOK <=> /\ JsOK /\ TimersOK /\ MapOK /\ ListenersOK
                              /\ handlers \in [Event -> Nat] /\ net \in Net
                              /\ calls \in [Kind -> Nat]
                              /\ told \in BOOLEAN /\ exited \in BOOLEAN
  BY DEF TypeOK, JsOK, TimersOK, MapOK, ListenersOK, Net

LEMMA InitInv == Init => Inv
<1> SUFFICES ASSUME Init PROVE Inv
  OBVIOUS
<1>1. JsOK /\ net \in Net /\ net.fd = None /\ js.active = FALSE
  BY DEF Init, JsOK, Net
<1>2. TimersOK
  BY DEF Init, TimersOK
<1>3. MapOK /\ ListenersOK
  BY DEF Init, MapOK, ListenersOK, Forgotten
<1>4. handlers \in [Event -> Nat] /\ calls \in [Kind -> Nat] /\ told \in BOOLEAN /\ exited \in BOOLEAN
  BY DEF Init
<1>5. TypeOK
  BY <1>1, <1>2, <1>3, <1>4, TypeParts
<1>6. ~js.destroyed
  BY DEF Init
<1>7. OpenIsActive /\ DestroyedIsQuiet /\ Watched
  BY <1>1, <1>6 DEF OpenIsActive, DestroyedIsQuiet, Watched
<1>8. QED
  BY <1>5, <1>7 DEF Inv
-----------------------------------------------------------------------------
(* The types are kept by each step.                                                *)
LEMMA HandlersTypes ==
  ASSUME TypeOK, NEW e \in Event, On(e) \/ RemoveListener(e)
  PROVE  TypeOK'
<1>1. handlers' \in [Event -> Nat]
  BY TypeParts DEF On, RemoveListener
<1>2. MapOK'
  BY TypeParts DEF MapOK, On, RemoveListener
<1>3. /\ UNCHANGED <<js, timers, net, calls, listener, told, exited>>
  BY DEF On, RemoveListener
<1>4. QED
  BY <1>1, <1>2, <1>3 DEF TypeOK, MapOK

LEMMA ApplicationTypes ==
  ASSUME TypeOK,
         \/ RemoveAllListeners \/ ConnectFails \/ Disconnect \/ Send \/ Destroy
         \/ \E fd \in Fd : Connect(fd)
  PROVE  TypeOK'
<1>0. /\ JsOK /\ TimersOK /\ MapOK /\ ListenersOK /\ handlers \in [Event -> Nat] /\ net \in Net
      /\ calls \in [Kind -> Nat] /\ told \in BOOLEAN /\ exited \in BOOLEAN
  BY TypeParts
<1>1. JsOK' /\ js'.waiting = js.waiting
  BY <1>0 DEF JsOK, RemoveAllListeners, ConnectFails, Disconnect, Send, Destroy, Connect
<1>2. TimersOK'
  BY <1>0, <1>1 DEF TimersOK, RemoveAllListeners, ConnectFails, Disconnect, Send, Destroy, Connect
<1>3. MapOK'
  BY <1>0 DEF MapOK, RemoveAllListeners, ConnectFails, Disconnect, Send, Destroy, Connect,
              Unheard, Forgotten
<1>4. ListenersOK'
  <2>1. ASSUME NEW fd \in Fd, Connect(fd) PROVE ListenersOK'
    <3>1. NewListener(fd) \in [at : {"none", "queued", "loop", "quiet", "data", "invalid", "ended"},
                               fd : Fd \union {None}, signalled : BOOLEAN]
      BY DEF NewListener
    <3>2. QED
      BY <1>0, <2>1, <3>1 DEF ListenersOK, Connect
  <2>2. ASSUME UNCHANGED listener PROVE ListenersOK'
    BY <1>0, <2>2 DEF ListenersOK
  <2>3. QED
    BY <2>1, <2>2 DEF RemoveAllListeners, ConnectFails, Disconnect, Send, Destroy
<1>5. handlers' \in [Event -> Nat]
  BY <1>0 DEF RemoveAllListeners, ConnectFails, Disconnect, Send, Destroy, Connect
<1>6. net' \in Net /\ calls' \in [Kind -> Nat] /\ told' \in BOOLEAN
  <2>1. CASE RemoveAllListeners \/ ConnectFails \/ Disconnect
    BY <2>1, <1>0 DEF Net, RemoveAllListeners, ConnectFails, Disconnect, Closed, Unopened
  <2>2. CASE Send
    BY <2>2, <1>0, QueueResult DEF Send, Kind
  <2>3. CASE Destroy
    BY <2>3, <1>0 DEF Net, Destroy, Closed, Silent
  <2>4. ASSUME NEW fd \in Fd, Connect(fd) PROVE net' \in Net /\ calls' \in [Kind -> Nat] /\ told' \in BOOLEAN
    <3>1. Opened(net, fd) \in Net
      BY <1>0 DEF Net, Opened
    <3>2. PICK r \in Process(Opened(net, fd)) : net' = r.net /\ calls' = r.calls /\ told' = r.threw
      BY <2>4 DEF Connect
    <3>3. QED
      BY <1>0, <3>1, <3>2, ProcessResult
  <2>5. QED
    BY <2>1, <2>2, <2>3, <2>4
<1>7. exited' \in BOOLEAN
  BY <1>0 DEF RemoveAllListeners, ConnectFails, Disconnect, Send, Destroy, Connect
<1>8. QED
  BY <1>1, <1>2, <1>3, <1>4, <1>5, <1>6, <1>7
     DEF TypeOK, JsOK, TimersOK, MapOK, ListenersOK, Net

LEMMA ClockTypes ==
  ASSUME TypeOK, Clock \/ Deliver PROVE TypeOK'
<1>0. /\ JsOK /\ TimersOK /\ MapOK /\ ListenersOK /\ handlers \in [Event -> Nat] /\ net \in Net
      /\ calls \in [Kind -> Nat] /\ told \in BOOLEAN /\ exited \in BOOLEAN
  BY TypeParts
<1>1. UNCHANGED <<handlers, callbackMap, listener, told>>
  BY DEF Clock, Deliver, OnWait, FireTimer, TimePasses
<1> SUFFICES JsOK' /\ TimersOK' /\ net' \in Net /\ calls' \in [Kind -> Nat] /\ exited' \in BOOLEAN
  BY <1>0, <1>1 DEF TypeOK, JsOK, TimersOK, MapOK, ListenersOK, Net
<1>2. CASE Deliver
  BY <1>0, <1>2 DEF Deliver, Kind, JsOK, TimersOK
<1>3. ASSUME NEW k \in {"soon", "later"}, OnWait(k)
      PROVE  JsOK' /\ TimersOK' /\ net' \in Net /\ calls' \in [Kind -> Nat] /\ exited' \in BOOLEAN
  <2>1. calls' \in [Kind -> Nat] /\ net' \in Net /\ exited' \in BOOLEAN
    BY <1>0, <1>3 DEF OnWait, Kind
  <2>2. JsOK' /\ js'.waiting = js.waiting + 1
    BY <1>0, <1>3 DEF OnWait, Count, JsOK
  <2>3. TimersOK'
    BY <1>0, <1>3, <2>2 DEF OnWait, TimersOK, JsOK
  <2>4. QED
    BY <2>1, <2>2, <2>3
<1>4. CASE FireTimer
  <2>1. PICK r \in IF js.active THEN Process(net)
                   ELSE {[net |-> net, calls |-> calls, threw |-> FALSE]} :
          LET again == IF r.threw THEN 0 ELSE Restart(js.active, js.waiting - 1) IN
          /\ net' = r.net /\ calls' = r.calls /\ exited' = r.threw
          /\ js' = [js EXCEPT !.waiting = @ - 1 + again]
          /\ timers' = [timers EXCEPT !.ripe = @ - 1 + again]
    BY <1>4 DEF FireTimer
  <2>2. r.net \in Net /\ r.calls \in [Kind -> Nat] /\ r.threw \in BOOLEAN
    <3>1. CASE js.active
      BY <2>1, <3>1, <1>0, ProcessResult
    <3>2. CASE r = [net |-> net, calls |-> calls, threw |-> FALSE]
      BY <3>2, <1>0
    <3>3. QED
      BY <2>1, <3>1, <3>2
  <2>3. PICK again \in {0, 1} : /\ js' = [js EXCEPT !.waiting = @ - 1 + again]
                                /\ timers' = [timers EXCEPT !.ripe = @ - 1 + again]
    BY <2>1 DEF Restart
  <2>4. timers.ripe \in Nat \ {0} /\ js.waiting \in Nat \ {0}
    BY <1>0, <1>4 DEF FireTimer, TimersOK
  <2>5. JsOK' /\ TimersOK'
    BY <1>0, <2>3, <2>4 DEF JsOK, TimersOK
  <2>6. QED
    BY <2>1, <2>2, <2>5
<1>5. CASE TimePasses
  <2>1. net' \in Net /\ UNCHANGED <<js, calls, exited>>
    BY <1>0, <1>5 DEF TimePasses, Net
  <2>2. TimersOK'
    BY <1>0, <1>5, <2>1 DEF TimePasses, TimersOK
  <2>3. QED
    BY <1>0, <2>1, <2>2 DEF JsOK
<1>6. QED
  BY <1>2, <1>3, <1>4, <1>5 DEF Clock

LEMMA ListenerTypes ==
  ASSUME TypeOK, NEW i \in Listener, OnProgress(i) \/ Work(i) PROVE TypeOK'
<1>0. /\ JsOK /\ TimersOK /\ MapOK /\ ListenersOK /\ handlers \in [Event -> Nat] /\ net \in Net
      /\ calls \in [Kind -> Nat] /\ told \in BOOLEAN /\ exited \in BOOLEAN
  BY TypeParts
<1>1. UNCHANGED <<js, handlers, callbackMap, timers, told, exited>>
  BY DEF OnProgress, Work, Start, Poll, Check, Moves
<1> SUFFICES ListenersOK' /\ net' \in Net /\ calls' \in [Kind -> Nat]
  BY <1>0, <1>1 DEF TypeOK, JsOK, TimersOK, MapOK, ListenersOK, Net
<1>2. CASE OnProgress(i)
  <2>1. PICK r \in Process(net) : net' = r.net /\ calls' = r.calls
    BY <1>2 DEF OnProgress
  <2>2. net' \in Net /\ calls' \in [Kind -> Nat]
    BY <1>0, <2>1, ProcessResult
  <2>3. ListenersOK'
    BY <1>0, <1>2 DEF OnProgress, ListenersOK
  <2>4. QED
    BY <2>2, <2>3
<1>3. CASE Work(i)
  <2>1. UNCHANGED <<net, calls>>
    BY <1>3 DEF Work, Start, Poll, Check, Moves
  <2>2. ASSUME NEW at \in {"loop", "quiet", "data", "invalid", "ended"}, Moves(i, at) PROVE ListenersOK'
    BY <1>0, <2>2 DEF Moves, ListenersOK
  <2>3. ASSUME listener' = [listener EXCEPT ![i].at = "loop", ![i].signalled = TRUE]
        PROVE  ListenersOK'
    BY <1>0, <2>3 DEF ListenersOK
  <2>4. ListenersOK'
    BY <1>3, <2>2, <2>3 DEF Work, Start, Poll, Check
  <2>5. QED
    BY <1>0, <2>1, <2>4
<1>4. QED
  BY <1>2, <1>3

LEMMA TypesKept == TypeOK /\ [Next]_vars => TypeOK'
<1>1. TypeOK /\ UNCHANGED vars => TypeOK'
  BY DEF TypeOK, vars
<1>2. QED
  BY <1>1, HandlersTypes, ApplicationTypes, ClockTypes, ListenerTypes DEF Next, Application
-----------------------------------------------------------------------------
(* A step that leaves sockets, callbacks and activity as they were.                   *)
LEMMA SameNetwork ==
  ASSUME Inv, TypeOK', net'.fd = net.fd, net'.callbacks = net.callbacks,
         js'.active = js.active, js'.destroyed = js.destroyed,
         UNCHANGED <<handlers, listener, told>>
  PROVE  OpenIsActive' /\ DestroyedIsQuiet' /\ Watched'
<1>1. OpenIsActive'
  BY DEF Inv, OpenIsActive
<1>2. DestroyedIsQuiet'
  BY DEF Inv, DestroyedIsQuiet
<1>3. Watched'
  BY DEF Inv, Watched
<1>4. QED
  BY <1>1, <1>2, <1>3

LEMMA ConnectKeeps ==
  ASSUME Inv, NEW fd \in Fd, Connect(fd)
  PROVE  OpenIsActive' /\ DestroyedIsQuiet' /\ Watched'
<1>0. /\ JsOK /\ ListenersOK /\ net \in Net /\ calls \in [Kind -> Nat]
  BY TypeParts DEF Inv
<1>1. Opened(net, fd) \in Net /\ Opened(net, fd).fd = fd
  BY <1>0 DEF Opened, Net
<1>2. PICK r \in Process(Opened(net, fd)) : net' = r.net
  BY DEF Connect
<1>3. net'.fd = fd /\ fd # None
  BY <1>0, <1>1, <1>2, ProcessResult, BindingAssumption
<1>4. js'.active = TRUE /\ ~js'.destroyed
  BY <1>0 DEF Connect, JsOK
<1>5. OpenIsActive' /\ DestroyedIsQuiet'
  BY <1>3, <1>4 DEF OpenIsActive, DestroyedIsQuiet
<1>6. Watched'
  <2>1. Min(Unused) \in Listener
    BY MinIsMember, BindingAssumption DEF Connect, Unused
  <2>2. /\ listener'[Min(Unused)].fd = fd
        /\ listener'[Min(Unused)].at = "queued"
    BY <1>0, <2>1 DEF Connect, NewListener, ListenersOK
  <2>3. QED
    BY <1>3, <2>1, <2>2 DEF Watched
<1>7. QED
  BY <1>5, <1>6

LEMMA ApplicationKeeps ==
  ASSUME Inv, Application, TypeOK'
  PROVE  OpenIsActive' /\ DestroyedIsQuiet' /\ Watched'
<1>0. JsOK /\ net \in Net /\ handlers \in [Event -> Nat]
  BY TypeParts DEF Inv
<1>1. ASSUME NEW e \in Event, On(e) PROVE OpenIsActive' /\ DestroyedIsQuiet' /\ Watched'
  BY <1>1 DEF On, Inv, OpenIsActive, DestroyedIsQuiet, Watched
<1>2. ASSUME NEW e \in Event, RemoveListener(e)
      PROVE  OpenIsActive' /\ DestroyedIsQuiet' /\ Watched'
  BY <1>2, <1>0 DEF RemoveListener, Inv, OpenIsActive, DestroyedIsQuiet, Watched
<1>3. CASE RemoveAllListeners
  <2>1. js'.active = js.active /\ js'.destroyed = js.destroyed
    BY <1>0, <1>3 DEF RemoveAllListeners, JsOK
  <2>2. QED
    BY <1>3, <2>1 DEF RemoveAllListeners, Inv, OpenIsActive, DestroyedIsQuiet, Watched
<1>4. CASE ConnectFails
  <2>1. js'.active = TRUE /\ ~js'.destroyed /\ told' = TRUE
    BY <1>0, <1>4 DEF ConnectFails, JsOK
  <2>2. net'.fd = net.fd \/ net'.fd = None
    BY <1>0, <1>4 DEF ConnectFails, Unopened, Closed, Net
  <2>3. UNCHANGED listener
    BY <1>4 DEF ConnectFails
  <2>4. OpenIsActive' /\ DestroyedIsQuiet'
    BY <2>1 DEF OpenIsActive, DestroyedIsQuiet
  <2>5. Watched'
    BY <2>2, <2>3 DEF Inv, Watched
  <2>6. QED
    BY <2>4, <2>5
<1>5. CASE Disconnect
  <2>1. js'.active = FALSE /\ ~js'.destroyed
    BY <1>0, <1>5 DEF Disconnect, JsOK
  <2>2. net'.fd = None
    BY <1>0, <1>5 DEF Disconnect, Closed, Net
  <2>3. QED
    BY <2>1, <2>2 DEF OpenIsActive, DestroyedIsQuiet, Watched
<1>6. CASE Send
  BY <1>6, SameNetwork DEF Send
<1>7. CASE Destroy
  <2>1. js'.active = FALSE
    BY <1>0, <1>7 DEF Destroy, JsOK
  <2>2. net'.fd = None /\ net'.callbacks = FALSE
    <3>1. CASE js.active
      BY <1>0, <1>7, <3>1 DEF Destroy, Closed, Silent, Net
    <3>2. CASE ~js.active
      BY <1>0, <1>7, <3>2 DEF Destroy, Silent, Net, Inv, OpenIsActive
    <3>3. QED
      BY <3>1, <3>2
  <2>3. \A e \in Event : handlers'[e] = 0
    BY <1>7 DEF Destroy
  <2>4. QED
    BY <2>1, <2>2, <2>3 DEF OpenIsActive, DestroyedIsQuiet, Watched
<1>8. QED
  BY <1>1, <1>2, <1>3, <1>4, <1>5, <1>6, <1>7, ConnectKeeps DEF Application

LEMMA ClockKeeps ==
  ASSUME Inv, Clock \/ Deliver, TypeOK'
  PROVE  OpenIsActive' /\ DestroyedIsQuiet' /\ Watched'
<1>0. JsOK /\ net \in Net /\ calls \in [Kind -> Nat]
  BY TypeParts DEF Inv
<1>1. UNCHANGED <<handlers, listener, told>>
  BY DEF Clock, Deliver, OnWait, FireTimer, TimePasses
<1>2. js'.active = js.active /\ js'.destroyed = js.destroyed
  BY <1>0 DEF Clock, Deliver, OnWait, FireTimer, TimePasses, Count, JsOK
<1>3. net'.fd = net.fd /\ net'.callbacks = net.callbacks
  <2>1. CASE FireTimer
    <3>1. PICK r \in IF js.active THEN Process(net)
                     ELSE {[net |-> net, calls |-> calls, threw |-> FALSE]} : net' = r.net
      BY <2>1 DEF FireTimer
    <3>2. CASE js.active
      BY <1>0, <3>1, <3>2, ProcessResult
    <3>3. CASE r = [net |-> net, calls |-> calls, threw |-> FALSE]
      BY <3>1, <3>3
    <3>4. QED
      BY <3>1, <3>2, <3>3
  <2>2. CASE TimePasses
    BY <1>0, <2>2 DEF TimePasses, Net
  <2>3. QED
    BY <2>1, <2>2 DEF Clock, Deliver, OnWait
<1>4. QED
  BY <1>1, <1>2, <1>3, SameNetwork

LEMMA ListenerKeeps ==
  ASSUME Inv, NEW i \in Listener, OnProgress(i) \/ Work(i), TypeOK'
  PROVE  OpenIsActive' /\ DestroyedIsQuiet' /\ Watched'
<1>0. ListenersOK /\ net \in Net /\ calls \in [Kind -> Nat]
  BY TypeParts DEF Inv
<1>1. UNCHANGED <<js, handlers, told>>
  BY DEF OnProgress, Work, Start, Poll, Check, Moves
<1>2. net'.fd = net.fd /\ net'.callbacks = net.callbacks
  <2>1. CASE OnProgress(i)
    BY <1>0, <2>1, ProcessResult DEF OnProgress
  <2>2. QED
    BY <2>1 DEF Work, Start, Poll, Check, Moves
<1>3. OpenIsActive'
  BY <1>1, <1>2 DEF Inv, OpenIsActive
<1>4. DestroyedIsQuiet'
  BY <1>1, <1>2 DEF Inv, DestroyedIsQuiet
<1>5. Watched'
  <2>1. SUFFICES ASSUME net.fd # None PROVE Watched'
    BY <1>2 DEF Watched
  <2>2. PICK j \in Listener :
           listener[j].fd = net.fd /\ listener[j].at \in {"queued", "loop", "quiet", "data"}
    BY <2>1 DEF Inv, Watched
  <2>3. ~js.destroyed
    BY <2>1 DEF Inv, DestroyedIsQuiet
  <2>4. CASE i # j
    <3>1. listener'[j] = listener[j]
      BY <1>0, <2>4 DEF OnProgress, Work, Start, Poll, Check, Moves, ListenersOK
    <3>2. QED
      BY <1>2, <2>2, <3>1 DEF Watched
  <2>5. CASE i = j
    <3>1. ASSUME NEW at \in {"loop", "quiet", "data"}, Moves(i, at) PROVE Watched'
      BY <1>0, <1>2, <2>2, <2>5, <3>1 DEF Moves, ListenersOK, Watched
    <3>2. CASE OnProgress(i)
      BY <1>0, <1>2, <2>2, <2>5, <3>2 DEF OnProgress, ListenersOK, Watched
    <3>3. ASSUME listener' = [listener EXCEPT ![i].at = "loop", ![i].signalled = TRUE] PROVE Watched'
      BY <1>0, <1>2, <2>2, <2>5, <3>3 DEF ListenersOK, Watched
    <3>4. QED
      BY <2>2, <2>3, <2>5, <3>1, <3>2, <3>3 DEF Work, Start, Poll, Check, Ends
  <2>6. QED
    BY <2>4, <2>5
<1>6. QED
  BY <1>3, <1>4, <1>5

LEMMA InvKept == Inv /\ [Next]_vars => Inv'
<1> SUFFICES ASSUME Inv, [Next]_vars PROVE Inv'
  OBVIOUS
<1>1. TypeOK'
  BY TypesKept DEF Inv
<1>2. CASE UNCHANGED vars
  BY <1>2, <1>1 DEF vars, Inv, OpenIsActive, DestroyedIsQuiet, Watched
<1>3. CASE Application \/ Clock \/ Deliver \/ \E i \in Listener : OnProgress(i) \/ Work(i)
  BY <1>1, <1>3, ApplicationKeeps, ClockKeeps, ListenerKeeps DEF Inv
<1>4. QED
  BY <1>2, <1>3 DEF Next

LEMMA InvAlways == Spec => []Inv
  BY InitInv, InvKept, PTL DEF Spec
-----------------------------------------------------------------------------
(* Every state is well typed, and _waiting counts the timers, with any number of      *)
(* connections.                                                                    *)
THEOREM BindingTypes == Spec => []TypeOK
<1>1. Inv => TypeOK
  BY DEF Inv
<1>2. QED
  BY <1>1, InvAlways, PTL

(* Sockets are only open while _active; an active network without them is one whose   *)
(* connect() threw (index.js:156-168).                                             *)
THEOREM OpenOnlyWhileActive == Spec => []OpenIsActive
<1>1. Inv => OpenIsActive
  BY DEF Inv
<1>2. QED
  BY <1>1, InvAlways, PTL

(* Open sockets are polled by a listener, however many connections came before and     *)
(* however few threads run the listeners (NetworkBinding.cpp:254-274).               *)
THEOREM SocketsWatched == Spec => []Watched
<1>1. Inv => Watched
  BY DEF Inv
<1>2. QED
  BY <1>1, InvAlways, PTL

(* After destroy() no call is queued, nobody listens and the sockets stay closed,      *)
(* whatever listeners and timers still run (index.js:185-199).                      *)
(* After destroy() no call is queued, nobody listens and the sockets stay closed,      *)
(* whatever listeners and timers still run (index.js:185-199).                      *)
LEMMA DestroyedStep ==
  ASSUME Inv, js.destroyed, [Next]_vars
  PROVE  /\ \A k \in Kind : calls'[k] <= calls[k]
         /\ handlers' = handlers /\ net'.fd = None
<1>0. /\ JsOK /\ net \in Net /\ calls \in [Kind -> Nat] /\ handlers \in [Event -> Nat]
      /\ net.fd = None /\ ~net.callbacks /\ ~js.active /\ \A e \in Event : handlers[e] = 0
  BY TypeParts DEF Inv, DestroyedIsQuiet
<1>1. CASE UNCHANGED vars
  BY <1>0, <1>1 DEF vars
<1>2. CASE Application
  <2>1. RemoveAllListeners
    BY <1>0, <1>2 DEF Application, On, RemoveListener, ConnectFails, Disconnect, Send, MaySend,
                      Destroy, Connect
  <2>2. handlers' = handlers
    BY <1>0, <2>1 DEF RemoveAllListeners
  <2>3. QED
    BY <1>0, <2>1, <2>2 DEF RemoveAllListeners
<1>3. CASE Clock
  <2>1. CASE FireTimer
    <3>1. net' = net /\ calls' = calls /\ handlers' = handlers
      BY <1>0, <2>1 DEF FireTimer
    <3>2. QED
      BY <1>0, <3>1
  <2>2. CASE TimePasses
    BY <1>0, <2>2 DEF TimePasses, Net
  <2>3. ASSUME NEW k \in {"soon", "later"}, OnWait(k)
        PROVE  /\ \A c \in Kind : calls'[c] <= calls[c]
               /\ handlers' = handlers /\ net'.fd = None
    BY <1>0, <2>3 DEF OnWait, Kind
  <2>4. QED
    BY <1>3, <2>1, <2>2, <2>3 DEF Clock
<1>4. CASE Deliver
  BY <1>0, <1>4 DEF Deliver, Kind
<1>5. ASSUME NEW i \in Listener, OnProgress(i)
      PROVE  /\ \A k \in Kind : calls'[k] <= calls[k]
             /\ handlers' = handlers /\ net'.fd = None
  <2>1. PICK r \in Process(net) : net' = r.net /\ calls' = r.calls
    BY <1>5 DEF OnProgress
  <2>2. r.net.fd = None /\ r.calls = calls
    BY <1>0, <2>1, ProcessResult
  <2>3. handlers' = handlers
    BY <1>5 DEF OnProgress
  <2>4. QED
    BY <1>0, <2>1, <2>2, <2>3
<1>6. ASSUME NEW i \in Listener, Work(i)
      PROVE  /\ \A k \in Kind : calls'[k] <= calls[k]
             /\ handlers' = handlers /\ net'.fd = None
  BY <1>0, <1>6 DEF Work, Start, Poll, Check, Moves
<1>7. QED
  BY <1>1, <1>2, <1>3, <1>4, <1>5, <1>6 DEF Next

(* After destroy() no event of the network is queued for JavaScript and no handler or    *)
(* socket comes back, whatever is still on its way (NetworkBinding.cpp:300-323).      *)
THEOREM DestroyIsFinal == Spec => NothingAfterDestroy
<1>1. Inv /\ [Next]_vars =>
        [js.destroyed => /\ \A k \in Kind : calls'[k] <= calls[k]
                         /\ handlers' = handlers /\ net'.fd = None]_vars
  BY DestroyedStep
<1>2. QED
  BY <1>1, InvAlways, PTL DEF Spec, NothingAfterDestroy

(* Each step leaves a timer or a queued on_wait, if there was one: a timer starts        *)
(* another one unless an announce did (index.js:130-137).                            *)
LEMMA ChainStep ==
  ASSUME Inv, Next, Chained, js.active, js'.active, ~exited'
  PROVE  Chained'
<1>0. /\ JsOK /\ TimersOK /\ net \in Net /\ calls \in [Kind -> Nat]
      /\ js.waiting \in Nat /\ calls["soon"] \in Nat /\ calls["later"] \in Nat
  <2>1. JsOK /\ TimersOK /\ net \in Net /\ calls \in [Kind -> Nat]
    BY TypeParts DEF Inv
  <2>2. QED
    BY <2>1 DEF JsOK, Kind
<1>1. ASSUME js'.waiting = js.waiting, calls' \in [Kind -> Nat],
             \A k \in Kind \ {"event"} : calls'[k] >= calls[k]
      PROVE  Chained'
  BY <1>0, <1>1 DEF Chained, Kind
<1>2. CASE Application
  <2>1. js'.waiting = js.waiting
    BY <1>0, <1>2 DEF JsOK, Application, On, RemoveListener, RemoveAllListeners, ConnectFails,
                      Disconnect, Send, Destroy, Connect
  <2>2. calls' \in [Kind -> Nat] /\ \A k \in Kind \ {"event"} : calls'[k] >= calls[k]
    <3>1. CASE Send
      BY <1>0, <3>1, QueueResult DEF Send, Kind
    <3>2. ASSUME NEW fd \in Fd, Connect(fd)
          PROVE  calls' \in [Kind -> Nat] /\ \A k \in Kind \ {"event"} : calls'[k] >= calls[k]
      <4>1. Opened(net, fd) \in Net
        BY <1>0 DEF Opened, Net
      <4>2. PICK r \in Process(Opened(net, fd)) : calls' = r.calls
        BY <3>2 DEF Connect
      <4>3. QED
        BY <1>0, <4>1, <4>2, ProcessResult
    <3>3. CASE UNCHANGED calls
      BY <1>0, <3>3
    <3>4. QED
      BY <1>2, <3>1, <3>2, <3>3 DEF Application, On, RemoveListener, RemoveAllListeners,
                                    ConnectFails, Disconnect, Destroy
  <2>3. QED
    BY <1>1, <2>1, <2>2
<1>3. ASSUME NEW k \in {"soon", "later"}, OnWait(k) PROVE Chained'
  <2>1. js'.waiting = js.waiting + 1
    BY <1>0, <1>3 DEF OnWait, Count, JsOK
  <2>2. calls'["soon"] \in Nat /\ calls'["later"] \in Nat
    BY <1>0, <1>3 DEF OnWait, Kind
  <2>3. QED
    BY <1>0, <2>1, <2>2 DEF Chained
<1>4. CASE FireTimer
  <2>1. PICK r \in Process(net) :
          LET again == IF r.threw THEN 0 ELSE Restart(js.active, js.waiting - 1) IN
          /\ net' = r.net /\ calls' = r.calls /\ exited' = r.threw
          /\ js' = [js EXCEPT !.waiting = @ - 1 + again]
          /\ timers' = [timers EXCEPT !.ripe = @ - 1 + again]
    BY <1>4 DEF FireTimer
  <2>2. js' = [js EXCEPT !.waiting = @ - 1 + Restart(js.active, js.waiting - 1)]
    BY <2>1
  <2>3. js'.waiting = js.waiting - 1 + (IF js.waiting - 1 = 0 THEN 1 ELSE 0)
    BY <1>0, <2>2 DEF Restart, JsOK
  <2>4. js.waiting \in Nat \ {0}
    BY <1>0, <1>4 DEF FireTimer, TimersOK
  <2>5. js'.waiting \in Nat \ {0}
    BY <2>3, <2>4
  <2>6. calls'["soon"] \in Nat /\ calls'["later"] \in Nat
    BY <1>0, <2>1, ProcessResult DEF Kind
  <2>7. QED
    BY <2>5, <2>6 DEF Chained
<1>5. CASE TimePasses
  BY <1>0, <1>1, <1>5 DEF TimePasses
<1>6. CASE Deliver
  <2>1. calls' \in [Kind -> Nat] /\ js' = js /\ \A k \in Kind \ {"event"} : calls'[k] >= calls[k]
    BY <1>0, <1>6 DEF Deliver, Kind
  <2>2. QED
    BY <1>1, <2>1
<1>7. ASSUME NEW i \in Listener, OnProgress(i) PROVE Chained'
  <2>1. PICK r \in Process(net) : calls' = r.calls
    BY <1>7 DEF OnProgress
  <2>2. calls' \in [Kind -> Nat] /\ \A k \in Kind : calls'[k] >= calls[k]
    BY <1>0, <2>1, ProcessResult
  <2>3. js' = js
    BY <1>7 DEF OnProgress
  <2>4. QED
    BY <1>1, <2>2, <2>3
<1>8. ASSUME NEW i \in Listener, Work(i) PROVE Chained'
  <2>1. UNCHANGED <<js, calls>>
    BY <1>8 DEF Work, Start, Poll, Check, Moves
  <2>2. QED
    BY <1>0, <1>1, <2>1
<1>9. QED
  BY <1>2, <1>3, <1>4, <1>5, <1>6, <1>7, <1>8 DEF Next, Clock

(* While connected the chain of timers does not break, for any number of timers and      *)
(* queued calls.                                                                   *)
THEOREM ChainGoesOn == Spec => ChainKept
<1>1. Inv /\ [Next]_vars => [Chained /\ js.active /\ js'.active /\ ~exited' => Chained']_vars
  BY ChainStep
<1>2. QED
  BY <1>1, InvAlways, PTL DEF Spec, ChainKept
=============================================================================
