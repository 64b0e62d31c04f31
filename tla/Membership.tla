----------------------------- MODULE Membership -----------------------------
(***************************************************************************)
(* Which other nodes a NUClearNetwork knows: process(), the ANNOUNCE and   *)
(* LEAVE cases of process_packet(), remove_target(), shutdown() and        *)
(* reset(), and the join and leave callbacks the application hears them    *)
(* by.                                                                     *)
(*                                                                         *)
(* The functions are called by threads.  The Node addon has one, the       *)
(* JavaScript thread; in a PowerPlant process() is run by three reactions  *)
(* of NetworkController that do not exclude each other.  A step of a       *)
(* thread is what it does between two points where another thread can act  *)
(* in between: a scope of target_mutex, a callback, a read of a socket.    *)
(*                                                                         *)
(* Whether a target's last update is more than two seconds ago is a flag   *)
(* (stale) that may be raised at any time.  The other nodes are modelled   *)
(* by what they send: their packets may be lost, late and out of order.    *)
(* (A node whose announces carry the empty name is ignored; it is none of  *)
(* those modelled.)                                                        *)
(***************************************************************************)
EXTENDS Integers, FiniteSets

CONSTANTS
    Thread,         \* the threads that call process(), reset() and shutdown()
    Key,            \* udp_key (address, port) of the data sockets of nodes with a name
    AnnounceKey,    \* udp_key of the announce address
    Sends,          \* what other nodes send beside LEAVE: ANNOUNCE and DATA packets
    MaxTargets      \* bound: NetworkTargets of one key that exist at a time

ASSUME KeyAssumption == AnnounceKey \notin Key
ASSUME SendsAssumption == Sends \subseteq {"ANNOUNCE", "DATA"}
ASSUME BoundAssumption == MaxTargets \in Nat \ {0}

VARIABLES
    open,           \* data_fd and announce_fd are open sockets
    targets,        \* the list of NetworkTargets
    name_target,    \* the NetworkTargets of the map by name
    udp_target,     \* the map from a key to its NetworkTarget
    stale,          \* targets whose last_update is more than two seconds ago
    pc,             \* per thread: what it does next
    packet,         \* per thread: the packet it has read from a socket
    remote,         \* per thread: the target process_packet() works on
    leavers,        \* per thread: the targets to call leave_callback for
    up,             \* the other nodes that run
    inbox,          \* packets on their way to this node or in its sockets
    present         \* history: the keys whose last callback since reset() was a join

tables  == <<targets, name_target, udp_target>>
threads == <<pc, packet, remote, leavers>>
others  == <<up, inbox>>
vars    == <<open, tables, stale, threads, others, present>>

NetworkTarget == [key : Key \cup {AnnounceKey}, no : 1..MaxTargets]
Nobody        == [key |-> AnnounceKey, no |-> 0]
AllTarget     == [key |-> AnnounceKey, no |-> 1]
Packet        == [type : {"ANNOUNCE", "LEAVE", "DATA"}, key : Key]
NoPacket      == [type |-> "none", key |-> AnnounceKey]

From(k, type) == [type |-> type, key |-> k]

Init ==
    /\ open = FALSE
    /\ targets = {}
    /\ name_target = {}
    /\ udp_target = [k \in Key \cup {AnnounceKey} |-> Nobody]
    /\ stale = {}
    /\ pc = [t \in Thread |-> "idle"]
    /\ packet = [t \in Thread |-> NoPacket]
    /\ remote = [t \in Thread |-> Nobody]
    /\ leavers = [t \in Thread |-> {}]
    /\ up = {}
    /\ inbox = {}
    /\ present = {}

-----------------------------------------------------------------------------
(* The tables.                                                              *)

\* Mutant of Remove: the map by name keeps the target.
RemoveKeepName(gone) ==
    /\ udp_target' = [k \in DOMAIN udp_target |->
                        IF \E o \in gone : o.key = k THEN Nobody ELSE udp_target[k]]
    /\ name_target' = name_target
    /\ targets' = targets \ gone

\* Mutant of Remove: the map by key keeps the target.
RemoveKeepKey(gone) ==
    /\ udp_target' = udp_target
    /\ name_target' = name_target \ gone
    /\ targets' = targets \ gone

\* Mutant of Remove: the list keeps the target.
RemoveKeepListed(gone) ==
    /\ udp_target' = [k \in DOMAIN udp_target |->
                        IF \E o \in gone : o.key = k THEN Nobody ELSE udp_target[k]]
    /\ name_target' = name_target \ gone
    /\ targets' = targets

\* remove_target(): the key is erased whatever target it stands for.
Remove(gone) ==
    /\ udp_target' = [k \in DOMAIN udp_target |->
                        IF \E o \in gone : o.key = k THEN Nobody ELSE udp_target[k]]
    /\ name_target' = name_target \ gone
    /\ targets' = targets \ gone

\* Mutant of Insert: the target is not put into the list.
InsertUnlisted(o) ==
    /\ targets' = targets
    /\ name_target' = name_target \cup {o}
    /\ udp_target' = [udp_target EXCEPT ![o.key] = o]

Insert(o) ==
    /\ targets' = targets \cup {o}
    /\ name_target' = name_target \cup {o}
    /\ udp_target' = [udp_target EXCEPT ![o.key] = o]

InUse(o) ==
    \/ o \in targets \cup name_target
    \/ udp_target[o.key] = o
    \/ \E t \in Thread : o = remote[t] \/ o \in leavers[t]

\* make_shared<NetworkTarget>: the first one nothing refers to.
Fresh(k) ==
    {o \in NetworkTarget :
        /\ o.key = k
        /\ ~InUse(o)
        /\ \A n \in 1..(o.no - 1) : InUse([key |-> k, no |-> n])}

-----------------------------------------------------------------------------
(* process() and process_packet() on thread t.                              *)

Goto(t, label) == pc' = [pc EXCEPT ![t] = label]

\* process_packet() returns.
Handled(t) ==
    /\ Goto(t, "reading")
    /\ packet' = [packet EXCEPT ![t] = NoPacket]
    /\ remote' = [remote EXCEPT ![t] = Nobody]

\* The targets that have timed out, without the first of the list.
Due == (targets \ {AllTarget}) \cap stale

\* process() up to the end of the mutex scope: it announces and takes the
\* targets out that have timed out.  If the announce cannot be sent it throws
\* and has changed nothing.
Process(t) ==
    /\ pc[t] = "idle"
    /\ Remove(Due)
    /\ stale' = stale \ Due
    /\ leavers' = [leavers EXCEPT ![t] = Due]
    /\ Goto(t, "reading")
    /\ UNCHANGED <<open, packet, remote, others, present>>

\* leave_callback for one of those that left.
LeaveCallback(t) ==
    \E o \in leavers[t] :
        /\ leavers' = [leavers EXCEPT ![t] = @ \ {o}]
        /\ present' = present \ {o.key}
        /\ UNCHANGED <<open, tables, stale, pc, packet, remote, others>>

\* FIONREAD says that there is a packet to read.
Poll(t) ==
    /\ pc[t] = "reading" /\ leavers[t] = {}
    /\ open /\ inbox # {}
    /\ Goto(t, "receiving")
    /\ UNCHANGED <<open, tables, stale, packet, remote, leavers, others, present>>

\* FIONREAD says that there is none: nothing has arrived, or no socket is open.
Return(t) ==
    /\ pc[t] = "reading" /\ leavers[t] = {}
    /\ Goto(t, "idle")
    /\ UNCHANGED <<open, tables, stale, packet, remote, leavers, others, present>>

\* recvmsg(), which waits for a packet if another thread took the one that was
\* there, and the lookup of its sender.
Receive(t, p) ==
    /\ pc[t] = "receiving"
    /\ open /\ p \in inbox
    /\ inbox' = inbox \ {p}
    /\ packet' = [packet EXCEPT ![t] = p]
    /\ remote' = [remote EXCEPT ![t] = udp_target[p.key]]
    /\ Goto(t, "handling")
    /\ UNCHANGED <<open, tables, stale, leavers, up, present>>

\* recvmsg() fails because another thread closed the socket: process() throws.
ReceiveFails(t) ==
    /\ pc[t] = "receiving"
    /\ ~open
    /\ Goto(t, "idle")
    /\ UNCHANGED <<open, tables, stale, packet, remote, leavers, others, present>>

\* A LEAVE or data packet of a node nobody knows.
Ignore(t) ==
    /\ pc[t] = "handling"
    /\ remote[t] = Nobody
    /\ packet[t].type # "ANNOUNCE"
    /\ Handled(t)
    /\ UNCHANGED <<open, tables, stale, leavers, others, present>>

\* "They're old but at least they're not timing out": an ANNOUNCE, DATA, ACK
\* or NACK packet of a known node, without the lock.
Refresh(t) ==
    /\ pc[t] = "handling"
    /\ remote[t] # Nobody
    /\ packet[t].type # "LEAVE"
    /\ stale' = stale \ {remote[t]}
    /\ Handled(t)
    /\ UNCHANGED <<open, tables, leavers, others, present>>

\* An ANNOUNCE of a new node.
Learn(t) ==
    /\ pc[t] = "handling"
    /\ packet[t].type = "ANNOUNCE"
    /\ remote[t] = Nobody
    /\ IF udp_target[packet[t].key] = Nobody
       THEN \E o \in Fresh(packet[t].key) :
              /\ Insert(o)
              /\ stale' = stale \ {o}
              /\ remote' = [remote EXCEPT ![t] = o]
              /\ packet' = packet
              /\ Goto(t, "joining")
       ELSE /\ Handled(t)
            /\ UNCHANGED <<tables, stale>>
    /\ UNCHANGED <<open, leavers, others, present>>

JoinCallback(t) ==
    /\ pc[t] = "joining"
    /\ present' = present \cup {remote[t].key}
    /\ Handled(t)
    /\ UNCHANGED <<open, tables, stale, leavers, others>>

\* Mutant of Leave: leave_callback is not called.
LeaveMutant(t) ==
    /\ pc[t] = "handling"
    /\ packet[t].type = "LEAVE"
    /\ remote[t] # Nobody
    /\ IF udp_target[packet[t].key] # Nobody
       THEN /\ Remove({remote[t]})
            /\ stale' = stale \ {remote[t]}
       ELSE UNCHANGED <<tables, stale>>
    /\ Handled(t)
    /\ UNCHANGED <<open, leavers, others, present>>

\* A LEAVE of a node that was known when it was looked up.
Leave(t) ==
    /\ pc[t] = "handling"
    /\ packet[t].type = "LEAVE"
    /\ remote[t] # Nobody
    /\ IF udp_target[packet[t].key] # Nobody
       THEN /\ Remove({remote[t]})
            /\ stale' = stale \ {remote[t]}
            /\ leavers' = [leavers EXCEPT ![t] = {remote[t]}]
       ELSE UNCHANGED <<tables, stale, leavers>>
    /\ Handled(t)
    /\ UNCHANGED <<open, others, present>>

-----------------------------------------------------------------------------
(* shutdown() and reset() on thread t.                                      *)

\* shutdown(): a LEAVE is sent and the sockets are closed; the tables stay.
Shutdown(t) ==
    /\ pc[t] = "idle"
    /\ open
    /\ open' = FALSE
    /\ inbox' = {}
    /\ UNCHANGED <<tables, stale, threads, up, present>>

\* reset() after its call of shutdown(): the tables are cleared without a
\* leave callback.  No packet will ever refresh the "all" target, so it counts
\* as stale from the start.  (If a socket cannot be opened reset() throws, with
\* neither socket open, as after a Shutdown, or with the data socket open, as
\* here, only that it hears less.)
Reset(t) ==
    /\ pc[t] = "idle"
    /\ ~open
    /\ targets' = {AllTarget}
    /\ name_target' = {AllTarget}
    /\ udp_target' = [k \in Key \cup {AnnounceKey} |->
                        IF k = AnnounceKey THEN AllTarget ELSE Nobody]
    /\ stale' = {AllTarget}
    /\ open' = TRUE
    /\ present' = {}
    /\ UNCHANGED <<threads, others>>

\* The same when an address cannot be resolved: reset() throws before it adds
\* the "all" target.
ResetFails(t) ==
    /\ pc[t] = "idle"
    /\ ~open
    /\ targets' = {}
    /\ name_target' = {}
    /\ udp_target' = [k \in Key \cup {AnnounceKey} |-> Nobody]
    /\ stale' = {}
    /\ present' = {}
    /\ UNCHANGED <<open, threads, others>>

-----------------------------------------------------------------------------
(* Time and the other nodes.                                                *)

Age(o) ==
    /\ o \in targets \ stale
    /\ stale' = stale \cup {o}
    /\ UNCHANGED <<open, tables, threads, others, present>>

Start(k) ==
    /\ k \notin up
    /\ up' = up \cup {k}
    /\ UNCHANGED <<open, tables, stale, threads, inbox, present>>

\* A running node announces itself or sends data; a packet that is lost is
\* one that it does not send.
Transmit(k, type) ==
    /\ k \in up
    /\ open
    /\ inbox' = inbox \cup {From(k, type)}
    /\ UNCHANGED <<open, tables, stale, threads, up, present>>

\* A node stops: its LEAVE arrives, or it is lost or the node crashed.
Stop(k) ==
    /\ k \in up
    /\ up' = up \ {k}
    /\ inbox' \in {inbox, IF open THEN inbox \cup {From(k, "LEAVE")} ELSE inbox}
    /\ UNCHANGED <<open, tables, stale, threads, present>>

Step(t) ==
    \/ Process(t)
    \/ LeaveCallback(t)
    \/ Poll(t)
    \/ Return(t)
    \/ \E p \in inbox : Receive(t, p)
    \/ ReceiveFails(t)
    \/ Ignore(t)
    \/ Refresh(t)
    \/ Learn(t)
    \/ JoinCallback(t)
    \/ Leave(t)

Next ==
    \/ \E t \in Thread : Step(t) \/ Shutdown(t) \/ Reset(t) \/ ResetFails(t)
    \/ \E o \in targets : Age(o)
    \/ \E k \in Key :
        \/ Start(k)
        \/ \E type \in Sends : Transmit(k, type)
        \/ Stop(k)

Spec == Init /\ [][Next]_vars

-----------------------------------------------------------------------------
(* Safety.                                                                  *)

TypeOK ==
    /\ open \in BOOLEAN
    /\ targets \subseteq NetworkTarget
    /\ name_target \subseteq NetworkTarget
    /\ udp_target \in [Key \cup {AnnounceKey} -> NetworkTarget \cup {Nobody}]
    /\ stale \subseteq NetworkTarget
    /\ pc \in [Thread -> {"idle", "reading", "receiving", "handling", "joining"}]
    /\ packet \in [Thread -> Packet \cup {NoPacket}]
    /\ remote \in [Thread -> NetworkTarget \cup {Nobody}]
    /\ leavers \in [Thread -> SUBSET NetworkTarget]
    /\ up \subseteq Key
    /\ inbox \subseteq Packet
    /\ present \subseteq Key

\* The tables agree whatever the threads do: what can be found by its key is in
\* the list, where it can time out, and the list is what can be sent to by name.
TablesAgree ==
    /\ name_target = targets
    /\ \A k \in DOMAIN udp_target :
          udp_target[k] # Nobody => udp_target[k] \in targets /\ udp_target[k].key = k

\* An open network announces itself: the "all" target is never taken out.
KeepsAnnouncing == open => AllTarget \in name_target

\* No target is out of reach: each one in the list is found by its key, so that
\* its announces keep it alive and its data is accepted.
Addressable == \A o \in targets : udp_target[o.key] = o

\* What the application has been told is what the tables say, up to the
\* callbacks that are about to be called.
PresentAgrees ==
    \A k \in Key :
        k \in present <=>
            \/ udp_target[k] # Nobody
               /\ ~\E t \in Thread : pc[t] = "joining" /\ remote[t].key = k
            \/ \E t \in Thread : \E o \in leavers[t] : o.key = k

\* A node joins and leaves in turn: join_callback is called for one that is
\* not present, leave_callback for one that is.
Alternate ==
    [][\A t \in Thread :
         /\ pc[t] = "joining" /\ pc'[t] # "joining" => remote[t].key \notin present
         /\ \A o \in leavers[t] \ leavers'[t] : o.key \in present]_vars

\* "Call the callback if they really left": what leave_callback will be called
\* for has been in the list of targets.
ReallyLeft ==
    [][\A t \in Thread : \A o \in leavers'[t] \ leavers[t] : o \in targets \ targets']_vars

-----------------------------------------------------------------------------
(* Liveness.  process() is called again and again (at the announce interval  *)
(* if nothing else happens), and the loops that read the sockets find them  *)
(* empty at some time, since the other nodes send slower than they are      *)
(* read.  A packet on its way arrives and is read at some time.  A target   *)
(* that nothing is heard of for two seconds is stale.                       *)

Silent(o) ==
    /\ o.key \notin up
    /\ \A p \in inbox : p.key # o.key
    /\ Age(o)

Fairness ==
    /\ \A t \in Thread :
         /\ WF_vars(Process(t))
         /\ WF_vars(LeaveCallback(t))
         /\ SF_vars(Poll(t))
         /\ SF_vars(Return(t))
         /\ WF_vars(\E p \in inbox : Receive(t, p))
         /\ WF_vars(ReceiveFails(t))
         /\ WF_vars(Ignore(t) \/ Refresh(t) \/ Learn(t) \/ Leave(t))
         /\ WF_vars(JoinCallback(t))
    /\ \A k \in Key :
         /\ \A type \in Sends \cup {"LEAVE"} :
              SF_vars(\E t \in Thread : Receive(t, From(k, type)))
         /\ WF_vars(Transmit(k, "ANNOUNCE"))
         /\ \A n \in 1..MaxTargets : WF_vars(Silent([key |-> k, no |-> n]))

FairSpec == Spec /\ Fairness

\* A node that has stopped is reported to have left, whether or not its LEAVE
\* arrives and whatever of its packets arrive after that.
DepartureNoticed ==
    \A k \in Key : k \notin up /\ open ~> k \notin present \/ k \in up \/ ~open

\* A node that runs is reported to have joined.
ArrivalNoticed ==
    \A k \in Key : k \in up /\ open ~> k \in present \/ k \notin up \/ ~open

\* Nothing of a node that has stopped stays in the tables, however many threads
\* looked it up before it left: what one of them inserts late times out again.
DepartedForgotten ==
    \A k \in Key : k \notin up /\ open ~>
        (\A o \in targets : o.key # k) \/ k \in up \/ ~open
=============================================================================
