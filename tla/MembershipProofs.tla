-------------------------- MODULE MembershipProofs --------------------------
(***************************************************************************)
(* Theorems about Membership, for any number of nodes.                     *)
(*                                                                         *)
(* For any number of threads that interleave at every mutex scope: types,  *)
(* that the three tables agree, and that the "all" target is never taken   *)
(* out, by the invariant BaseInv.  What a thread has looked up may be gone *)
(* or replaced when it takes the lock again, so BaseInv only says that it  *)
(* has the key of the packet.                                              *)
(*                                                                         *)
(* For one thread, as in the Node addon: that the tables are what the      *)
(* application has been told and that callbacks alternate, by SoloInv.     *)
(* There what has been looked up is still in the tables, and a target that *)
(* has been taken out but not reported has not come back.                  *)
(***************************************************************************)
EXTENDS Membership, TLAPS

\* The program is run by one thread.
Solo == \E t : Thread = {t}

-----------------------------------------------------------------------------
(* The invariant for any number of threads.                                 *)

\* Only the "all" target has the key of the announce address.
ListedKnown == \A o \in targets : o = AllTarget \/ o.key \in Key

\* What process_packet() works on has the key of the packet it has read.
RemoteKnown ==
    \A t \in Thread :
        /\ remote[t] # Nobody => remote[t].key \in Key
        /\ pc[t] = "handling" =>
             /\ packet[t] \in Packet
             /\ remote[t] # Nobody => remote[t].key = packet[t].key
        /\ pc[t] = "joining" => remote[t] # Nobody

LeaversKnown == \A t \in Thread : \A o \in leavers[t] : o.key \in Key

BaseInv ==
    /\ TypeOK
    /\ TablesAgree
    /\ KeepsAnnouncing
    /\ ListedKnown
    /\ RemoteKnown
    /\ LeaversKnown

(* The invariant for one thread.                                            *)

\* Nothing has changed since the sender of the packet was looked up.
LookupCurrent ==
    \A t \in Thread :
        /\ pc[t] = "handling" => remote[t] = udp_target[packet[t].key]
        /\ pc[t] = "joining" => udp_target[remote[t].key] = remote[t]

\* A target that is still to be reported is out of the tables, and so is its key.
LeaversGone ==
    \A t \in Thread :
        /\ pc[t] # "reading" => leavers[t] = {}
        /\ \A o \in leavers[t] : udp_target[o.key] = Nobody
        /\ \A o, q \in leavers[t] : o.key = q.key => o = q

SoloInv ==
    /\ BaseInv
    /\ Addressable
    /\ PresentAgrees
    /\ LookupCurrent
    /\ LeaversGone

-----------------------------------------------------------------------------
(* The tables.                                                              *)

LEMMA AllTargetType == AllTarget \in NetworkTarget /\ AllTarget # Nobody
BY BoundAssumption DEF AllTarget, NetworkTarget, Nobody

LEMMA NobodyType == Nobody \notin NetworkTarget
BY DEF Nobody, NetworkTarget

\* remove_target() keeps the tables in agreement, whatever targets of other
\* nodes it is called for.
LEMMA RemoveAgrees ==
    ASSUME TypeOK, TablesAgree, KeepsAnnouncing, ListedKnown,
           NEW gone, \A o \in gone : o \in NetworkTarget /\ o.key \in Key,
           Remove(gone), open' = open
    PROVE  /\ targets' \subseteq NetworkTarget
           /\ name_target' \subseteq NetworkTarget
           /\ udp_target' \in [Key \cup {AnnounceKey} -> NetworkTarget \cup {Nobody}]
           /\ TablesAgree' /\ KeepsAnnouncing' /\ ListedKnown'
<1>1. AllTarget \notin gone
  BY KeyAssumption DEF AllTarget
<1>2. udp_target' \in [Key \cup {AnnounceKey} -> NetworkTarget \cup {Nobody}]
  BY DEF TypeOK, Remove
<1>3. TablesAgree'
  <2>1. name_target' = targets'
    BY DEF Remove, TablesAgree
  <2>2. ASSUME NEW k \in DOMAIN udp_target', udp_target'[k] # Nobody
        PROVE  udp_target'[k] \in targets' /\ udp_target'[k].key = k
    <3>1. k \in DOMAIN udp_target /\ udp_target'[k] = udp_target[k]
          /\ ~\E o \in gone : o.key = k
      BY <2>2 DEF Remove
    <3>2. udp_target[k] \in targets /\ udp_target[k].key = k
      BY <2>2, <3>1 DEF TablesAgree
    <3> QED
      BY <3>1, <3>2 DEF Remove
  <2> QED
    BY <2>1, <2>2 DEF TablesAgree
<1> QED
  BY <1>1, <1>2, <1>3 DEF TypeOK, Remove, KeepsAnnouncing, ListedKnown

\* So does the insertion of a target of another node.
LEMMA InsertAgrees ==
    ASSUME TypeOK, TablesAgree, KeepsAnnouncing, ListedKnown,
           NEW o \in NetworkTarget, o.key \in Key,
           Insert(o), open' = open
    PROVE  /\ targets' \subseteq NetworkTarget
           /\ name_target' \subseteq NetworkTarget
           /\ udp_target' \in [Key \cup {AnnounceKey} -> NetworkTarget \cup {Nobody}]
           /\ TablesAgree' /\ KeepsAnnouncing' /\ ListedKnown'
<1>1. udp_target' \in [Key \cup {AnnounceKey} -> NetworkTarget \cup {Nobody}]
  BY DEF TypeOK, Insert
<1>2. TablesAgree'
  BY DEF TypeOK, TablesAgree, Insert
<1> QED
  BY <1>1, <1>2 DEF TypeOK, Insert, KeepsAnnouncing, ListedKnown

\* A target that times out is one of another node.
LEMMA DueKnown ==
    ASSUME TypeOK, ListedKnown
    PROVE  \A o \in Due : o \in NetworkTarget /\ o.key \in Key
BY DEF TypeOK, ListedKnown, Due

LEMMA FreshType ==
    ASSUME NEW k, NEW o \in Fresh(k)
    PROVE  o \in NetworkTarget /\ o.key = k /\ ~InUse(o)
BY DEF Fresh

-----------------------------------------------------------------------------
(* BaseInv is an invariant.                                                 *)

LEMMA BaseInit == Init => BaseInv
<1> SUFFICES ASSUME Init PROVE BaseInv
  OBVIOUS
<1>1. TypeOK
  BY DEF Init, TypeOK
<1> QED
  BY <1>1 DEF Init, BaseInv, TablesAgree, KeepsAnnouncing, ListedKnown, RemoteKnown,
              LeaversKnown

LEMMA BaseStep == BaseInv /\ [Next]_vars => BaseInv'
<1> SUFFICES ASSUME BaseInv, [Next]_vars PROVE BaseInv'
  OBVIOUS
<1> USE DEF BaseInv
<1>1. ASSUME NEW t \in Thread, Process(t) PROVE BaseInv'
  <2>1. TypeOK' /\ TablesAgree' /\ KeepsAnnouncing' /\ ListedKnown'
    <3>1. /\ targets' \subseteq NetworkTarget
          /\ name_target' \subseteq NetworkTarget
          /\ udp_target' \in [Key \cup {AnnounceKey} -> NetworkTarget \cup {Nobody}]
          /\ TablesAgree' /\ KeepsAnnouncing' /\ ListedKnown'
      BY <1>1, DueKnown, RemoveAgrees DEF Process
    <3>2. Due \subseteq NetworkTarget
      BY DueKnown
    <3> QED
      BY <1>1, <3>1, <3>2 DEF Process, TypeOK, Goto, others
  <2>2. RemoteKnown'
    BY <1>1 DEF Process, RemoteKnown, Goto, TypeOK
  <2>3. LeaversKnown'
    BY <1>1, DueKnown DEF Process, LeaversKnown, TypeOK
  <2> QED
    BY <2>1, <2>2, <2>3
<1>2. ASSUME NEW t \in Thread, LeaveCallback(t) PROVE BaseInv'
  <2>1. TypeOK'
    BY <1>2 DEF LeaveCallback, TypeOK, tables, others
  <2>2. LeaversKnown'
    BY <1>2 DEF LeaveCallback, LeaversKnown, TypeOK
  <2> QED
    BY <1>2, <2>1, <2>2 DEF LeaveCallback, TablesAgree, KeepsAnnouncing, ListedKnown,
                            RemoteKnown, tables
<1>3. ASSUME NEW t \in Thread, Poll(t) PROVE BaseInv'
  <2>1. TypeOK'
    BY <1>3 DEF Poll, TypeOK, Goto, tables, others
  <2>2. RemoteKnown'
    BY <1>3 DEF Poll, RemoteKnown, Goto, TypeOK
  <2> QED
    BY <1>3, <2>1, <2>2 DEF Poll, TablesAgree, KeepsAnnouncing, ListedKnown,
                            LeaversKnown, tables
<1>4. ASSUME NEW t \in Thread, Return(t) PROVE BaseInv'
  <2>1. TypeOK'
    BY <1>4 DEF Return, TypeOK, Goto, tables, others
  <2>2. RemoteKnown'
    BY <1>4 DEF Return, RemoteKnown, Goto, TypeOK
  <2> QED
    BY <1>4, <2>1, <2>2 DEF Return, TablesAgree, KeepsAnnouncing, ListedKnown,
                            LeaversKnown, tables
<1>5. ASSUME NEW t \in Thread, NEW p \in inbox, Receive(t, p) PROVE BaseInv'
  <2>1. p \in Packet /\ p.key \in Key
    BY DEF TypeOK, Packet
  <2>2. TypeOK'
    BY <1>5, <2>1 DEF Receive, TypeOK, Goto, tables
  <2>3. RemoteKnown'
    <3>1. udp_target[p.key] # Nobody => udp_target[p.key].key = p.key
      BY <2>1 DEF TypeOK, TablesAgree
    <3> QED
      BY <1>5, <2>1, <3>1 DEF Receive, RemoteKnown, Goto, TypeOK
  <2> QED
    BY <1>5, <2>2, <2>3 DEF Receive, TablesAgree, KeepsAnnouncing, ListedKnown,
                            LeaversKnown, tables
<1>6. ASSUME NEW t \in Thread, ReceiveFails(t) PROVE BaseInv'
  <2>1. TypeOK'
    BY <1>6 DEF ReceiveFails, TypeOK, Goto, tables, others
  <2>2. RemoteKnown'
    BY <1>6 DEF ReceiveFails, RemoteKnown, Goto, TypeOK
  <2> QED
    BY <1>6, <2>1, <2>2 DEF ReceiveFails, TablesAgree, KeepsAnnouncing, ListedKnown,
                            LeaversKnown, tables
<1>7. ASSUME NEW t \in Thread, Handled(t),
             UNCHANGED <<open, tables, leavers, others>>,
             stale' \subseteq NetworkTarget, present' \subseteq Key
      PROVE  BaseInv'
  <2>1. TypeOK'
    BY <1>7 DEF Handled, TypeOK, Goto, tables, others
  <2>2. RemoteKnown'
    BY <1>7 DEF Handled, RemoteKnown, Goto, TypeOK
  <2> QED
    BY <1>7, <2>1, <2>2 DEF TablesAgree, KeepsAnnouncing, ListedKnown, LeaversKnown, tables
<1>8. ASSUME NEW t \in Thread, Ignore(t) PROVE BaseInv'
  BY <1>7, <1>8 DEF Ignore, TypeOK
<1>9. ASSUME NEW t \in Thread, Refresh(t) PROVE BaseInv'
  BY <1>7, <1>9 DEF Refresh, TypeOK
<1>10. ASSUME NEW t \in Thread, Learn(t) PROVE BaseInv'
  <2> DEFINE k == packet[t].key
  <2>1. k \in Key
    BY <1>10 DEF Learn, RemoteKnown, Packet
  <2>2. CASE udp_target[k] # Nobody
    BY <1>7, <1>10, <2>2 DEF Learn, TypeOK
  <2>3. CASE udp_target[k] = Nobody
    <3>1. PICK o \in Fresh(k) :
            /\ Insert(o)
            /\ stale' = stale \ {o}
            /\ remote' = [remote EXCEPT ![t] = o]
            /\ packet' = packet
            /\ Goto(t, "joining")
            /\ UNCHANGED <<open, leavers, others, present>>
      BY <1>10, <2>3 DEF Learn
    <3>2. o \in NetworkTarget /\ o.key = k
      BY FreshType
    <3>3. /\ targets' \subseteq NetworkTarget
          /\ name_target' \subseteq NetworkTarget
          /\ udp_target' \in [Key \cup {AnnounceKey} -> NetworkTarget \cup {Nobody}]
          /\ TablesAgree' /\ KeepsAnnouncing' /\ ListedKnown'
      BY <2>1, <3>1, <3>2, InsertAgrees
    <3>4. TypeOK'
      BY <3>1, <3>2, <3>3 DEF TypeOK, Goto, others
    <3>5. RemoteKnown'
      BY <2>1, <3>1, <3>2, NobodyType DEF RemoteKnown, Goto, TypeOK
    <3> QED
      BY <3>1, <3>3, <3>4, <3>5 DEF LeaversKnown
  <2> QED
    BY <2>2, <2>3
<1>11. ASSUME NEW t \in Thread, JoinCallback(t) PROVE BaseInv'
  <2>1. present' \subseteq Key
    BY <1>11 DEF JoinCallback, RemoteKnown, TypeOK
  <2> QED
    BY <1>7, <1>11, <2>1 DEF JoinCallback, TypeOK
<1>12. ASSUME NEW t \in Thread, Leave(t) PROVE BaseInv'
  <2>1. CASE udp_target[packet[t].key] = Nobody
    BY <1>7, <1>12, <2>1 DEF Leave, TypeOK
  <2>2. CASE udp_target[packet[t].key] # Nobody
    <3>1. /\ Remove({remote[t]})
          /\ stale' = stale \ {remote[t]}
          /\ leavers' = [leavers EXCEPT ![t] = {remote[t]}]
          /\ Handled(t)
          /\ UNCHANGED <<open, others, present>>
      BY <1>12, <2>2 DEF Leave
    <3>2. remote[t] \in NetworkTarget /\ remote[t].key \in Key
      BY <1>12 DEF Leave, RemoteKnown, TypeOK
    <3>3. /\ targets' \subseteq NetworkTarget
          /\ name_target' \subseteq NetworkTarget
          /\ udp_target' \in [Key \cup {AnnounceKey} -> NetworkTarget \cup {Nobody}]
          /\ TablesAgree' /\ KeepsAnnouncing' /\ ListedKnown'
      BY <3>1, <3>2, RemoveAgrees
    <3>4. TypeOK'
      BY <3>1, <3>2, <3>3 DEF TypeOK, Handled, Goto, others
    <3>5. RemoteKnown'
      BY <3>1 DEF RemoteKnown, Handled, Goto, TypeOK
    <3>6. LeaversKnown'
      BY <3>1, <3>2 DEF LeaversKnown, TypeOK
    <3> QED
      BY <3>3, <3>4, <3>5, <3>6
  <2> QED
    BY <2>1, <2>2
<1>13. ASSUME NEW t \in Thread, Shutdown(t) PROVE BaseInv'
  <2>1. TypeOK'
    BY <1>13 DEF Shutdown, TypeOK, tables, threads
  <2> QED
    BY <1>13, <2>1 DEF Shutdown, TablesAgree, KeepsAnnouncing, ListedKnown, RemoteKnown,
                       LeaversKnown, tables, threads
<1>14. ASSUME NEW t \in Thread, Reset(t) PROVE BaseInv'
  <2>1. TypeOK'
    BY <1>14, AllTargetType DEF Reset, TypeOK, threads, others
  <2>2. TablesAgree'
    BY <1>14 DEF Reset, TablesAgree, AllTarget
  <2> QED
    BY <1>14, <2>1, <2>2 DEF Reset, KeepsAnnouncing, ListedKnown, RemoteKnown,
                             LeaversKnown, threads
<1>15. ASSUME NEW t \in Thread, ResetFails(t) PROVE BaseInv'
  <2>1. TypeOK'
    BY <1>15 DEF ResetFails, TypeOK, threads, others
  <2>2. TablesAgree'
    BY <1>15 DEF ResetFails, TablesAgree
  <2> QED
    BY <1>15, <2>1, <2>2 DEF ResetFails, KeepsAnnouncing, ListedKnown, RemoteKnown,
                             LeaversKnown, threads
<1>16. ASSUME UNCHANGED <<open, tables, threads, present>>,
              stale' \subseteq NetworkTarget, up' \subseteq Key, inbox' \subseteq Packet
       PROVE  BaseInv'
  <2>1. TypeOK'
    BY <1>16 DEF TypeOK, tables, threads
  <2> QED
    BY <1>16, <2>1 DEF TablesAgree, KeepsAnnouncing, ListedKnown, RemoteKnown,
                       LeaversKnown, tables, threads
<1>17. ASSUME NEW o \in targets, Age(o) PROVE BaseInv'
  BY <1>16, <1>17 DEF Age, TypeOK, others
<1>18. ASSUME NEW k \in Key, Start(k) PROVE BaseInv'
  BY <1>16, <1>18 DEF Start, TypeOK
<1>19. ASSUME NEW k \in Key, NEW type \in Sends, Transmit(k, type) PROVE BaseInv'
  <2>1. From(k, type) \in Packet
    BY SendsAssumption DEF From, Packet
  <2> QED
    BY <1>16, <1>19, <2>1 DEF Transmit, TypeOK
<1>20. ASSUME NEW k \in Key, Stop(k) PROVE BaseInv'
  <2>1. From(k, "LEAVE") \in Packet
    BY DEF From, Packet
  <2>2. inbox' \subseteq Packet
    BY <1>20, <2>1 DEF Stop, TypeOK
  <2> QED
    BY <1>16, <1>20, <2>2 DEF Stop, TypeOK
<1>21. CASE UNCHANGED vars
  BY <1>16, <1>21 DEF vars, TypeOK, others
<1> QED
  BY <1>1, <1>2, <1>3, <1>4, <1>5, <1>6, <1>8, <1>9, <1>10, <1>11, <1>12, <1>13, <1>14,
     <1>15, <1>17, <1>18, <1>19, <1>20, <1>21 DEF Next, Step

LEMMA BaseInvariant == Spec => []BaseInv
<1> QED
  BY BaseInit, BaseStep, PTL DEF Spec

\* Every state is well typed: tables, packets, and what the threads have read.
THEOREM MembershipTypes == Spec => []TypeOK
<1>1. BaseInv => TypeOK
  BY DEF BaseInv
<1> QED
  BY <1>1, BaseInvariant, PTL

\* With any number of threads in any order, a target that is found by its key is
\* in the list where it can time out, and the list is what is sent to by name:
\* remove_target() and the double check in the ANNOUNCE case keep it so.
THEOREM TablesStayInAgreement == Spec => []TablesAgree
<1>1. BaseInv => TablesAgree
  BY DEF BaseInv
<1> QED
  BY <1>1, BaseInvariant, PTL

\* With any number of threads, no timeout and no LEAVE takes the "all" target
\* out, so an open network keeps announcing itself.
THEOREM AnnouncingGoesOn == Spec => []KeepsAnnouncing
<1>1. BaseInv => KeepsAnnouncing
  BY DEF BaseInv
<1> QED
  BY <1>1, BaseInvariant, PTL

-----------------------------------------------------------------------------
(* SoloInv is an invariant if there is one thread.                          *)

\* Taking listed targets out leaves the others reachable by their keys.
LEMMA RemoveAddressable ==
    ASSUME TypeOK, TablesAgree, Addressable,
           NEW gone, gone \subseteq targets, Remove(gone)
    PROVE  /\ Addressable'
           /\ \A k \in Key \cup {AnnounceKey} :
                 udp_target'[k] # Nobody <=>
                    udp_target[k] # Nobody /\ ~\E o \in gone : o.key = k
<1>1. ASSUME NEW o \in targets' PROVE udp_target'[o.key] = o
  <2>1. o \in targets /\ o \notin gone /\ o.key \in Key \cup {AnnounceKey}
    BY <1>1 DEF Remove, TypeOK, NetworkTarget
  <2>2. ~\E q \in gone : q.key = o.key
    BY <2>1 DEF Addressable
  <2> QED
    BY <2>1, <2>2 DEF Remove, TypeOK, Addressable
<1> QED
  BY <1>1 DEF Addressable, Remove, TypeOK

\* An action that leaves the tables and the callbacks alone, and what a thread
\* is working on or has finished to work on.
LEMMA SoloUnchanged ==
    ASSUME SoloInv, UNCHANGED <<tables, leavers, present>>,
           \A t \in Thread :
              \/ pc'[t] = pc[t] /\ remote'[t] = remote[t] /\ packet'[t] = packet[t]
              \/ pc[t] # "joining" /\ pc'[t] \notin {"handling", "joining"}
                 /\ (pc[t] = "reading" => pc'[t] = "reading" \/ leavers[t] = {})
    PROVE  Addressable' /\ PresentAgrees' /\ LookupCurrent' /\ LeaversGone'
<1>1. Addressable'
  BY DEF SoloInv, Addressable, tables
<1>2. PresentAgrees'
  BY DEF SoloInv, PresentAgrees, tables
<1>3. LookupCurrent'
  BY DEF SoloInv, LookupCurrent, tables
<1>4. LeaversGone'
  BY DEF SoloInv, LeaversGone, tables
<1> QED
  BY <1>1, <1>2, <1>3, <1>4

LEMMA SoloInit == Init => SoloInv
<1> SUFFICES ASSUME Init PROVE SoloInv
  OBVIOUS
<1>1. BaseInv
  BY BaseInit
<1> QED
  BY <1>1 DEF Init, SoloInv, Addressable, PresentAgrees, LookupCurrent, LeaversGone

LEMMA SoloStep ==
    ASSUME Solo
    PROVE  SoloInv /\ [Next]_vars => SoloInv'
<1> SUFFICES ASSUME SoloInv, [Next]_vars PROVE SoloInv'
  OBVIOUS
<1>1. PICK t : Thread = {t}
  BY DEF Solo
<1>2. BaseInv /\ BaseInv'
  BY BaseStep DEF SoloInv
<1>3. TypeOK /\ TypeOK' /\ TablesAgree
  BY <1>2 DEF BaseInv
<1>4. SUFFICES Addressable' /\ PresentAgrees' /\ LookupCurrent' /\ LeaversGone'
  BY <1>2 DEF SoloInv
<1> DEFINE Goal == Addressable' /\ PresentAgrees' /\ LookupCurrent' /\ LeaversGone'
<1>5. t \in Thread
  BY <1>1
<1>6. CASE Process(t)
  <2>1. leavers[t] = {} /\ pc[t] = "idle" /\ pc'[t] = "reading" /\ leavers'[t] = Due
    BY <1>3, <1>5, <1>6 DEF Process, SoloInv, LeaversGone, Goto, TypeOK
  <2>2. Due \subseteq targets
    BY DEF Due
  <2>3. /\ Addressable'
        /\ \A k \in Key \cup {AnnounceKey} :
              udp_target'[k] # Nobody <=>
                 udp_target[k] # Nobody /\ ~\E o \in Due : o.key = k
    BY <1>3, <1>6, <2>2, RemoveAddressable DEF Process, SoloInv
  <2>4. \A o \in Due : udp_target[o.key] = o /\ o # Nobody /\ o.key \in Key
    BY <1>2, <2>2, NobodyType, DueKnown DEF BaseInv, SoloInv, Addressable
  <2>5. PresentAgrees'
    <3>1. present' = present
      BY <1>6 DEF Process
    <3>2. ASSUME NEW k \in Key
          PROVE  k \in present <=> udp_target[k] # Nobody
      BY <1>1, <2>1 DEF SoloInv, PresentAgrees
    <3> QED
      BY <1>1, <2>1, <2>3, <2>4, <3>1, <3>2 DEF PresentAgrees
  <2>6. LookupCurrent'
    BY <1>1, <2>1 DEF LookupCurrent
  <2>7. LeaversGone'
    BY <1>1, <2>1, <2>3, <2>4 DEF LeaversGone
  <2> QED
    BY <2>3, <2>5, <2>6, <2>7
<1>7. CASE LeaveCallback(t)
  <2>1. PICK o \in leavers[t] :
           /\ leavers' = [leavers EXCEPT ![t] = @ \ {o}]
           /\ present' = present \ {o.key}
           /\ UNCHANGED <<tables, pc, remote, packet>>
    BY <1>7 DEF LeaveCallback
  <2>2. leavers'[t] = leavers[t] \ {o} /\ pc[t] = "reading"
    BY <1>3, <1>5, <2>1 DEF TypeOK, SoloInv, LeaversGone
  <2>3. udp_target[o.key] = Nobody /\ \A q \in leavers[t] : q.key = o.key => q = o
    BY <1>5 DEF SoloInv, LeaversGone
  <2>4. PresentAgrees'
    BY <1>1, <2>1, <2>2, <2>3 DEF SoloInv, PresentAgrees, tables
  <2>5. Addressable' /\ LookupCurrent' /\ LeaversGone'
    BY <1>1, <2>1, <2>2 DEF SoloInv, Addressable, LookupCurrent, LeaversGone, tables
  <2> QED
    BY <2>4, <2>5
<1>8. CASE Poll(t) \/ Return(t) \/ ReceiveFails(t) \/ Ignore(t) \/ Refresh(t)
  <2>1. pc[t] # "joining" /\ pc'[t] \in {"idle", "reading", "receiving"}
    BY <1>3, <1>5, <1>8 DEF TypeOK, Poll, Return, ReceiveFails, Ignore, Refresh, Handled, Goto
  <2>2. pc[t] = "reading" => leavers[t] = {}
    BY <1>8 DEF Poll, Return, ReceiveFails, Ignore, Refresh
  <2>3. UNCHANGED <<tables, leavers, present>>
    BY <1>8 DEF Poll, Return, ReceiveFails, Ignore, Refresh
  <2> QED
    BY <1>1, <2>1, <2>2, <2>3, SoloUnchanged
<1>9. ASSUME NEW p \in inbox, Receive(t, p) PROVE Goal
  <2>1. /\ pc[t] = "receiving" /\ pc'[t] = "handling"
        /\ packet'[t] = p /\ remote'[t] = udp_target[p.key]
        /\ UNCHANGED <<tables, leavers, present>>
    BY <1>3, <1>5, <1>9 DEF Receive, TypeOK, Goto
  <2>2. leavers[t] = {}
    BY <1>5, <2>1 DEF SoloInv, LeaversGone
  <2> QED
    BY <1>1, <2>1, <2>2
       DEF SoloInv, Addressable, PresentAgrees, LookupCurrent, LeaversGone, tables
<1>10. CASE Learn(t)
  <2> DEFINE k == packet[t].key
  <2>1. k \in Key /\ udp_target[k] = Nobody /\ leavers[t] = {} /\ pc[t] = "handling"
    BY <1>2, <1>5, <1>10
       DEF Learn, BaseInv, RemoteKnown, Packet, SoloInv, LookupCurrent, LeaversGone
  <2>2. PICK o \in Fresh(k) :
          /\ Insert(o)
          /\ remote' = [remote EXCEPT ![t] = o]
          /\ Goto(t, "joining")
          /\ UNCHANGED <<leavers, present>>
    BY <1>10, <2>1 DEF Learn
  <2>3. o \in NetworkTarget /\ o.key = k /\ o # Nobody
    BY FreshType, NobodyType
  <2>4. /\ targets' = targets \cup {o} /\ udp_target'[k] = o
        /\ \A j \in (Key \cup {AnnounceKey}) \ {k} : udp_target'[j] = udp_target[j]
        /\ remote'[t] = o /\ pc'[t] = "joining"
    BY <1>3, <1>5, <2>1, <2>2, <2>3 DEF Insert, TypeOK, Goto
  <2>5. Addressable'
    <3>1. ASSUME NEW q \in targets PROVE q.key # k /\ q.key \in Key \cup {AnnounceKey}
      BY <1>3, <2>1, NobodyType DEF SoloInv, Addressable, TypeOK, NetworkTarget
    <3> QED
      BY <2>3, <2>4, <3>1 DEF SoloInv, Addressable
  <2>6. PresentAgrees'
    BY <1>1, <2>1, <2>2, <2>3, <2>4 DEF SoloInv, PresentAgrees
  <2>7. LookupCurrent' /\ LeaversGone'
    BY <1>1, <2>1, <2>2, <2>3, <2>4 DEF LookupCurrent, LeaversGone
  <2> QED
    BY <2>5, <2>6, <2>7
<1>11. CASE JoinCallback(t)
  <2>1. /\ pc[t] = "joining" /\ pc'[t] = "reading"
        /\ present' = present \cup {remote[t].key}
        /\ UNCHANGED <<tables, leavers>>
    BY <1>3, <1>5, <1>11 DEF JoinCallback, Handled, Goto, TypeOK
  <2>2. leavers[t] = {} /\ udp_target[remote[t].key] = remote[t] /\ remote[t] # Nobody
    BY <1>2, <1>5, <2>1 DEF SoloInv, LeaversGone, LookupCurrent, BaseInv, RemoteKnown
  <2>3. PresentAgrees'
    BY <1>1, <2>1, <2>2 DEF SoloInv, PresentAgrees, tables
  <2> QED
    BY <1>1, <2>1, <2>2, <2>3 DEF SoloInv, Addressable, LookupCurrent, LeaversGone, tables
<1>12. CASE Leave(t)
  <2> DEFINE k == packet[t].key
  <2>1. /\ k \in Key /\ pc[t] = "handling" /\ leavers[t] = {}
        /\ udp_target[k] = remote[t] /\ remote[t] # Nobody /\ remote[t].key = k
    BY <1>2, <1>5, <1>12
       DEF Leave, BaseInv, RemoteKnown, Packet, SoloInv, LookupCurrent, LeaversGone
  <2>2. /\ Remove({remote[t]}) /\ leavers'[t] = {remote[t]} /\ pc'[t] = "reading"
        /\ present' = present
    BY <1>3, <1>5, <1>12, <2>1 DEF Leave, Handled, Goto, TypeOK
  <2>3. {remote[t]} \subseteq targets
    BY <1>3, <2>1 DEF TablesAgree, TypeOK
  <2>4. /\ Addressable'
        /\ \A j \in Key \cup {AnnounceKey} :
              udp_target'[j] # Nobody <=>
                 udp_target[j] # Nobody /\ ~\E o \in {remote[t]} : o.key = j
    BY <1>3, <2>2, <2>3, RemoveAddressable DEF SoloInv
  <2>5. PresentAgrees'
    BY <1>1, <2>1, <2>2, <2>4 DEF SoloInv, PresentAgrees
  <2>6. LookupCurrent' /\ LeaversGone'
    BY <1>1, <2>1, <2>2, <2>4 DEF LookupCurrent, LeaversGone
  <2> QED
    BY <2>4, <2>5, <2>6
<1>13. CASE Reset(t) \/ ResetFails(t)
  <2>1. pc[t] = "idle" /\ leavers[t] = {} /\ UNCHANGED threads /\ present' = {}
    BY <1>5, <1>13 DEF Reset, ResetFails, SoloInv, LeaversGone
  <2>2. \A k \in Key : udp_target'[k] = Nobody
    BY <1>13, KeyAssumption DEF Reset, ResetFails
  <2>3. Addressable'
    BY <1>13 DEF Reset, ResetFails, Addressable, AllTarget
  <2> QED
    BY <1>1, <2>1, <2>2, <2>3 DEF PresentAgrees, LookupCurrent, LeaversGone, threads
<1>14. ASSUME UNCHANGED <<tables, threads, present>> PROVE Goal
  BY <1>14, SoloUnchanged DEF threads
<1>15. CASE Shutdown(t)
  BY <1>14, <1>15 DEF Shutdown
<1>16. CASE \/ \E o \in targets : Age(o)
            \/ \E k \in Key : Start(k) \/ (\E type \in Sends : Transmit(k, type)) \/ Stop(k)
  BY <1>14, <1>16 DEF Age, Start, Transmit, Stop
<1>17. CASE UNCHANGED vars
  BY <1>14, <1>17 DEF vars
<1> QED
  BY <1>1, <1>6, <1>7, <1>8, <1>9, <1>10, <1>11, <1>12, <1>13, <1>15, <1>16, <1>17
     DEF Next, Step

LEMMA SoloInvariant ==
    ASSUME Solo
    PROVE  Spec => []SoloInv
<1>1. SoloInv /\ [Next]_vars => SoloInv'
  BY SoloStep
<1> QED
  BY <1>1, SoloInit, PTL DEF Spec

\* With one thread every target in the list is found by its key: no node is left
\* in the list that can neither announce itself nor leave.
THEOREM TargetsAddressable ==
    ASSUME Solo
    PROVE  Spec => []Addressable
<1>1. SoloInv => Addressable
  BY DEF SoloInv
<1> QED
  BY <1>1, SoloInvariant, PTL

\* With one thread the application is told what the tables say: a node is present
\* for it exactly if it is known, up to the callbacks about to be called.
THEOREM ApplicationInformed ==
    ASSUME Solo
    PROVE  Spec => []PresentAgrees
<1>1. SoloInv => PresentAgrees
  BY DEF SoloInv
<1> QED
  BY <1>1, SoloInvariant, PTL

\* With one thread join and leave callbacks of a node alternate.
THEOREM CallbacksAlternate ==
    ASSUME Solo
    PROVE  Spec => Alternate
<1> DEFINE InTurn ==
      \A t \in Thread :
         /\ pc[t] = "joining" /\ pc'[t] # "joining" => remote[t].key \notin present
         /\ \A o \in leavers[t] \ leavers'[t] : o.key \in present
<1>1. SoloInv => InTurn
  <2> SUFFICES ASSUME SoloInv, NEW t \in Thread
               PROVE  /\ pc[t] = "joining" => remote[t].key \notin present
                      /\ \A o \in leavers[t] : o.key \in present
    OBVIOUS
  <2>1. ASSUME pc[t] = "joining" PROVE remote[t].key \notin present
    <3>1. Thread = {t}
      BY DEF Solo
    <3>2. leavers[t] = {} /\ remote[t].key \in Key
      BY <2>1 DEF SoloInv, LeaversGone, BaseInv, RemoteKnown
    <3> QED
      BY <2>1, <3>1, <3>2 DEF SoloInv, PresentAgrees
  <2>2. ASSUME NEW o \in leavers[t] PROVE o.key \in present
    BY DEF SoloInv, BaseInv, LeaversKnown, PresentAgrees
  <2> QED
    BY <2>1, <2>2
<1>2. SoloInv /\ [Next]_vars => [InTurn]_vars
  BY <1>1
<1>3. Spec => []SoloInv
  BY SoloInvariant
<1> QED
  BY <1>2, <1>3, PTL DEF Spec, Alternate

\* With one thread leave_callback is only called for a target that was in the
\* list and has been taken out of it by the same step.
THEOREM LeaversLeft ==
    ASSUME Solo
    PROVE  Spec => ReallyLeft
<1> DEFINE Left == \A t \in Thread : \A o \in leavers'[t] \ leavers[t] : o \in targets \ targets'
<1>1. SoloInv /\ Next => Left
  <2> SUFFICES ASSUME SoloInv, Next, NEW t \in Thread, NEW o \in leavers'[t] \ leavers[t]
               PROVE  o \in targets \ targets'
    OBVIOUS
  <2>1. Thread = {t} /\ TypeOK /\ TablesAgree
    BY DEF Solo, SoloInv, BaseInv
  <2>2. CASE Process(t)
    <3>1. o \in Due
      BY <2>1, <2>2 DEF Process, TypeOK
    <3> QED
      BY <2>2, <3>1 DEF Process, Remove, Due
  <2>3. CASE LeaveCallback(t)
    BY <2>1, <2>3 DEF LeaveCallback, TypeOK
  <2>4. CASE Leave(t)
    <3>1. o = remote[t] /\ Remove({remote[t]})
      BY <2>1, <2>4 DEF Leave, TypeOK
    <3>2. remote[t] = udp_target[packet[t].key] /\ remote[t] # Nobody /\ packet[t].key \in Key
      BY <2>4 DEF Leave, SoloInv, LookupCurrent, BaseInv, RemoteKnown, Packet
    <3>3. remote[t] \in targets
      BY <2>1, <3>2 DEF TablesAgree, TypeOK
    <3> QED
      BY <3>1, <3>3 DEF Remove
  <2>5. leavers' = leavers \/ Process(t) \/ LeaveCallback(t) \/ Leave(t)
    BY <2>1 DEF Next, Step, Poll, Return, Receive, ReceiveFails, Ignore, Refresh, Learn,
                JoinCallback, Shutdown, Reset, ResetFails, Age, Start, Transmit, Stop, threads
  <2> QED
    BY <2>2, <2>3, <2>4, <2>5
<1>2. SoloInv /\ [Next]_vars => [Left]_vars
  BY <1>1
<1>3. Spec => []SoloInv
  BY SoloInvariant
<1> QED
  BY <1>2, <1>3, PTL DEF Spec, ReallyLeft
=============================================================================
