----------------------------- MODULE TaskGroups -----------------------------
(* The groups of the scheduler (src/nuclear/src/threading/scheduler/Group.cpp):  *)
(* each limits how many of its tasks hold one of its tokens.  A group is the     *)
(* record below; its operations are the critical sections of its mutex, as       *)
(* functions from the group before to the group after.                           *)
(*                                                                               *)
(* The queue of a group is sorted by Before and holds one handle per task, so it *)
(* is the set of the tasks it has handles of.                                    *)
EXTENDS Integers, FiniteSets

CONSTANTS
    Task,        \* the tasks
    Id,          \* Id[t]: the sequence number a task got when it was created
    Priority     \* Priority[t]: higher ones run first

ASSUME TaskAssumption == /\ IsFiniteSet(Task)
                         /\ Id \in [Task -> Nat]
                         /\ Priority \in [Task -> Int]
                         /\ \A s, t \in Task : Id[s] = Id[t] => s = t

(* operator< of ReactionTask and of LockHandle: s stands before t in a queue. *)
Before(s, t) == \/ Priority[s] > Priority[t]
                \/ Priority[s] = Priority[t] /\ Id[s] < Id[t]

GroupState == [tokens : Int, queue : SUBSET Task,
               locked : SUBSET Task, notified : SUBSET Task]

(* A new group: as many tokens as its descriptor says. *)
NewGroup(concurrency) ==
    [tokens |-> concurrency, queue |-> {}, locked |-> {}, notified |-> {}]

(* The tokens that are left when every handle up to and including t that is not  *)
(* locked has taken one: the variable "free" of the three loops.                 *)
Free(g, t) == g.tokens - Cardinality({s \in g.queue \ g.locked : (s = t) \/ Before(s, t)})

(* Group::lock(): insert a handle; those pushed out of the window are notified   *)
(* again when they come back into it.                                            *)
Insert(g, t) ==
    LET h == [g EXCEPT !.queue = @ \union {t}]
    IN  [h EXCEPT !.notified = {s \in @ : Free(h, s) >= 0}]

(* GroupLock::lock() succeeds: the handle is locked, or a token is left for it   *)
(* when those before it have got theirs.                                         *)
Lockable(g, t) == \/ t \in g.locked
                  \/ t \in g.queue /\ Free(g, t) >= 0

Lock(g, t) == IF t \in g.locked THEN g
              ELSE [g EXCEPT !.locked = @ \union {t}, !.tokens = @ - 1]

\* Mutant of Unlock: the token does not come back.
UnlockMutant(g, t) ==
    [g EXCEPT !.queue = @ \ {t}, !.locked = @ \ {t}, !.notified = @ \ {t}]
(* ~GroupLock(): the token comes back, the handle goes.                          *)
Unlock(g, t) ==
    [g EXCEPT !.tokens = IF t \in g.locked THEN @ + 1 ELSE @,
              !.queue = @ \ {t}, !.locked = @ \ {t}, !.notified = @ \ {t}]

\* Mutant of Told: nobody is notified.
ToldMutant(g) == {}
(* ... and the handles that may lock now and have not been told are notified.    *)
Told(g) == {s \in g.queue \ (g.locked \union g.notified) : Free(g, s) >= 0}

Release(g, t) == LET h == Unlock(g, t) IN [h EXCEPT !.notified = @ \union Told(h)]
=============================================================================
