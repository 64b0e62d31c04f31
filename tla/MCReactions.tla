---------------------------- MODULE MCReactions ----------------------------
(* An instance of Reactions for TLC.                                              *)
EXTENDS Reactions, TLC
CONSTANTS a, b, pkt, inl, sng, one, net, alw, out, w, own

Order == <<inl, sng, one, net, alw>>
Sentences ==
    inl :> Trigger(a) \o Inline("ALWAYS") \o TaskScope @@
    sng :> Trigger(a) \o Optional(With(b)) \o Single @@
    one :> LastOf(2, Trigger(b)) \o Once @@
    net :> Network(pkt) \o Trigger(a) \o Priority(750) @@
    alw :> Always
EmittedBy == [r \in Range(Order) |-> CASE r = inl -> {a} [] r = alw -> {a, b} [] OTHER -> {}]
ScopesOf == a :> {FALSE, TRUE} @@ b :> {FALSE, TRUE} @@ pkt :> {FALSE}
ServedBy == out :> out @@ w :> w @@ own :> alw

\* The division of up to four arguments among three words is the greedy one, whatever
\* numbers of arguments each can take.
ASSUME DividedIsGreedy ==
    \A args \in 0..4 : \A takes \in [1..3 -> SUBSET (0..2)] :
        LET fits == {<<f, i, j>> \in (1..3) \X (0..4) \X (0..4) : (j - i) \in takes[f]}
        IN  Divided(3, args, fits) = Greedy(3, args, fits)
=============================================================================
