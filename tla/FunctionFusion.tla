--------------------------- MODULE FunctionFusion ---------------------------
(* How the arguments of an on<...>(...) or emit<...>(...) are divided among its words,  *)
(* and how the words are called (FunctionFusion.hpp). The compiler does the first.     *)
EXTENDS Integers, Sequences, FiniteSetsExt, SequencesExt

(* is_callable: <<f, i, j>> in fits says that function f can be called with the          *)
(* arguments i + 1 .. j; those that all of the functions share are left out.          *)

(* The main loop, for the functions f .. count and the arguments after i. A function is *)
(* given as many as it can take such that the rest can still be divided, and the last    *)
(* must use them up. The result is a set: {} when there is no way (false_type).         *)
Divided(count, args, fits) ==
    LET From[f \in 1..(count + 1), i \in 0..args] ==
            IF f > count THEN {ranges \in {<<>>} : i = args}
            ELSE LET ends == {j \in i..args : <<f, i, j>> \in fits /\ From[f + 1, j] # {}}
                     Rest(j) == {<<<<i, j>>>> \o ranges : ranges \in From[f + 1, j]}
                 IN IF ends = {} THEN {} ELSE Rest(Max(ends))
    IN From[1, 0]

(* FunctionFusionCaller: each function is called, in their order, and the tuples that     *)
(* they return make up one.                                                       *)
Called(tuples) == FlattenSeq(tuples)
-----------------------------------------------------------------------------
(* What Divided is for: all the ways to divide the arguments, of which the greatest in    *)
(* the order of the functions is meant (FunctionFusion.hpp:228-230).                 *)
Ways(count, args, fits) ==
    {ends \in [1..count -> 0..args] :
        \A f \in 1..count :
            LET start == IF f = 1 THEN 0 ELSE ends[f - 1] IN
            /\ start <= ends[f] /\ <<f, start, ends[f]>> \in fits
            /\ f = count => ends[f] = args}
Before(d, e) == \E f \in DOMAIN d : d[f] > e[f] /\ \A g \in 1..(f - 1) : d[g] = e[g]
Greedy(count, args, fits) ==
    LET ways == Ways(count, args, fits) IN
    {[f \in 1..count |-> <<IF f = 1 THEN 0 ELSE d[f - 1], d[f]>>] :
        d \in {w \in ways : \A v \in ways \ {w} : Before(w, v)}}
=============================================================================
