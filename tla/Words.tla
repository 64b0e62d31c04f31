------------------------------- MODULE Words -------------------------------
(* The words of on<...>() and their fusion (dsl/word, dsl/fusion). A sentence is a        *)
(* sequence of words. Each hook of the sentence (bind, get, precondition, priority,       *)
(* run_inline, pool, scope, post_run) is put together from those of its words that have   *)
(* the hook, and is a default when none has (NoOp.hpp).                              *)
EXTENDS Integers, Sequences, FiniteSets, FiniteSetsExt, FunctionFusion

Word(word, of) == <<[word |-> word, of |-> of, keep |-> 0, optional |-> FALSE]>>

Trigger(T) == Word("Trigger", T)
With(T) == Word("With", T)
Network(T) == Word("Network", T)
Buffer(n) == Word("Buffer", n)
Single == Buffer(1)
Once == Word("Once", 1)             \* a Single that unbinds itself
Always == Word("Always", 0)
Inline(choice) == Word("Inline", choice)
Priority(value) == Word("Priority", value)
Pool(p) == Word("Pool", p)
TaskScope == Word("TaskScope", 0)

(* Words of words: these are fused, and get wraps each of the data. A Last in an Optional *)
(* is no transient any more, and keeps nothing.                                      *)
LastOf(n, sentence) == [i \in DOMAIN sentence |-> [sentence[i] EXCEPT !.keep = n]]
Optional(sentence) == [i \in DOMAIN sentence |-> [sentence[i] EXCEPT !.keep = 0, !.optional = TRUE]]

(* FindWords: those that have a hook, in their order.                                *)
Find(sentence, words) == SelectSeq(sentence, LAMBDA w : w.word \in words)
Of(sentence, words) == {Find(sentence, words)[i].of : i \in DOMAIN Find(sentence, words)}
-----------------------------------------------------------------------------
(* bind: the types that trigger a sentence.                                         *)
Triggers(s) == Of(s, {"Trigger", "Network"})

(* get: the words that give data. Of a Last, and of a Network that is not Optional, the    *)
(* data are kept from one task to the next (is_transient).                           *)
Giving(s) == Find(s, {"Trigger", "With", "Network"})
Gets(s) == Called([i \in DOMAIN Giving(s) |-> <<Giving(s)[i]>>])
Transient(w) == w.keep > 0 \/ (w.word = "Network" /\ ~w.optional)

(* precondition: all must hold.                                                     *)
Holds(w, active) == active < w.of + 1
Preconditions(s, active) ==
    \A i \in DOMAIN Find(s, {"Buffer", "Once"}) : Holds(Find(s, {"Buffer", "Once"})[i], active)

(* priority: the highest, or NORMAL.                                                *)
NORMAL == 500
PriorityOf(s) == IF Of(s, {"Priority"}) = {} THEN NORMAL ELSE Max(Of(s, {"Priority"}))

(* run_inline: ALWAYS and NEVER do not go together; without either it is up to the emit.   *)
InlineChoices(s) == Of(s, {"Inline"}) \union IF Find(s, {"Always"}) = <<>> THEN {} ELSE {"NEVER"}
RunInline(s) == IF InlineChoices(s) = {} THEN "NEUTRAL" ELSE CHOOSE c \in InlineChoices(s) : TRUE

(* pool: at most one; on<Always> has one of its own, with one thread.                   *)
Pooled(s) == Find(s, {"Pool", "Always"})
PoolOf(s, own, default) ==
    IF Pooled(s) = <<>> THEN default ELSE IF Pooled(s)[1].word = "Always" THEN own ELSE Pooled(s)[1].of

(* scope and post_run.                                                             *)
Scoped(s) == Find(s, {"TaskScope"}) # <<>>
PostRuns(s) == Find(s, {"Once", "Always"})

(* What the compiler, or the first task, would refuse.                               *)
Sensible(s) == s # <<>> /\ Cardinality(InlineChoices(s)) <= 1 /\ Len(Pooled(s)) <= 1
=============================================================================
