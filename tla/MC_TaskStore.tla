---------------------------- MODULE MC_TaskStore ----------------------------
(* Small menus of definitions: dependencies, reduces and inline fallbacks;   *)
(* and named fallbacks.                                                      *)
EXTENDS TaskStore, TLC

CONSTANTS t1, t2, t3, t4, t5, t6

Plain(deps) == [deps |-> deps, inputs |-> {}, policy |-> "Abort", target |-> Nobody, of |-> Nobody,
                inline |-> DefaultSpec]
Continue(deps) == [Plain(deps) EXCEPT !.policy = "Continue"]
Reduce(inputs) == [Plain({}) EXCEPT !.inputs = inputs]
Fallback(deps, t) == [Plain(deps) EXCEPT !.policy = "Fallback", !.target = t]
Inline(deps) == [Plain(deps) EXCEPT !.policy = "Inline"]
InlineWith(deps, spec) == [Inline(deps) EXCEPT !.inline = spec]
Own(deps) == [DefaultSpec EXCEPT !.own = TRUE, !.deps = deps]
Anyway(spec) == [spec EXCEPT !.policy = "Continue"]

MCGraph ==
    (t1 :> {Plain({})}) @@ (t2 :> {Plain({t1}), Continue({t1}), Inline({t1}),
            InlineWith({t1}, Anyway(Own({t3})))}) @@
    (t3 :> {Plain({t1}), Reduce({t1, t2})}) @@ (t4 :> {Plain({t2, t3}), Continue({t3})})

\* t1 and t2 are mains of t3; t4 waits for one or both.
MCFallback ==
    (t3 :> {Plain({})}) @@ (t1 :> {Fallback({}, t3)}) @@ (t2 :> {Fallback({t1}, t3), InlineWith({t1}, [Own({t3}) EXCEPT !.inputs = {t1}])}) @@
    (t4 :> {Plain({t1}), Plain({t1, t2})})
=============================================================================
