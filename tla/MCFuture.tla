------------------------------ MODULE MCFuture ------------------------------
(* Two threads settle two futures; two others wait for them in every way. *)
EXTENDS Future, TLC

CONSTANTS s1, s2, w1, w2, f, g, v1, v2, e1

MCThreads == {s1, s2, w1, w2}
MCFutures == {f, g}
MCValues == {v1, v2}
MCErrors == {e1}

One(m, fut) == Call(m, <<fut>>, NullValue)
Many(m, futs) == Call(m, futs, NullValue)

MCPrograms ==
       (s1 :> {Call("resolve", <<f>>, v1), Call("reject", <<g>>, e1)})
    @@ (s2 :> {Call("reject", <<f>>, e1), Call("resolve", <<g>>, v2), One("isReady", f)})
    @@ (w1 :> {One("await", f), One("then", f), Many("all", <<f, g>>), Many("all", <<>>)})
    @@ (w2 :> {One("await", f), One("catch", f), Many("race", <<f, g>>), Many("race", <<>>)})

\* The smallest instance for a build that may reorder plain stores.
ReorderPrograms ==
       (s1 :> {Call("resolve", <<f>>, v1)}) @@ (s2 :> {Call("reject", <<f>>, e1)})
    @@ (w1 :> {One("await", f)}) @@ (w2 :> {One("await", f)})
=============================================================================
