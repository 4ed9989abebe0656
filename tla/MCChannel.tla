----------------------------- MODULE MCChannel -----------------------------
(* Two producers and two consumers; p2 may also close, c2 may also look. *)
EXTENDS Channel, TLC

CONSTANTS p1, p2, c1, c2, v1, v2

MCThreads == {p1, p2, c1, c2}
MCValues  == {v1, v2}
MCAllowed == (p1 :> {"push"}) @@ (p2 :> {"push", "tryPush", "close"})
          @@ (c1 :> {"pop"}) @@ (c2 :> {"pop", "tryPop", "length", "isClosed"})

\* For liveness: one value, capacity 1, and c2 closes.
LiveValues  == {v1}
LiveAllowed == (p1 :> {"push"}) @@ (p2 :> {"push", "tryPush"})
            @@ (c1 :> {"pop"}) @@ (c2 :> {"pop", "close"})
=============================================================================
