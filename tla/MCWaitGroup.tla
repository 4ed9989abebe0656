---------------------------- MODULE MCWaitGroup ----------------------------
(* Main announces, starts, waits for, joins, detaches and destructs two      *)
(* workers; a worker reports, announces more work, or waits, too.            *)
EXTENDS WaitGroup, TLC

CONSTANTS main, w1, w2

MCWorkers == {w1, w2}
MCOwners  == {main}
MCDeltas  == {-1, 1, 2}
MCAdds    == (main :> {1, 2}) @@ (w1 :> {-1, 1}) @@ (w2 :> {-1})
MCBudget  == (main :> 6) @@ (w1 :> 2) @@ (w2 :> 2)
=============================================================================
