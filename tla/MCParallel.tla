----------------------------- MODULE MCParallel -----------------------------
(* Ranges of up to five indices, and requests that an int of five bits holds *)
(* (0 is four threads), or takes for -7, 0 and 3.                            *)
EXTENDS Parallel

MCLengths  == {-1, 0, 1, 2, 3, 4, 5}
MCRequests == {0, 1, 2, 3, 7, 25, 32, 35}
=============================================================================
