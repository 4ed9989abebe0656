---------------------------- MODULE MCGenerator ----------------------------
(* A generator with up to four yields, called up to six times.              *)
EXTENDS Generator
=============================================================================
