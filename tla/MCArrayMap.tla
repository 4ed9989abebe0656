----------------------------- MODULE MCArrayMap -----------------------------
(* Tables of four slots, built from two entries on.  The strings s1 and s2   *)
(* have one home, and so have s3 and the freed string.                       *)
EXTENDS ArrayMap

CONSTANTS s1, s2, s3, s4, empty

MCStrKeys == {s1, s2, s3}
MCIntKeys == {0, 1}
MCHashOf  ==
    [k \in MCStrKeys \cup MCIntKeys \cup {empty} |->
        CASE k \in {s1, s2} -> 0 [] k \in {s3, empty} -> 1 [] k = 0 -> 3 [] k = 1 -> 2]

\* Strings only, each with a home of its own.
HangStrKeys == {s1, s2, s3, s4}
HangIntKeys == {}
HangHashOf  ==
    [k \in HangStrKeys \cup {empty} |->
        CASE k \in {s1, empty} -> 0 [] k = s2 -> 1 [] k = s3 -> 2 [] k = s4 -> 3]
=============================================================================
