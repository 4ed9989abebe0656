------------------------------- MODULE PhpMap -------------------------------
(***************************************************************************)
(* What an array promises about its keys: each is there once, an           *)
(* assignment adds one and nothing else, unset removes it and nothing      *)
(* else.  Values travel with their keys and are left out, and so is the    *)
(* order (array.h: unset does not keep it).                                *)
(***************************************************************************)
CONSTANTS StrKeys, IntKeys

VARIABLE keys

Init == keys = {}

Assign(k) == keys' = keys \cup {k}
Remove(k) == keys' = keys \ {k}
Append    == \E k \in IntKeys \ keys : Assign(k)
Take      == \E k \in keys : Remove(k)

Next == (\E k \in StrKeys \cup IntKeys : Assign(k) \/ Remove(k)) \/ Append \/ Take
Spec == Init /\ [][Next]_keys
=============================================================================
