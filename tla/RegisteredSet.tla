--------------------------- MODULE RegisteredSet ---------------------------
(***************************************************************************)
(* What the rest of the runtime relies on: the registry is a set of        *)
(* blocks.  Insertion may fail silently, when the table cannot grow.       *)
(***************************************************************************)
CONSTANT Block
VARIABLE known

Init == known = {}

Insert(b) == b \notin known /\ known' = known \cup {b}
Remove(b) == b \in known /\ known' = known \ {b}
Clear     == known' = {}

Next == Clear \/ \E b \in Block : Insert(b) \/ Remove(b)

Spec == Init /\ [][Next]_known
=============================================================================
