--------------------------- MODULE MCHeaderLookup ---------------------------
(* Four blocks back to back, the second without data, under every order of *)
(* their priorities: enough for a rotation below a rotation and a merge    *)
(* that recurses.  The hashes collide in a table of four slots, wrap       *)
(* around its end, and part again in eight; a few functions of them stand  *)
(* for the rest.                                                           *)
EXTENDS HeaderLookup

Blocks == {0, 2, 3, 5}
Sizes == [b \in Blocks |-> IF b = 2 THEN 0 ELSE 1]
Hashes == {0, 3, 7}

Mixed == [b \in Blocks |-> IF b \in {0, 5} THEN 3 ELSE IF b = 2 THEN 0 ELSE 7]
Colliding == [b \in Blocks |-> 3]

MCInit == InitTables /\ hash \in {Mixed, Colliding}
MCSpec == MCInit /\ [][NextTables]_tables
=============================================================================
