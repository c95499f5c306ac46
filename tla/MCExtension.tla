----------------------------- MODULE MCExtension -----------------------------
(***************************************************************************)
(* An instance of Extension for TLC: three restarts and a deactivation;    *)
(* two documents of a project, one edited and saved twice, with processes  *)
(* enough that a cancelled check outlives the next one's start; two test   *)
(* files, two commands and two changes of the files; a run of three        *)
(* tests in two files whose calls may leave one process behind.            *)
(***************************************************************************)
EXTENDS Extension

CONSTANTS d1, d2, s1, s2, f1, f2, c1, c2, t1, t2, t3, p1

Versions == [d \in Doc |-> IF d = d1 THEN 2 ELSE 1]
Saves    == [d \in Doc |-> IF d = d1 THEN 2 ELSE 1]
Files    == {{t1, t2}, {t3}}
Anything == Steps
=============================================================================
