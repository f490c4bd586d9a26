---------------------------- MODULE MCSubprocess ----------------------------
(* Two scout processes at once, each asking for its own project.             *)
EXTENDS Subprocess

CONSTANTS i1, i2, a1, a2

MCAnswer == [i \in {i1, i2} |-> IF i = i1 THEN a1 ELSE a2]
=============================================================================
