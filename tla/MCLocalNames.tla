---------------------------- MODULE MCLocalNames ----------------------------
(* An instance of LocalNames for TLC: four queries that ask two questions,   *)
(* three of them the same.                                                   *)
EXTENDS LocalNames, TLC

CONSTANTS q1, q2, q3, q4, nas, box, wifi

FourQueries == {q1, q2, q3, q4}
Asks == [q \in Queries |-> IF q = q2 THEN box ELSE nas]
OneNetwork == {wifi}
=============================================================================
