--------------------------- MODULE MCDohUpstream ---------------------------
(* An instance of DohUpstream for TLC: two queries and a thread that resets. *)
EXTENDS DohUpstream, TLC

CONSTANTS q1, q2, r1

TwoQueries == {q1, q2}
OneResetter == {r1}

\* The two queries are alike, and both are polled: the first is called q1.
InTurn == pc'[q2] # "new" => pc'[q1] # "new"

InTurnSpec == Init /\ [][Next /\ InTurn]_vars /\ Fairness
=============================================================================
