--------------------------- MODULE MCPinLearning ---------------------------
(* Instances of PinLearning for TLC: windows of a few seconds, with the    *)
(* order between them that policy.rs has.                                  *)
EXTENDS PinLearning, TLC

CONSTANTS a, b, c

Hosts1 == {a}
TwoHosts == {a, b}
ThreeHosts == {a, b, c}

\* No saved pins, or one that expires before the others.
NothingSaved == {Empty}
OneSaved == {Empty, [h \in {a} |-> 0]}
=============================================================================
