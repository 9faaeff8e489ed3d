------------------------ MODULE MCClientConnections ------------------------
(* Three connections; see ClientConnections.cfg for the bounds.            *)
EXTENDS ClientConnections, TLC

CONSTANTS c1, c2, c3

ThreeConns == {c1, c2, c3}

=============================================================================
