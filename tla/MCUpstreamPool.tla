--------------------------- MODULE MCUpstreamPool ---------------------------
(* Instances of UpstreamPool for TLC. *)
EXTENDS UpstreamPool, TLC

CONSTANTS r1, r2, r3, tls, mixed, plain

\* tls and plain speak HTTP/1.1, plain without TLS; the servers of mixed do not
\* agree on a protocol.
MixedOffers == [h \in Hosts |-> IF h = mixed THEN Protocols ELSE {"h1"}]

\* Three requests for tls, two for mixed, or three for an origin each.
SameOrSplit ==
  {[r \in Requests |-> tls], [r \in {r1, r2} |-> mixed],
   [r \in Requests |-> CASE r = r1 -> tls [] r = r2 -> mixed [] OTHER -> plain]}

=============================================================================
