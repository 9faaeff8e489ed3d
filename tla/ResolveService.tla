--------------------------- MODULE ResolveService ---------------------------
(***************************************************************************)
(* What DohResolver::resolve (dns/src/doh.rs) promises its callers, without *)
(* upstreams or connections: at most MAX_IN_FLIGHT calls run at once, one   *)
(* more is refused at once with Busy, and a call that runs ends unless its  *)
(* caller drops it.                                                         *)
(***************************************************************************)
EXTENDS Naturals, FiniteSets

CONSTANTS Calls, MAX_IN_FLIGHT

VARIABLE call     \* per caller: what became of its call of resolve

Outcomes == {"answered", "failed"}
States == {"idle", "running", "busy"} \cup Outcomes

Running == {c \in Calls : call[c] = "running"}

Init == call = [c \in Calls |-> "idle"]

Becomes(c, from, to) == call[c] = from /\ call' = [call EXCEPT ![c] = to]

Begin(c) == Cardinality(Running) < MAX_IN_FLIGHT /\ Becomes(c, "idle", "running")

Refuse(c) == Cardinality(Running) = MAX_IN_FLIGHT /\ Becomes(c, "idle", "busy")

End(c) == \E outcome \in Outcomes : Becomes(c, "running", outcome)

\* The caller drops the future.
Drop(c) == Becomes(c, "running", "idle")

\* The caller takes the result, and may call again.
Return(c) == \E s \in States \ {"idle", "running"} : Becomes(c, s, "idle")

Next == \E c \in Calls :
  Begin(c) \/ Refuse(c) \/ End(c) \/ Drop(c) \/ Return(c)

Safe == Init /\ [][Next]_call

Spec == Safe /\ \A c \in Calls : WF_call(End(c) \/ Drop(c))
=============================================================================
