----------------------------- MODULE DohResolver -----------------------------
(***************************************************************************)
(* The resolver over its upstreams (dns/src/doh.rs, impl DohResolver): the  *)
(* order in which a call tries them, the in-flight limit, the background    *)
(* probes that find out whether a down upstream is back, and                *)
(* reset_connections.  DohUpstream models one query to one upstream; here   *)
(* such a query is one wait with its result and its mark.                   *)
(*                                                                         *)
(* Calls and probes are tasks of one thread, and order has no await, so no *)
(* other task runs during it; a reset on another thread may fall between    *)
(* any two of its steps.                                                    *)
(***************************************************************************)
EXTENDS Naturals, Sequences, FiniteSets, Functions

CONSTANTS
  Calls,            \* callers of resolve
  Configured,       \* the configured upstreams, in order
  Valid,            \* those with a usable TLS name and path
  MAX_IN_FLIGHT,
  MaxResets         \* bound of an instance: calls of reset_connections

ASSUME ResolverAssumption ==
  /\ Configured \in Seq(Range(Configured)) /\ IsInjective(Configured)
  /\ IsFiniteSet(Calls)
  /\ MAX_IN_FLIGHT \in Nat \ {0} /\ MaxResets \in Nat

VARIABLES
  pc,               \* per call: its position in resolve
  todo,             \* per call: the upstreams still to try, in order
  path_changed,     \* per call: a reset ran during its query
  in_flight,        \* Semaphore: permits left
  mark,             \* per upstream: down_until is 0, ahead, or passed
  probing,          \* per upstream: AtomicBool
  probe,            \* per upstream: the probe tasks there are
  probe_changed,    \* per upstream: a reset ran during its probe
  to_reset,         \* the upstreams reset_connections has still to come to
  resets,
  link,             \* per upstream: what queries to it get now
  trouble           \* history, per call: upstreams that were not good meanwhile,
                    \* or failed it because of a reset

calls == <<pc, todo, path_changed, in_flight>>
upstream == <<mark, probing, probe, probe_changed, link>>
vars == <<calls, upstream, to_reset, resets, trouble>>

\* with_tls_config skips an upstream that Upstream::new refuses.
Upstreams == Range(Configured) \cap Valid

Before(u, v) ==
  \E i, j \in DOMAIN Configured : i < j /\ Configured[i] = u /\ Configured[j] = v

Marks == {"up", "down", "due"}
Positions == {"idle", "query", "answered", "failed", "busy"}

TypeOK ==
  /\ pc \in [Calls -> Positions]
  /\ todo \in [Calls -> Seq(Upstreams)]
  /\ path_changed \in [Calls -> BOOLEAN]
  /\ in_flight \in 0..MAX_IN_FLIGHT
  /\ mark \in [Upstreams -> Marks] /\ probing \in [Upstreams -> BOOLEAN]
  /\ probe \in [Upstreams -> Nat] /\ probe_changed \in [Upstreams -> BOOLEAN]
  /\ to_reset \subseteq Upstreams /\ resets \in 0..MaxResets
  /\ link \in [Upstreams -> {"good", "unusable", "dead"}]
  /\ trouble \in [Calls -> SUBSET Upstreams]

Init ==
  /\ pc = [c \in Calls |-> "idle"]
  /\ todo = [c \in Calls |-> <<>>]
  /\ path_changed = [c \in Calls |-> FALSE]
  /\ in_flight = MAX_IN_FLIGHT
  /\ mark = [u \in Upstreams |-> "up"]
  /\ probing = [u \in Upstreams |-> FALSE] /\ probe = [u \in Upstreams |-> 0]
  /\ probe_changed = [u \in Upstreams |-> FALSE]
  /\ to_reset = {} /\ resets = 0
  /\ link \in [Upstreams -> {"good", "unusable", "dead"}]
  /\ trouble = [c \in Calls |-> {}]
-----------------------------------------------------------------------------
(* resolve and order. *)

\* A message too short to be a query is refused before this and changes nothing.
Busy(c) ==
  /\ pc[c] = "idle" /\ in_flight = 0
  /\ pc' = [pc EXCEPT ![c] = "busy"]
  /\ UNCHANGED <<todo, path_changed, in_flight, upstream, to_reset, resets, trouble>>

\* What order may see of the marks: a reset that is under way may or may not
\* have come to an upstream when order looks at it.
Seen ==
  {seen \in [Upstreams -> Marks] : \A u \in Upstreams :
     seen[u] = mark[u] \/ (seen[u] = "up" /\ u \in to_reset)}

health(u, seen) ==
  CASE seen[u] = "up" -> "Up"
    [] seen[u] = "due" /\ ~probing[u] -> "Due"
    [] OTHER -> "Down"

\* Mutant: with an upstream up, the ones that are down are not tried.
OrdersUpOnly(seen) ==
  LET up == {u \in Upstreams : health(u, seen) = "Up"}
      tried == IF up = {} THEN Upstreams ELSE up
  IN {s \in [1..Cardinality(tried) -> tried] : Range(s) = tried}

\* What order returns: those that are up in configured order, then those that
\* are not.  There is one such sequence.
Orders(seen) ==
  LET Up(u) == health(u, seen) = "Up"
      Ahead(u, v) == IF Up(u) = Up(v) THEN Before(u, v) ELSE Up(u)
  IN {s \in [1..Cardinality(Upstreams) -> Upstreams] :
        /\ Range(s) = Upstreams
        /\ \A i, j \in DOMAIN s : i < j => Ahead(s[i], s[j])}

\* probe: a task of its own queries each upstream that is due.
StartProbes(seen) ==
  LET due == {u \in Upstreams : health(u, seen) = "Due"}
  IN /\ probing' = [u \in Upstreams |-> probing[u] \/ u \in due]
     /\ probe' = [u \in Upstreams |-> IF u \in due THEN probe[u] + 1 ELSE probe[u]]

Begin(c) ==
  /\ pc[c] = "idle" /\ in_flight > 0
  /\ in_flight' = in_flight - 1
  /\ pc' = [pc EXCEPT ![c] = "query"]
  /\ \E seen \in Seen : /\ \E s \in Orders(seen) : todo' = [todo EXCEPT ![c] = s]
                        /\ StartProbes(seen)
  /\ trouble' = [trouble EXCEPT ![c] = {u \in Upstreams : link[u] # "good"}]
  /\ UNCHANGED <<path_changed, mark, probe_changed, link, to_reset, resets>>

MarkedUp(u) == mark' = [mark EXCEPT ![u] = "up"]

\* Upstream::query returns an error.  An unusable answer marks the upstream up,
\* a failure marks it down.  A reset that ran meanwhile may itself be why the
\* query fails (connected_sender), and what began before it marks nothing.
QueryFails(u, changed) ==
  \/ link[u] = "unusable" /\ MarkedUp(u)
  \/ link[u] = "dead" /\ mark' = [mark EXCEPT ![u] = "down"]
  \/ changed /\ UNCHANGED mark

\* The permit goes back when the call ends in any way.
CallEnds(c, to) ==
  /\ pc' = [pc EXCEPT ![c] = to]
  /\ todo' = [todo EXCEPT ![c] = <<>>]
  /\ path_changed' = [path_changed EXCEPT ![c] = FALSE]
  /\ in_flight' = in_flight + 1

Answered(c) ==
  /\ pc[c] = "query" /\ todo[c] # <<>>
  /\ link[Head(todo[c])] = "good"
  /\ MarkedUp(Head(todo[c]))
  /\ CallEnds(c, "answered")
  /\ trouble' = [trouble EXCEPT ![c] = {}]
  /\ UNCHANGED <<probing, probe, probe_changed, link, to_reset, resets>>

\* The next upstream's turn.
TryNext(c) ==
  /\ pc[c] = "query" /\ todo[c] # <<>>
  /\ QueryFails(Head(todo[c]), path_changed[c])
  /\ trouble' = [trouble EXCEPT ![c] =
       IF path_changed[c] THEN @ \cup {Head(todo[c])} ELSE @]
  /\ todo' = [todo EXCEPT ![c] = Tail(@)]
  /\ path_changed' = [path_changed EXCEPT ![c] = FALSE]
  /\ UNCHANGED <<pc, in_flight, probing, probe, probe_changed, link, to_reset, resets>>

Failed(c) ==
  /\ pc[c] = "query" /\ todo[c] = <<>>
  /\ CallEnds(c, "failed")
  /\ UNCHANGED <<upstream, to_reset, resets, trouble>>

\* Mutant: the permit of a dropped call is not given back.
CancelKeepsPermit(c) ==
  /\ pc[c] = "query" /\ todo[c] # <<>>
  /\ pc' = [pc EXCEPT ![c] = "idle"]
  /\ todo' = [todo EXCEPT ![c] = <<>>]
  /\ path_changed' = [path_changed EXCEPT ![c] = FALSE]
  /\ trouble' = [trouble EXCEPT ![c] = {}]
  /\ UNCHANGED <<in_flight, upstream, to_reset, resets>>

\* The caller drops the future while it waits for an upstream.
Cancel(c) ==
  /\ pc[c] = "query" /\ todo[c] # <<>>
  /\ CallEnds(c, "idle")
  /\ trouble' = [trouble EXCEPT ![c] = {}]
  /\ UNCHANGED <<upstream, to_reset, resets>>

\* The caller takes the result; it may call again.
Return(c) ==
  /\ pc[c] \in {"answered", "failed", "busy"}
  /\ pc' = [pc EXCEPT ![c] = "idle"]
  /\ trouble' = [trouble EXCEPT ![c] = {}]
  /\ UNCHANGED <<todo, path_changed, in_flight, upstream, to_reset, resets>>
-----------------------------------------------------------------------------
(* Probes, time, the network. *)

\* Mutant: only a probe that finds the upstream back says that it is over.
ProbeEndsOnSuccess(u) ==
  /\ probe[u] > 0
  /\ (link[u] = "good" /\ MarkedUp(u)) \/ QueryFails(u, probe_changed[u])
  /\ probe' = [probe EXCEPT ![u] = @ - 1]
  /\ probe_changed' = [probe_changed EXCEPT ![u] = FALSE]
  /\ probing' = [probing EXCEPT ![u] = link[u] = "dead"]
  /\ UNCHANGED <<calls, to_reset, resets, link, trouble>>

\* The task of probe, after its query.
ProbeEnds(u) ==
  /\ probe[u] > 0
  /\ (link[u] = "good" /\ MarkedUp(u)) \/ QueryFails(u, probe_changed[u])
  /\ probe' = [probe EXCEPT ![u] = @ - 1]
  /\ probe_changed' = [probe_changed EXCEPT ![u] = FALSE]
  /\ probing' = [probing EXCEPT ![u] = FALSE]
  /\ UNCHANGED <<calls, to_reset, resets, link, trouble>>

\* DOWN_FOR passes.
Expire(u) ==
  /\ mark[u] = "down"
  /\ mark' = [mark EXCEPT ![u] = "due"]
  /\ UNCHANGED <<calls, probing, probe, probe_changed, to_reset, resets, link, trouble>>

LinkChanges(u) ==
  /\ \E to \in {"good", "unusable", "dead"} \ {link[u]} :
       link' = [link EXCEPT ![u] = to]
  /\ trouble' = [c \in Calls |->
       IF pc[c] = "query" /\ link'[u] # "good"
         THEN trouble[c] \cup {u} ELSE trouble[c]]
  /\ UNCHANGED <<calls, mark, probing, probe, probe_changed, to_reset, resets>>

\* reset_connections, on any thread, upstream by upstream.
StartReset ==
  /\ to_reset = {} /\ resets < MaxResets /\ Upstreams # {}
  /\ to_reset' = Upstreams /\ resets' = resets + 1
  /\ UNCHANGED <<calls, mark, probing, probe, probe_changed, link, trouble>>

ResetOne ==
  /\ \E u \in to_reset :
       /\ \A v \in to_reset \ {u} : Before(u, v)
       /\ to_reset' = to_reset \ {u}
       /\ mark' = [mark EXCEPT ![u] = "up"]
       /\ path_changed' = [c \in Calls |->
            path_changed[c] \/ (pc[c] = "query" /\ todo[c] # <<>> /\ Head(todo[c]) = u)]
       /\ probe_changed' = [probe_changed EXCEPT ![u] = probe[u] > 0]
  /\ UNCHANGED <<pc, todo, in_flight, probing, probe, link, resets, trouble>>
-----------------------------------------------------------------------------
Resolve(c) == Answered(c) \/ TryNext(c) \/ Failed(c)

Next ==
  \/ \E c \in Calls : \/ Busy(c) \/ Begin(c) \/ Resolve(c)
                      \/ Cancel(c) \/ Return(c)
  \/ \E u \in Upstreams : ProbeEnds(u) \/ Expire(u) \/ LinkChanges(u)
  \/ StartReset \/ ResetOne

Spec == Init /\ [][Next]_vars

\* Every query to an upstream has a deadline, so calls and probes go on; a
\* reset is a loop, and time passes.
FairSpec ==
  /\ Spec
  /\ \A c \in Calls : WF_vars(Resolve(c))
  /\ \A u \in Upstreams : WF_vars(ProbeEnds(u)) /\ WF_vars(Expire(u))
  /\ WF_vars(ResetOne)
-----------------------------------------------------------------------------
(* Properties. *)

\* The resolver keeps the promise of ResolveService (doh.rs, resolve): with its
\* permits, its ordering and its probes it never runs more than MAX_IN_FLIGHT
\* calls, refuses only when that many run, and every call it runs ends.
service == INSTANCE ResolveService WITH
  call <- [c \in Calls |-> IF pc[c] = "query" THEN "running" ELSE pc[c]]
ImplementsService == service!Spec

\* A call fails only after every upstream was in trouble at some time during it,
\* or failed it when a reset ran during its query (resolve, order): no upstream
\* is left out because it was down, however marks, probes and resets fall while
\* the call is on its way.
FailsOnlyIfAllFail ==
  TypeOK /\ \A c \in Calls : pc[c] = "failed" => trouble[c] = Upstreams

\* An upstream that answers again is used again (probe, health, mark_up): if it
\* stays reachable and calls keep coming, it is up from some time on, even when
\* the other upstreams answer every call and no call ever tries it.
ComesBack ==
  \A u \in Upstreams :
    ( /\ <>[](link[u] # "dead")
      /\ []<>(\E c \in Calls : pc[c] = "query") )
    => <>[](mark[u] = "up")
=============================================================================
