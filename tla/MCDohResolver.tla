--------------------------- MODULE MCDohResolver ---------------------------
(***************************************************************************)
(* Instances of DohResolver and of HostLookups for TLC.  The two share no  *)
(* variable (HostLookups takes a call of resolve as ResolveService         *)
(* describes it): a behaviour is one of the first or one of the second,    *)
(* as machine says, and the other one stays where it begins.               *)
(***************************************************************************)
EXTENDS DohResolver, TLC

CONSTANTS first, misspelt, second, call1, call2

\* Two upstreams, and one between them that Upstream::new refuses.
TwoAndOneInvalid == <<first, misspelt, second>>

CONSTANTS lead, follow, late, other, numeric, shared, single, literal

Callers == {lead, follow, late, other, numeric}

\* Three callers ask for one name, one for another, and one for an address.
Asked == [c \in Callers |->
  IF c = other THEN single ELSE IF c = numeric THEN literal ELSE shared]

VARIABLE machine  \* "resolver" or "lookups"
VARIABLES l_pc, l_lookup, l_out, l_found, l_queue, l_turns, l_pending,
    l_last_id, l_watch, l_cached, l_in_flight, l_forwarding, l_busy

lookupVars == <<l_pc, l_lookup, l_out, l_found, l_queue, l_turns, l_pending,
    l_last_id, l_watch, l_cached, l_in_flight, l_forwarding, l_busy>>

Lookups == INSTANCE HostLookups WITH
    pc <- l_pc, lookup <- l_lookup, out <- l_out, found <- l_found,
    queue <- l_queue, turns <- l_turns, pending <- l_pending,
    last_id <- l_last_id, watch <- l_watch, cached <- l_cached,
    in_flight <- l_in_flight, forwarding <- l_forwarding, busy <- l_busy,
    Host <- Asked, Direct <- {literal}, MAX_IN_FLIGHT <- 4,
    LOOKUP_PERMITS <- 2

EitherInit ==
  /\ machine \in {"resolver", "lookups"}
  /\ Init /\ Lookups!Init
  /\ machine = "lookups" => link = [u \in Upstreams |-> "good"]

EitherNext ==
  \/ machine = "resolver" /\ Next /\ UNCHANGED <<machine, lookupVars>>
  \/ machine = "lookups" /\ Lookups!Next /\ UNCHANGED <<machine, vars>>

\* FairSpec of the one that runs.
EitherSpec ==
  /\ EitherInit /\ [][EitherNext]_<<machine, vars, lookupVars>>
  /\ \A c \in Calls : WF_vars(machine = "resolver" /\ Resolve(c))
  /\ \A u \in Upstreams : /\ WF_vars(machine = "resolver" /\ ProbeEnds(u))
                          /\ WF_vars(machine = "resolver" /\ Expire(u))
  /\ WF_vars(machine = "resolver" /\ ResetOne)
  /\ \A c \in Callers : WF_lookupVars(machine = "lookups" /\ Lookups!Progress(c))

\* HostLookups: the lookups and the forwarder never find the resolver busy
\* (doh.rs, MAX_IN_FLIGHT; lookup.rs, LOOKUP_PERMITS).
NeverBusy == Lookups!NeverBusy

\* HostLookups: a name is looked up once at a time, and nobody waits on a
\* lookup that nobody makes (lookup.rs, resolve, InProgress::drop).
OneLeader == Lookups!OneLeader

\* HostLookups: every caller gets its result (lookup.rs, look_up).
LookupsEnd == machine = "lookups" => Lookups!LookupsEnd
=============================================================================
