----------------------------- MODULE HostLookups -----------------------------
(***************************************************************************)
(* The clients of the DoH resolver: the proxy's name lookups               *)
(* (dns/src/lookup.rs, HostResolver) and the DNS forwarder's tasks         *)
(* (tollgate-ffi/src/engine.rs, forward), which share MAX_IN_FLIGHT calls. *)
(*                                                                         *)
(* Callers asking for the same name share one lookup: the first leads, the *)
(* others wait on its watch channel.  A lookup waits for one of Turns and  *)
(* then queries A and AAAA at once.  Every caller may give up              *)
(* (LOOKUP_TIMEOUT), which drops all that its future holds.  All of it     *)
(* runs on one thread, so what happens between two awaits is one step.     *)
(***************************************************************************)
EXTENDS Naturals, Sequences, FiniteSets, SequencesExt

CONSTANTS
  Callers,          \* calls of HostResolver::lookup
  Host,             \* the name each of them asks for
  Direct,           \* the names that are IP addresses or local
  MAX_IN_FLIGHT, LOOKUP_PERMITS

VARIABLES
  pc,               \* per caller: its position in resolve
  lookup,           \* per caller: the id of the lookup it leads or waits on
  out,              \* per caller: its record types still being queried
  found,            \* per caller: a query of its lookup found addresses
  queue,            \* the callers waiting for a turn, first come first served
  turns,            \* Semaphore: turns left
  pending,          \* in_progress: per name the id of its lookup, or 0
  last_id,
  watch,            \* per id: the watch channel: open, its value, or closed
  cached,           \* the names whose addresses are cached
  in_flight,        \* the resolver's Semaphore: permits left
  forwarding,       \* tasks of forward inside resolve
  busy              \* history: a client has found the resolver busy

lookups == <<pc, lookup, out, found, queue, turns, pending, last_id, watch, cached>>
vars == <<lookups, in_flight, forwarding, busy>>

Names == {Host[c] : c \in Callers}
Types == {"A", "AAAA"}
Ids == 1..Cardinality(Callers)

\* Mutant: as many turns as permits, though a name takes two.
TurnsNotHalved == LOOKUP_PERMITS

\* A name takes two permits.
Turns == LOOKUP_PERMITS \div 2

\* The forwarder keeps to the rest.
forward_in_flight == MAX_IN_FLIGHT - LOOKUP_PERMITS

TypeOK ==
  /\ pc \in [Callers -> {"new", "turn", "query", "join", "done"}]
  /\ lookup \in [Callers -> Ids \cup {0}]
  /\ out \in [Callers -> SUBSET Types] /\ found \in [Callers -> BOOLEAN]
  /\ queue \in Seq(Callers) /\ turns \in 0..Turns
  /\ pending \in [Names -> Ids \cup {0}] /\ last_id \in Ids \cup {0}
  /\ watch \in [Ids -> {"open", "sent", "closed"}]
  /\ cached \subseteq Names
  /\ in_flight \in 0..MAX_IN_FLIGHT /\ forwarding \in 0..forward_in_flight
  /\ busy \in BOOLEAN

Init ==
  /\ pc = [c \in Callers |-> "new"] /\ lookup = [c \in Callers |-> 0]
  /\ out = [c \in Callers |-> {}] /\ found = [c \in Callers |-> FALSE]
  /\ queue = <<>> /\ turns = Turns
  /\ pending = [h \in Names |-> 0] /\ last_id = 0
  /\ watch = [i \in Ids |-> "open"]
  /\ cached = {}
  /\ in_flight = MAX_IN_FLIGHT /\ forwarding = 0 /\ busy = FALSE

Leads(c) == pc[c] \in {"turn", "query"}

\* The caller's future ends.
Done(c) ==
  /\ pc' = [pc EXCEPT ![c] = "done"]
  /\ lookup' = [lookup EXCEPT ![c] = 0]
  /\ out' = [out EXCEPT ![c] = {}] /\ found' = [found EXCEPT ![c] = FALSE]

\* InProgress::drop: a lookup that ends leaves the table, if it is still in it.
NoLongerPending(c) ==
  pending' = [pending EXCEPT ![Host[c]] = IF @ = lookup[c] THEN 0 ELSE @]
-----------------------------------------------------------------------------
(* resolve: from the cache, joining a lookup in progress, or leading one. *)

NotAsked(c) ==
  /\ Host[c] \in Direct \cup cached
  /\ Done(c)
  /\ UNCHANGED <<queue, turns, pending, last_id, watch, cached>>

Join(c) ==
  /\ Host[c] \notin Direct \cup cached /\ pending[Host[c]] # 0
  /\ pc' = [pc EXCEPT ![c] = "join"]
  /\ lookup' = [lookup EXCEPT ![c] = pending[Host[c]]]
  /\ UNCHANGED <<out, found, queue, turns, pending, last_id, watch, cached>>

Lead(c) ==
  /\ Host[c] \notin Direct \cup cached /\ pending[Host[c]] = 0
  /\ last_id' = last_id + 1
  /\ pending' = [pending EXCEPT ![Host[c]] = last_id']
  /\ pc' = [pc EXCEPT ![c] = "turn"]
  /\ lookup' = [lookup EXCEPT ![c] = last_id']
  /\ queue' = Append(queue, c)
  /\ UNCHANGED <<out, found, turns, watch, cached>>

Call(c) ==
  /\ pc[c] = "new"
  /\ NotAsked(c) \/ Join(c) \/ Lead(c)
  /\ UNCHANGED <<in_flight, forwarding, busy>>

\* The lookup it waits on has sent its result.
Receive(c) ==
  /\ pc[c] = "join" /\ watch[lookup[c]] = "sent"
  /\ Done(c)
  /\ UNCHANGED <<queue, turns, pending, last_id, watch, cached, in_flight,
                 forwarding, busy>>

\* Mutant: a caller whose leader gave up leads without looking again.
RetryLeads(c) ==
  /\ pc[c] = "join" /\ watch[lookup[c]] = "closed"
  /\ last_id' = last_id + 1
  /\ pending' = [pending EXCEPT ![Host[c]] = last_id']
  /\ pc' = [pc EXCEPT ![c] = "turn"]
  /\ lookup' = [lookup EXCEPT ![c] = last_id']
  /\ queue' = Append(queue, c)
  /\ UNCHANGED <<out, found, turns, watch, cached, in_flight, forwarding, busy>>

\* The caller that led it gave up: try again.
Retry(c) ==
  /\ pc[c] = "join" /\ watch[lookup[c]] = "closed"
  /\ NotAsked(c) \/ Join(c) \/ Lead(c)
  /\ UNCHANGED <<in_flight, forwarding, busy>>
-----------------------------------------------------------------------------
(* look_up and query. *)

\* Both queries ended: addresses are cached, the result goes to the callers
\* that wait, and the turn is given back.
Finished(c, some) ==
  /\ cached' = IF some THEN cached \cup {Host[c]} ELSE cached
  /\ watch' = [watch EXCEPT ![lookup[c]] = "sent"]
  /\ NoLongerPending(c)
  /\ Done(c)

\* Each query takes a permit at once, or fails with Busy.
TakeTurn(c) ==
  /\ pc[c] = "turn" /\ turns > 0 /\ Head(queue) = c
  /\ queue' = Tail(queue)
  /\ busy' = (busy \/ in_flight < 2)
  /\ IF in_flight > 0
       THEN /\ turns' = turns - 1
            /\ out' = [out EXCEPT ![c] = IF in_flight > 1 THEN Types ELSE {"A"}]
            /\ in_flight' = in_flight - Cardinality(out'[c])
            /\ pc' = [pc EXCEPT ![c] = "query"]
            /\ UNCHANGED <<lookup, found, pending, watch, cached>>
       ELSE Finished(c, FALSE) /\ UNCHANGED <<turns, in_flight>>
  /\ UNCHANGED <<last_id, forwarding>>

\* doh.resolve returned, with addresses or without.
QueryEnds(c) ==
  /\ pc[c] = "query"
  /\ \E t \in out[c], some \in BOOLEAN :
       \/ /\ out[c] # {t}
          /\ out' = [out EXCEPT ![c] = @ \ {t}]
          /\ found' = [found EXCEPT ![c] = some]
          /\ UNCHANGED <<pc, lookup, pending, watch, cached, turns>>
       \/ /\ out[c] = {t}
          /\ Finished(c, some \/ found[c])
          /\ turns' = turns + 1
  /\ in_flight' = in_flight + 1
  /\ UNCHANGED <<queue, last_id, forwarding, busy>>
-----------------------------------------------------------------------------
(* LOOKUP_TIMEOUT: the future is dropped, with the queries in flight, the   *)
(* turn or the place in the queue, the entry and the sender it holds.       *)

\* Mutant: the lookup of a caller that gave up stays in the table.
GiveUpStaysPending(c) ==
  /\ Leads(c)
  /\ watch' = [watch EXCEPT ![lookup[c]] = "closed"]
  /\ queue' = SelectSeq(queue, LAMBDA other : other # c)
  /\ turns' = IF pc[c] = "query" THEN turns + 1 ELSE turns
  /\ in_flight' = in_flight + Cardinality(out[c])
  /\ UNCHANGED pending

LeaderGivesUp(c) ==
  /\ Leads(c)
  /\ NoLongerPending(c)
  /\ watch' = [watch EXCEPT ![lookup[c]] = "closed"]
  /\ queue' = SelectSeq(queue, LAMBDA other : other # c)
  /\ turns' = IF pc[c] = "query" THEN turns + 1 ELSE turns
  /\ in_flight' = in_flight + Cardinality(out[c])

JoinerGivesUp(c) ==
  /\ pc[c] = "join"
  /\ UNCHANGED <<pending, watch, queue, turns, in_flight>>

Timeout(c) ==
  /\ LeaderGivesUp(c) \/ JoinerGivesUp(c)
  /\ Done(c)
  /\ UNCHANGED <<last_id, cached, forwarding, busy>>

\* Addresses outlive their TTL, or make room for others.
Expire(h) ==
  /\ h \in cached /\ cached' = cached \ {h}
  /\ UNCHANGED <<pc, lookup, out, found, queue, turns, pending, last_id, watch,
                 in_flight, forwarding, busy>>
-----------------------------------------------------------------------------
(* forward: a task resolves a job while it holds one of forward_in_flight   *)
(* permits.  A task that finds the resolver busy ends at once.              *)

ForwardBegins ==
  /\ forwarding < forward_in_flight
  /\ IF in_flight > 0
       THEN forwarding' = forwarding + 1 /\ in_flight' = in_flight - 1 /\ UNCHANGED busy
       ELSE busy' = TRUE /\ UNCHANGED <<forwarding, in_flight>>
  /\ UNCHANGED lookups

ForwardEnds ==
  /\ forwarding > 0
  /\ forwarding' = forwarding - 1 /\ in_flight' = in_flight + 1
  /\ UNCHANGED <<lookups, busy>>
-----------------------------------------------------------------------------
Progress(c) == Call(c) \/ Receive(c) \/ Retry(c) \/ TakeTurn(c) \/ QueryEnds(c)

Next ==
  \/ \E c \in Callers : Progress(c) \/ Timeout(c)
  \/ \E h \in Names : Expire(h)
  \/ ForwardBegins \/ ForwardEnds

Spec == Init /\ [][Next]_vars

\* A call of resolve ends (ResolveService) and a task that can go on does.
\* Nothing is assumed of timeouts.
FairSpec == Spec /\ \A c \in Callers : WF_vars(Progress(c))
-----------------------------------------------------------------------------
(* Properties. *)

\* The proxy's lookups and the forwarder split the permits "so neither sees
\* Busy" (doh.rs, MAX_IN_FLIGHT; lookup.rs, LOOKUP_PERMITS), also while callers
\* give up with queries in flight.
NeverBusy == ~busy

\* A name is looked up once at a time (lookup.rs, resolve), and the table has
\* its lookup, however leaders give up and callers that waited take over; and
\* nobody waits on a lookup that nobody makes: one that has neither sent its
\* result nor closed its channel has a caller that leads it (InProgress::drop).
OneLeader ==
  /\ TypeOK
  /\ \A h \in Names :
       LET leaders == {c \in Callers : Leads(c) /\ Host[c] = h}
       IN /\ Cardinality(leaders) <= 1
          /\ \A c \in leaders : pending[h] = lookup[c]
  /\ \A c \in Callers : pc[c] = "join" /\ watch[lookup[c]] = "open" =>
       \E leader \in Callers : Leads(leader) /\ lookup[leader] = lookup[c]

\* A caller gets its result without its own timeout, when others lead its
\* lookup, give up, or hold all turns (look_up, resolve).
LookupsEnd == <>(\A c \in Callers : pc[c] = "done")
=============================================================================
