---------------------------- MODULE DnsForwarding ----------------------------
(***************************************************************************)
(* A DNS query from the tunnel to its reply: the packet loop's call of      *)
(* handle_packets (tollgate-ffi/src/engine.rs, answer; dns/src/handler.rs,  *)
(* handle_packet), the bounded queue to the runtime, the forwarder's tasks  *)
(* (engine.rs, forward; handler.rs, complete), and start and stop, each     *)
(* start with a queue, a resolver and a runtime thread of its own.          *)
(*                                                                         *)
(* Packets are handled by one thread and jobs by the runtime's; start, stop *)
(* and reload_lists may come from others.  Queries for local names leave    *)
(* through LocalNames.                                                      *)
(***************************************************************************)
EXTENDS Naturals, Sequences, FiniteSets

CONSTANTS
  Queries,
  Name,             \* per query: the name it asks for
  DnssecOk,         \* the queries whose sender set the DO bit
  Allowlist,        \* the names the user allows
  FORWARD_QUEUE, forward_in_flight,
  NoQuery,
  MaxStarts,        \* bound of an instance: calls of start that get a thread
  MaxReloads        \* bound of an instance: calls of reload_lists

ASSUME ForwardingAssumption ==
  /\ FORWARD_QUEUE \in Nat \ {0} /\ forward_in_flight \in Nat \ {0}
  /\ NoQuery \notin Queries /\ DOMAIN Name = Queries

VARIABLES
  handling,         \* the query the packet loop is at
  pc,               \* per query: its position
  jobs,             \* per query: the start whose sender it got, 0 when stopped
  reply,            \* per query: what its sender got
  listed,           \* history, per query: its name has been blocked all along
  cache,            \* the keys with an answer
  blocklist,        \* the names the DNS blocklist has
  reloads,
  running,          \* Mutex<Option<Running>>: the start that is running, or 0
  starting,         \* start holds the lock
  starts,
  runtime,          \* per start: its thread
  queue,            \* per start: the jobs channel
  permits,          \* per start: the forwarder's permits left
  stopped,          \* the starts whose stop has returned, or that failed
  unjoined          \* those of them stopped by their own thread, which runs still

handler == <<handling, pc, jobs, reply, listed, cache>>
lists == <<blocklist, reloads>>
engine == <<running, starting, starts, runtime, stopped, unjoined>>
vars == <<handler, lists, engine, queue, permits>>

Starts == 1..MaxStarts
Names == {Name[q] : q \in Queries}

\* The question and the requester's DO bit.
cache_key(q) == <<Name[q], q \in DnssecOk>>

\* What upstream sends: with DNSSEC records when the query asks for them.
Answer(q) == IF q \in DnssecOk THEN "signed" ELSE "plain"

TypeOK ==
  /\ handling \in Queries \cup {NoQuery}
  /\ pc \in [Queries -> {"new", "handle", "lookup", "send", "queued", "resolve",
                         "done", "dropped"}]
  /\ jobs \in [Queries -> {0} \cup Starts]
  /\ reply \in [Queries -> {"none", "immediate", "blocked", "servfail", "plain",
                            "signed"}]
  /\ listed \in [Queries -> BOOLEAN]
  /\ cache \in SUBSET (Names \X BOOLEAN \X {"plain", "signed"})
  /\ blocklist \subseteq Names /\ reloads \in 0..MaxReloads
  /\ running \in {0} \cup Starts /\ starting \in BOOLEAN
  /\ starts \in {0} \cup Starts
  /\ runtime \in [Starts -> {"none", "up", "stopping", "ended"}]
  /\ \A s \in Starts : queue[s] \in Seq(Queries) /\ Len(queue[s]) <= FORWARD_QUEUE
  /\ permits \in [Starts -> 0..forward_in_flight]
  /\ unjoined \subseteq stopped /\ stopped \subseteq Starts

Init ==
  /\ handling = NoQuery
  /\ pc = [q \in Queries |-> "new"] /\ jobs = [q \in Queries |-> 0]
  /\ reply = [q \in Queries |-> "none"] /\ listed = [q \in Queries |-> FALSE]
  /\ cache = {}
  /\ blocklist \in SUBSET Names /\ reloads = 0
  /\ running = 0 /\ starting = FALSE /\ starts = 0
  /\ runtime = [s \in Starts |-> "none"]
  /\ queue = [s \in Starts |-> <<>>]
  /\ permits = [s \in Starts |-> forward_in_flight]
  /\ stopped = {} /\ unjoined = {}

is_blocked(n) == n \in blocklist /\ n \notin Allowlist
-----------------------------------------------------------------------------
(* The packet loop: answer and handle_packet. *)

Replies(q, with) ==
  /\ pc' = [pc EXCEPT ![q] = "done"]
  /\ reply' = [reply EXCEPT ![q] = with]
  /\ jobs' = [jobs EXCEPT ![q] = 0]
  /\ listed' = [listed EXCEPT ![q] = @ /\ with # "blocked"]

Handled(q) == handling = q /\ handling' = NoQuery

Goes(q, from, to) == handling = q /\ pc[q] = from /\ pc' = [pc EXCEPT ![q] = to]

\* answer clones the sender first, and gives up the lock at once.
HandlePacket(q) ==
  /\ handling = NoQuery /\ pc[q] = "new" /\ ~starting
  /\ handling' = q
  /\ pc' = [pc EXCEPT ![q] = "handle"]
  /\ jobs' = [jobs EXCEPT ![q] = running]
  /\ listed' = [listed EXCEPT ![q] = is_blocked(Name[q])]
  /\ UNCHANGED <<reply, cache, lists, engine, queue, permits>>

\* Dropped as no query to the tunnel's resolver, refused as malformed, or
\* answered without records (HTTPS, SVCB): "immediate" is each of them.
Immediate(q) ==
  /\ Handled(q) /\ pc[q] = "handle"
  /\ Replies(q, "immediate")
  /\ UNCHANGED <<cache, lists, engine, queue, permits>>

Blocked(q) ==
  /\ Handled(q) /\ pc[q] = "handle" /\ is_blocked(Name[q])
  /\ Replies(q, "blocked")
  /\ UNCHANGED <<cache, lists, engine, queue, permits>>

NotBlocked(q) ==
  /\ Goes(q, "handle", "lookup") /\ ~is_blocked(Name[q])
  /\ UNCHANGED <<handling, jobs, reply, listed, cache, lists, engine, queue, permits>>

Entries(q) == {entry \in cache : <<entry[1], entry[2]>> = cache_key(q)}

FromCache(q) ==
  /\ Handled(q) /\ pc[q] = "lookup"
  /\ \E entry \in Entries(q) : Replies(q, entry[3])
  /\ UNCHANGED <<cache, lists, engine, queue, permits>>

Forward(q) ==
  /\ Goes(q, "lookup", "send") /\ Entries(q) = {}
  /\ UNCHANGED <<handling, jobs, reply, listed, cache, lists, engine, queue, permits>>

Closed(q) == jobs[q] = 0 \/ runtime[jobs[q]] = "ended"

TrySend(q) ==
  /\ Handled(q) /\ pc[q] = "send"
  /\ ~Closed(q) /\ Len(queue[jobs[q]]) < FORWARD_QUEUE
  /\ pc' = [pc EXCEPT ![q] = "queued"]
  /\ queue' = [queue EXCEPT ![jobs[q]] = Append(@, q)]
  /\ UNCHANGED <<jobs, reply, listed, cache, lists, engine, permits>>

\* Stopped, or Busy: complete with an error.
SendFails(q) ==
  /\ Handled(q) /\ pc[q] = "send"
  /\ ~Closed(q) => Len(queue[jobs[q]]) = FORWARD_QUEUE
  /\ Replies(q, "servfail")
  /\ UNCHANGED <<cache, lists, engine, queue, permits>>
-----------------------------------------------------------------------------
(* The runtime thread: forward's loop and its tasks. *)

Alive(s) == runtime[s] \in {"up", "stopping"}

Recv(s) ==
  /\ Alive(s) /\ permits[s] > 0 /\ queue[s] # <<>>
  /\ permits' = [permits EXCEPT ![s] = @ - 1]
  /\ pc' = [pc EXCEPT ![Head(queue[s])] = "resolve"]
  /\ queue' = [queue EXCEPT ![s] = Tail(@)]
  /\ UNCHANGED <<handling, jobs, reply, listed, cache, lists, engine>>

\* A usable answer, kept when it is cacheable.  resolve, complete and deliver.
ResolveAnswers(q) ==
  /\ pc[q] = "resolve"
  /\ \/ cache' = (cache \ Entries(q)) \cup {<<cache_key(q)[1], cache_key(q)[2], Answer(q)>>}
     \/ UNCHANGED cache
  /\ permits' = [permits EXCEPT ![jobs[q]] = @ + 1]
  /\ Replies(q, Answer(q))
  /\ UNCHANGED <<handling, lists, engine, queue>>

\* Mutant: the permit of a query that failed is not given back.
ResolveFailsKeepsPermit(q) ==
  /\ pc[q] = "resolve"
  /\ Replies(q, "servfail")
  /\ UNCHANGED <<handling, cache, lists, engine, queue, permits>>

\* An error, or an answer that is not usable.
ResolveFails(q) ==
  /\ pc[q] = "resolve"
  /\ permits' = [permits EXCEPT ![jobs[q]] = @ + 1]
  /\ Replies(q, "servfail")
  /\ UNCHANGED <<handling, cache, lists, engine, queue>>

Expire ==
  /\ \E entry \in cache : cache' = cache \ {entry}
  /\ UNCHANGED <<handling, pc, jobs, reply, listed, lists, engine, queue, permits>>
-----------------------------------------------------------------------------
(* start, stop and reload_lists. *)

\* start_runtime takes the lock and keeps it until the thread listens.
Start ==
  /\ ~starting /\ running = 0 /\ starts < MaxStarts
  /\ starting' = TRUE /\ starts' = starts + 1
  /\ UNCHANGED <<handler, lists, running, runtime, stopped, unjoined, queue, permits>>

Ready ==
  /\ starting /\ starting' = FALSE
  /\ running' = starts
  /\ runtime' = [runtime EXCEPT ![starts] = "up"]
  /\ UNCHANGED <<handler, lists, starts, stopped, unjoined, queue, permits>>

\* The thread cannot listen, and is joined.
StartFails ==
  /\ starting /\ starting' = FALSE
  /\ runtime' = [runtime EXCEPT ![starts] = "ended"]
  /\ stopped' = stopped \cup {starts}
  /\ UNCHANGED <<handler, lists, running, starts, unjoined, queue, permits>>

\* stop_runtime takes what is running and sends the shutdown.
Stop ==
  /\ ~starting /\ running # 0
  /\ runtime' = [runtime EXCEPT ![running] = "stopping"]
  /\ running' = 0
  /\ UNCHANGED <<handler, lists, starting, starts, stopped, unjoined, queue, permits>>

\* stop called by a callback on the runtime's own thread, a packet sink's for
\* one: the thread cannot join itself, and stop returns with its tasks there.
StopFromCallback ==
  /\ ~starting /\ running # 0
  /\ runtime' = [runtime EXCEPT ![running] = "stopping"]
  /\ running' = 0
  /\ stopped' = stopped \cup {running} /\ unjoined' = unjoined \cup {running}
  /\ UNCHANGED <<handler, lists, starting, starts, queue, permits>>

\* serve aborts the forwarder, and the runtime drops its tasks: their queries
\* get no reply.
RuntimeEnds(s) ==
  /\ runtime[s] = "stopping"
  /\ runtime' = [runtime EXCEPT ![s] = "ended"]
  /\ pc' = [q \in Queries |->
       IF pc[q] \in {"queued", "resolve"} /\ jobs[q] = s THEN "dropped" ELSE pc[q]]
  /\ queue' = [queue EXCEPT ![s] = <<>>]
  /\ permits' = [permits EXCEPT ![s] = forward_in_flight]
  /\ unjoined' = unjoined \ {s}
  /\ UNCHANGED <<handling, jobs, reply, listed, cache, lists, running, starting,
                 starts, stopped>>

\* Mutant: stop does not join the thread.
StopReturnsEarly(s) ==
  /\ s \notin stopped /\ runtime[s] \in {"stopping", "ended"}
  /\ stopped' = stopped \cup {s}
  /\ UNCHANGED <<handler, lists, running, starting, starts, runtime, unjoined, queue, permits>>

\* stop returns once it has joined the thread.
StopReturns(s) ==
  /\ s \notin stopped /\ runtime[s] = "ended"
  /\ stopped' = stopped \cup {s}
  /\ UNCHANGED <<handler, lists, running, starting, starts, runtime, unjoined, queue, permits>>

set_blocklist ==
  /\ reloads < MaxReloads /\ reloads' = reloads + 1
  /\ blocklist' \in SUBSET Names
  /\ listed' = [q \in Queries |-> listed[q] /\ Name[q] \in blocklist']
  /\ UNCHANGED <<handling, pc, jobs, reply, cache, engine, queue, permits>>
-----------------------------------------------------------------------------
Loop(q) == \/ HandlePacket(q) \/ Immediate(q) \/ Blocked(q) \/ NotBlocked(q)
           \/ FromCache(q) \/ Forward(q) \/ TrySend(q) \/ SendFails(q)

Next ==
  \/ \E q \in Queries : Loop(q) \/ ResolveAnswers(q) \/ ResolveFails(q)
  \/ \E s \in Starts : Recv(s) \/ RuntimeEnds(s) \/ StopReturns(s)
  \/ Expire \/ Start \/ Ready \/ StartFails \/ Stop \/ StopFromCallback
  \/ set_blocklist

Spec == Init /\ [][Next]_vars

\* The packet loop and the runtime threads go on, a call of resolve ends
\* (ResolveService), and a runtime told to stop ends.
FairSpec ==
  /\ Spec
  /\ \A q \in Queries : /\ WF_vars(Loop(q))
                        /\ WF_vars(ResolveAnswers(q) \/ ResolveFails(q))
  /\ \A s \in Starts : WF_vars(Recv(s)) /\ WF_vars(RuntimeEnds(s))
  /\ WF_vars(Ready \/ StartFails)
-----------------------------------------------------------------------------
(* Properties. *)

\* What a reply may be and when: a query handled after its name was put on the
\* blocklist never gets an upstream's answer (handler.rs, set_blocklist: "queries
\* handled afterwards use the new one"), though an answer from before is in the
\* cache or on its way; DNSSEC records go only to requesters that set the DO bit,
\* whoever filled the cache (cache_key); and once a stop from any thread but the
\* runtime's own has returned, nothing of that start is left that could call the
\* packet sink or the handler (engine.rs, stop_runtime joins the thread; a stop
\* that a callback makes on the runtime's thread cannot).
RepliesFit ==
  /\ TypeOK
  /\ \A q \in Queries :
       /\ listed[q] => reply[q] \notin {"plain", "signed"}
       /\ reply[q] = "signed" => q \in DnssecOk
       /\ pc[q] = "resolve" => jobs[q] \notin stopped \ unjoined

\* A query handed to a runtime is answered, unless that runtime was stopped: a
\* stop drops the queries of its own start only (engine.rs, stop, forward), and
\* permits and queue places come back for the next query.
AnsweredUnlessStopped ==
  \A q \in Queries :
    (pc[q] = "handle") ~> \/ pc[q] = "done"
                          \/ pc[q] = "dropped" /\ runtime[jobs[q]] = "ended"
=============================================================================
