----------------------------- MODULE LocalNames -----------------------------
(***************************************************************************)
(* Queries for names only the local network knows, from the packet to the  *)
(* reply: DnsHandler's local answers (dns/src/handler.rs), the engine's    *)
(* LocalJobs (tollgate-ffi/src/engine.rs) and the resolver of the iOS      *)
(* tunnel (ios/Tunnel/LocalNameResolver.swift).                            *)
(*                                                                         *)
(* Two threads take part.  The packet loop calls handle_packets, which     *)
(* collects a batch and, holding the local_jobs lock, makes each of its    *)
(* queries fail, join a lookup or start one.  The resolver's dispatch      *)
(* queue starts lookups, receives their results, calls complete_local and  *)
(* follows the network path.  An answer is abstracted to the network that  *)
(* gave it, a question to its name.                                        *)
(***************************************************************************)
EXTENDS Naturals, FiniteSets, Sequences, Functions

CONSTANTS
  Queries,               \* DNS packets for local names
  Question,              \* [Queries -> questions]
  Networks,              \* network names, an interface each
  NoInterface,           \* the empty name: no physical interface
  LOCAL_PENDING, LOCAL_JOBS_PER_LOOKUP,
  MayStop,               \* whether the resolver may be stopped
  MaxBatch,              \* bound of an instance: packets in one call
  MaxGeneration          \* bound of an instance: changes of network

Questions == {Question[q] : q \in Queries}
Names == Networks \cup {NoInterface}

ASSUME LocalAssumption ==
  /\ Question \in [Queries -> Questions]
  /\ LOCAL_PENDING \in Nat \ {0} /\ LOCAL_JOBS_PER_LOOKUP \in Nat \ {0}
  /\ MayStop \in BOOLEAN /\ MaxBatch \in Nat /\ MaxGeneration \in Nat

VARIABLES
  network, generation, \* LocalState and the resolver's interface, which
                       \* pathChanged sets together on the dispatch queue
  cache,               \* LocalState::cache: question -> the kept answer
  engine,              \* the provider's engineState holds the engine
  resolver,            \* Engine::local_resolver is set
  handler,             \* the packet loop: "collect", or "flush" when it holds
                       \* the local_jobs lock
  batch,               \* its jobs: query and generation when it arrived
  can_resolve,         \* its copy of resolver
  calls,               \* lookups it is about to hand over
  next_id, waiting, by_question,  \* LocalJobs
  dispatched,          \* resolve calls queued for begin
  lookups,             \* running lookups: id -> the network they ask
  completing,          \* jobs complete_local has still to answer
  answer,              \* the result it answers them with
  stopped,             \* LocalNameResolver::stopped
  received,            \* the packets that came in
  replies              \* per query: replies written (history)

handler_vars == <<handler, batch, can_resolve, calls>>
jobs_vars == <<next_id, waiting, by_question>>
swift_vars == <<engine, dispatched, lookups, stopped>>
vars == <<network, generation, cache, resolver, handler_vars, jobs_vars,
          swift_vars, completing, answer, received, replies>>

Empty == [x \in {} |-> x]
Insert(f, k, v) == [x \in DOMAIN f \cup {k} |-> IF x = k THEN v ELSE f[x]]
Remove(f, k) == Restrict(f, DOMAIN f \ {k})

Failed == [kind |-> "failed", from |-> NoInterface]
Answers == [kind : {"records", "empty", "failed"}, from : Names]
Jobs == [query : Queries, arrived : Nat]

Reply(qs) == replies' = [q \in Queries |-> IF q \in qs THEN replies[q] + 1
                                           ELSE replies[q]]

Init ==
  /\ network = NoInterface /\ generation = 0
  /\ cache = Empty /\ engine = TRUE /\ resolver = FALSE
  /\ handler = "collect" /\ batch = <<>> /\ can_resolve = FALSE /\ calls = {}
  /\ next_id = 0 /\ waiting = Empty /\ by_question = Empty
  /\ dispatched = {} /\ lookups = Empty /\ stopped = FALSE
  /\ completing = {} /\ answer = Failed
  /\ received = {} /\ replies = [q \in Queries |-> 0]
-----------------------------------------------------------------------------
(* The packet loop. *)

JobsOf(id) == waiting[id].jobs
QueriesOf(jobs) == {j.query : j \in jobs}

\* handle_packet for a local name: the kept answer, or a job that notes the
\* network's generation.
handle_packet(q) ==
  /\ handler = "collect" /\ Len(batch) < MaxBatch
  /\ engine \/ batch # <<>>
  /\ q \notin received /\ received' = received \cup {q}
  /\ IF Question[q] \in DOMAIN cache
     THEN Reply({q}) /\ UNCHANGED batch
     ELSE /\ batch' = Append(batch, [query |-> q, arrived |-> generation])
          /\ UNCHANGED replies
  /\ UNCHANGED <<network, generation, cache, resolver, handler, can_resolve,
                 calls, jobs_vars, swift_vars, completing, answer>>

\* LocalJobs::remove, for several lookups.
RemoveLookups(ids) ==
  /\ waiting' = Restrict(waiting, DOMAIN waiting \ ids)
  /\ by_question' = Restrict(by_question,
       DOMAIN by_question \ {waiting[id].question : id \in ids})

Expired == {id \in DOMAIN waiting : waiting[id].late}

\* resolve_locally begins: it copies the resolver, takes the lock, and fails
\* the lookups past their deadline.
FlushBegins ==
  /\ handler = "collect" /\ batch # <<>>
  /\ handler' = "flush"
  /\ can_resolve' = resolver
  /\ RemoveLookups(Expired)
  /\ Reply(UNION {QueriesOf(JobsOf(id)) : id \in Expired})
  /\ UNCHANGED <<received, network, generation, cache, resolver, batch, calls, next_id,
                 swift_vars, completing, answer>>

\* Mutant: a query that cannot wait gets no reply.
FailsJobSilently(job) == UNCHANGED <<calls, jobs_vars, replies>>

FailsJob(job) ==
  /\ Reply({job.query})
  /\ UNCHANGED <<calls, jobs_vars>>

JoinsLookup(job, id) ==
  /\ waiting' = [waiting EXCEPT ![id].jobs = @ \cup {job}]
  /\ UNCHANGED <<calls, next_id, by_question, replies>>

StartsLookup(job) ==
  LET question == Question[job.query]
  IN  /\ next_id' = next_id + 1
      /\ calls' = calls \cup {next_id}
      /\ by_question' = Insert(by_question, question, next_id)
      /\ waiting' = Insert(waiting, next_id,
           [question |-> question, jobs |-> {job}, late |-> FALSE])
      /\ UNCHANGED replies

PlaceJob(job) ==
  LET question == Question[job.query]
  IN  IF ~can_resolve THEN FailsJob(job)
      ELSE IF question \in DOMAIN by_question
      THEN LET id == by_question[question]
           IN  IF Cardinality(JobsOf(id)) < LOCAL_JOBS_PER_LOOKUP
               THEN JoinsLookup(job, id)
               ELSE FailsJob(job)
      ELSE IF Cardinality(DOMAIN waiting) >= LOCAL_PENDING THEN FailsJob(job)
      ELSE StartsLookup(job)

FlushJob ==
  /\ handler = "flush" /\ batch # <<>>
  /\ PlaceJob(Head(batch))
  /\ batch' = Tail(batch)
  /\ UNCHANGED <<received, network, generation, cache, resolver, handler, can_resolve,
                 swift_vars, completing, answer>>

\* The lock is released and the new lookups are handed over.
FlushEnds ==
  /\ handler = "flush" /\ batch = <<>>
  /\ handler' = "collect"
  /\ dispatched' = dispatched \cup calls
  /\ calls' = {}
  /\ UNCHANGED <<received, network, generation, cache, resolver, batch, can_resolve,
                 jobs_vars, engine, lookups, stopped, completing, answer,
                 replies>>
-----------------------------------------------------------------------------
(* The dispatch queue.  It does one thing at a time. *)

QueueFree == completing = {}

\* Mutant: the lookup stays, and a later call answers its jobs again.
CompleteLocalAgain(id, result) ==
  /\ handler # "flush"
  /\ IF id \in DOMAIN waiting
     THEN completing' = JobsOf(id) /\ answer' = result
     ELSE UNCHANGED <<completing, answer>>
  /\ UNCHANGED <<next_id, waiting, by_question>>

\* complete_local: the lookup is removed under the lock, then each of its jobs
\* is answered.  A lookup that is gone is not answered again.
complete_local(id, result) ==
  /\ handler # "flush"
  /\ IF id \in DOMAIN waiting
     THEN /\ completing' = JobsOf(id)
          /\ answer' = result
          /\ RemoveLookups({id})
     ELSE UNCHANGED <<completing, answer, waiting, by_question>>
  /\ UNCHANGED next_id

\* LocalNameResolver.complete does nothing once the provider gave the engine up.
complete(id, result) ==
  \/ engine /\ complete_local(id, result)
  \/ ~engine /\ UNCHANGED <<completing, answer, jobs_vars>>

\* Mutant: the network is not compared.
KeepsAny(job) == answer.kind = "records"

\* DnsHandler::complete_local: an answer with records is kept if the network
\* is still the one the query arrived on.
Keeps(job) == answer.kind = "records" /\ job.arrived = generation

CompleteJob(job) ==
  /\ job \in completing
  /\ completing' = completing \ {job}
  /\ Reply({job.query})
  /\ cache' = IF Keeps(job)
              THEN Insert(cache, Question[job.query],
                          [from |-> answer.from, arrived |-> job.arrived])
              ELSE cache
  /\ UNCHANGED <<received, network, generation, resolver, handler_vars, jobs_vars,
                 swift_vars, answer>>

\* begin: without an interface, or when the system refuses, the lookup fails.
BeginFails(id) ==
  /\ QueueFree /\ id \in dispatched
  /\ dispatched' = dispatched \ {id}
  /\ complete(id, Failed)
  /\ UNCHANGED <<received, network, generation, cache, resolver, handler_vars, engine, lookups,
                 stopped, replies>>

Begin(id) ==
  /\ QueueFree /\ id \in dispatched
  /\ ~stopped /\ network # NoInterface
  /\ dispatched' = dispatched \ {id}
  /\ lookups' = Insert(lookups, id, network)
  /\ UNCHANGED <<received, network, generation, cache, resolver, handler_vars,
                 jobs_vars, engine, stopped, completing, answer, replies>>

\* received and the 2 s timeout: the lookup ends with records, with none, or
\* with an error.
Finish(id) ==
  /\ QueueFree /\ id \in DOMAIN lookups
  /\ lookups' = Remove(lookups, id)
  /\ \E kind \in {"records", "empty", "failed"} :
       complete(id, [kind |-> kind, from |-> lookups[id]])
  /\ UNCHANGED <<received, network, generation, cache, resolver, handler_vars,
                 engine, dispatched, stopped, replies>>

\* pathChanged, with DnsHandler::set_network; the running lookups go on.
PathChanged(name) ==
  /\ QueueFree /\ ~stopped /\ engine
  /\ name # network /\ generation < MaxGeneration
  /\ network' = name
  /\ generation' = generation + 1
  /\ cache' = Empty
  /\ UNCHANGED <<received, resolver, handler_vars, jobs_vars, swift_vars,
                 completing, answer, replies>>

Stop ==
  /\ MayStop /\ QueueFree /\ ~stopped
  /\ stopped' = TRUE
  /\ lookups' = Empty
  /\ UNCHANGED <<received, network, generation, cache, resolver, handler_vars,
                 jobs_vars, engine, dispatched, completing, answer, replies>>

\* takeAndStopEngine asks the resolver to stop and takes the engine from the
\* packet loop and the dispatch queue, which may find that out in either order.
TakeEngine ==
  /\ MayStop /\ engine
  /\ engine' = FALSE
  /\ UNCHANGED <<received, network, generation, cache, resolver, handler_vars,
                 jobs_vars, dispatched, lookups, stopped, completing, answer,
                 replies>>
-----------------------------------------------------------------------------
(* The provider sets the resolver once; time passes. *)

SetLocalResolver ==
  /\ ~resolver
  /\ resolver' = TRUE
  /\ UNCHANGED <<received, network, generation, cache, handler_vars, jobs_vars,
                 swift_vars, completing, answer, replies>>

\* A lookup has waited for local_deadline.
Late(id) ==
  /\ id \in DOMAIN waiting /\ ~waiting[id].late
  /\ handler # "flush"
  /\ waiting' = [waiting EXCEPT ![id].late = TRUE]
  /\ UNCHANGED <<received, network, generation, cache, resolver, handler_vars, next_id,
                 by_question, swift_vars, completing, answer, replies>>

\* A kept answer reaches its TTL, or the cache drops it for another.
Forget(question) ==
  /\ question \in DOMAIN cache
  /\ cache' = Remove(cache, question)
  /\ UNCHANGED <<received, network, generation, resolver, handler_vars, jobs_vars,
                 swift_vars, completing, answer, replies>>

Flush == FlushBegins \/ FlushJob \/ FlushEnds
Complete == \E job \in completing : CompleteJob(job)
BeginAny == \E id \in dispatched : Begin(id) \/ BeginFails(id)
FinishAny == \E id \in DOMAIN lookups : Finish(id)

Next ==
  \/ \E q \in Queries : handle_packet(q)
  \/ Flush
  \/ BeginAny
  \/ FinishAny
  \/ Complete
  \/ \E name \in Names : PathChanged(name)
  \/ Stop
  \/ TakeEngine
  \/ SetLocalResolver
  \/ \E id \in DOMAIN waiting : Late(id)
  \/ \E question \in DOMAIN cache : Forget(question)

Spec == Init /\ [][Next]_vars

\* handle_packets returns, the dispatch queue runs what is queued, and a lookup
\* ends after 2 s at the latest.
Fairness ==
  /\ WF_vars(Flush)
  /\ WF_vars(Complete)
  /\ WF_vars(BeginAny)
  /\ WF_vars(FinishAny)

FairSpec == Spec /\ Fairness
-----------------------------------------------------------------------------
(* Properties. *)

TypeOK ==
  /\ network \in Names /\ generation \in Nat
  /\ DOMAIN cache \subseteq Questions
  /\ \A k \in DOMAIN cache : cache[k] \in [from : Names, arrived : Nat]
  /\ resolver \in BOOLEAN /\ can_resolve \in BOOLEAN /\ stopped \in BOOLEAN
  /\ engine \in BOOLEAN
  /\ handler \in {"collect", "flush"}
  /\ batch \in Seq(Jobs)
  /\ next_id \in Nat
  /\ DOMAIN waiting \subseteq 0 .. next_id - 1
  /\ \A id \in DOMAIN waiting :
       waiting[id] \in [question : Questions, jobs : SUBSET Jobs, late : BOOLEAN]
  /\ calls \subseteq 0 .. next_id - 1 /\ dispatched \subseteq 0 .. next_id - 1
  /\ DOMAIN lookups \subseteq 0 .. next_id - 1
  /\ \A id \in DOMAIN lookups : lookups[id] \in Networks
  /\ completing \subseteq Jobs /\ answer \in Answers
  /\ received \subseteq Queries /\ replies \in [Queries -> Nat]

\* Where a query that came in can be.
Places(q) ==
  {<<"batch", i>> : i \in {i \in DOMAIN batch : batch[i].query = q}}
    \cup {<<"waiting", id>> : id \in {id \in DOMAIN waiting :
                                     q \in QueriesOf(waiting[id].jobs)}}
    \cup {<<"completing", j>> : j \in {j \in completing : j.query = q}}
    \cup {<<"replied", n>> : n \in 1 .. replies[q]}

\* Every query is answered once and never lost: it is in the batch, in one
\* lookup, in the hands of complete_local, or answered, through expiry, late
\* completions, full tables and a resolver that comes or goes.  And the two
\* tables of LocalJobs describe the same lookups, so that the `expect` in
\* resolve_locally ("indexed lookups wait") never panics, one question has one
\* lookup, and both limits hold.
EachQueryOnce ==
  /\ TypeOK
  /\ \A q \in received : Cardinality(Places(q)) = 1
  /\ \A k \in DOMAIN by_question :
       by_question[k] \in DOMAIN waiting /\ waiting[by_question[k]].question = k
  /\ \A id \in DOMAIN waiting :
       /\ waiting[id].question \in DOMAIN by_question
       /\ by_question[waiting[id].question] = id
       /\ Cardinality(waiting[id].jobs) \in 1 .. LOCAL_JOBS_PER_LOOKUP
  /\ Cardinality(DOMAIN waiting) <= LOCAL_PENDING

\* DnsHandler::set_network: "answers to queries that arrived before the change
\* are not kept"; what is kept was asked for on the present network.
KeptArrivedHere ==
  \A k \in DOMAIN cache : cache[k].arrived = generation

\* Every query is answered, whatever lookup it joined and whatever the networks
\* did meanwhile, unless the tunnel stops: then a lookup that never ends may keep
\* it ("answers the queries still waiting SERVFAIL when their deadline passes"
\* needs another local query to come).
QueriesAnswered ==
  \A q \in Queries : q \in received ~> (replies[q] = 1 \/ stopped \/ ~engine)
=============================================================================
