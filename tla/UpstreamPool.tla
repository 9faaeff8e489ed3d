---------------------------- MODULE UpstreamPool ----------------------------
(***************************************************************************)
(* The pool of connections to origin servers: Pool, Inner and Host of      *)
(* core/crates/mitm/src/upstream.rs.                                       *)
(*                                                                         *)
(* All tasks run on one thread, so a step of the model is what a task does *)
(* between two awaits.  Resets are counted by other threads.  A request    *)
(* dials at most one connection: its first checkout either dials, and then *)
(* any error is final, or reuses, and then at most one more checkout, of a *)
(* new connection, follows.  A connection is therefore named by the        *)
(* request that dialled it, and so are the permits of the two semaphores,  *)
(* held first by the dial and then by the connection's task.               *)
(*                                                                         *)
(* Left out: the WebSocket dials, which take a permit of `global` only;    *)
(* what the failures say (alerts, certificates); time.  That an idle       *)
(* connection is too old, or a shared one stalled, is the set `worn`.      *)
(***************************************************************************)
EXTENDS Integers, Sequences, FiniteSets

CONSTANTS
  Requests,           \* calls of Pool::send
  Hosts,              \* the origins they are for
  Targets,            \* which requests are made, and for which origin
  PlainHosts,         \* the origins spoken to without TLS
  Offers,             \* the protocols an origin's servers choose, per origin
  Replayables,        \* requests that are safe to send twice
  MAX_CONNECTIONS,    \* PoolOptions::max_connections
  MAX_H1_PER_HOST,    \* PoolOptions::max_h1_per_host
  MaxResets,          \* bound: resets asked for
  None

Protocols == {"h1", "h2"}

ASSUME PoolAssumption ==
  /\ Requests # {} /\ IsFiniteSet(Requests) /\ None \notin Requests
  /\ None \notin Nat
  /\ Targets \subseteq UNION {[made -> Hosts] : made \in SUBSET Requests}
  /\ PlainHosts \subseteq Hosts
  /\ Offers \in [Hosts -> SUBSET Protocols]
  /\ \A h \in PlainHosts : Offers[h] = {"h1"}
  /\ Replayables \subseteq Requests
  /\ MAX_CONNECTIONS \in Nat \ {0} /\ MAX_H1_PER_HOST \in Nat \ {0}
  /\ MaxResets \in Nat

VARIABLES
  target,       \* which origin each request that is made is for
  resets,       \* ProxyContext::upstream_resets
  resets_seen,  \* Inner::resets_seen
  hosts,        \* Inner::hosts, a function on the origins it knows
  dialing,      \* who holds an origin's dial lock
  global,       \* who holds a permit of Inner::global
  slots,        \* who holds a permit of its origin's Host::slots
  conn,         \* the protocol of the open connection a request dialled
  worn,         \* pooled connections that are not to be reused
  pc,           \* where each request is
  task,         \* the locals of Pool::send and Pool::checkout
  sent,         \* history: how often a request may have reached a server
  pooled_at     \* history: the resets asked for when a connection was pooled

vars == <<target, resets, resets_seen, hosts, dialing, global, slots, conn,
          worn, pc, task, sent, pooled_at>>

Where == {"new", "h1_wait", "dial_wait", "permit_wait", "connect",
          "h2_connect", "send", "body", "return", "done"}

\* Host::new
NewHost(h) ==
  [protocol |-> IF h \in PlainHosts THEN "h1" ELSE "unknown",
   h2 |-> None, idle |-> <<>>, ready |-> 0, dials |-> 0, last_dial |-> None,
   active |-> {}]

NewTask(r) ==
  [fresh_only |-> FALSE, replay |-> r \in Replayables, protocol |-> "unknown",
   before |-> None, using |-> None, pooled |-> FALSE, begun |-> None,
   dialed |-> None]

Init ==
  /\ target \in Targets
  /\ resets = 0
  /\ resets_seen = 0
  /\ hosts = [h \in {} |-> NewHost(h)]
  /\ dialing = [h \in Hosts |-> None]
  /\ global = {}
  /\ slots = {}
  /\ conn = [r \in Requests |-> "none"]
  /\ worn = {}
  /\ pc = [r \in Requests |-> "new"]
  /\ task = [r \in Requests |-> NewTask(r)]
  /\ sent = [r \in Requests |-> 0]
  /\ pooled_at = [r \in Requests |-> None]

-----------------------------------------------------------------------------
(* The table of origins. *)

Open(c) == conn[c] \in Protocols

\* Mutant of Clear: the idle list is kept.
ClearKeepsIdle(host) == [host EXCEPT !.h2 = None, !.last_dial = None]

\* Host::clear
Clear(host) == [host EXCEPT !.h2 = None, !.idle = <<>>, !.last_dial = None]

\* Inner::hosts: a reset since the last look drops every pooled connection.
SeenHosts ==
  IF resets = resets_seen THEN hosts ELSE [h \in DOMAIN hosts |-> Clear(hosts[h])]

\* hosts.entry(target).or_insert_with(Host::new)
WithEntry(table, h) ==
  [x \in DOMAIN table \union {h} |->
    IF x \in DOMAIN table THEN table[x] ELSE NewHost(x)]

\* hosts.get_mut(target): nothing happens to an origin that was forgotten.
Update(table, h, host) ==
  IF h \in DOMAIN table THEN [table EXCEPT ![h] = host] ELSE table

Usable(c) == Open(c) /\ c \notin worn

Shareable(host) == host.h2 # None /\ Usable(host.h2)

\* Where Host::reuse stops popping the idle list; 0 when it empties it.
LastUsable(idle) ==
  LET good == {i \in DOMAIN idle : Usable(idle[i])}
  IN  IF good = {} THEN 0 ELSE CHOOSE i \in good : \A j \in good : j <= i

\* What Host::reuse returns.
Reused(host) ==
  IF Shareable(host) THEN host.h2
  ELSE IF LastUsable(host.idle) = 0 THEN None ELSE host.idle[LastUsable(host.idle)]

\* Mutant of IdleLeft: the connection handed out stays in the idle list.
IdleLeftKept(idle) == SubSeq(idle, 1, LastUsable(idle))

\* What Host::reuse leaves of the idle list.
IdleLeft(idle) ==
  IF LastUsable(idle) = 0 THEN <<>> ELSE SubSeq(idle, 1, LastUsable(idle) - 1)

\* What Host::reuse leaves in the pool.
Reuse(host) ==
  IF Shareable(host) THEN host
  ELSE [host EXCEPT !.h2 = None, !.idle = IdleLeft(host.idle)]

-----------------------------------------------------------------------------
(* Permits and notifications. *)

PermitLeft == Cardinality(global) < MAX_CONNECTIONS

SlotLeft(h) == Cardinality({r \in slots : target[r] = h}) < MAX_H1_PER_HOST

\* The requests registered with an origin's `ready`; the ones that want a new
\* connection only do not listen.
Listening(h) ==
  {r \in Requests : pc[r] = "h1_wait" /\ target[r] = h /\ ~task[r].fresh_only}

Least(a, b) == IF a <= b THEN a ELSE b

\* Notify::notify_one: one listener is woken, or one permit is stored when all
\* of them are woken already.
NotifyOne(host, h) ==
  [host EXCEPT !.ready = Least(host.ready + 1, Cardinality(Listening(h)) + 1)]

\* A listener that leaves passes its wake-up on.
StopListening(host, h, r) ==
  [host EXCEPT !.ready = Least(host.ready, Cardinality(Listening(h) \ {r}) + 1)]

\* The dial lock is released when its guard is dropped.
Unlocked(r) == [h \in Hosts |-> IF dialing[h] = r THEN None ELSE dialing[h]]


-----------------------------------------------------------------------------
(* Pool::checkout.  Looks is one turn of its loop up to the next await; t is *)
(* the request's task, table the origins as hosts() returned them, permits   *)
(* the holders of `global`.                                                  *)

\* checkout returns, and its locals are gone.
Uses(r, t, c, pooled) ==
  /\ pc' = [pc EXCEPT ![r] = "send"]
  /\ task' = [task EXCEPT ![r] =
                [NewTask(r) EXCEPT !.fresh_only = t.fresh_only, !.replay = t.replay,
                                   !.using = c, !.pooled = pooled]]

Waits(r, t, host) ==
  IF host.protocol = "h1"
  THEN /\ pc' = [pc EXCEPT ![r] = "h1_wait"]
       /\ task' = [task EXCEPT ![r] = [t EXCEPT !.protocol = "h1"]]
  ELSE /\ pc' = [pc EXCEPT ![r] = "dial_wait"]
       /\ task' = [task EXCEPT ![r] =
                    [t EXCEPT !.protocol = host.protocol,
                              !.before = IF @ = None THEN host.dials ELSE @]]

Candidate(t, host) == IF t.fresh_only THEN None ELSE Reused(host)

Searched(t, host) == IF t.fresh_only THEN host ELSE Reuse(host)

Looks(r, t, table, permits) ==
  LET h == target[r]
      host == WithEntry(table, h)[h]
      c == Candidate(t, host)
  IN  /\ hosts' = [WithEntry(table, h) EXCEPT ![h] = Searched(t, host)]
      /\ resets_seen' = resets
      /\ IF c # None
         THEN Uses(r, t, c, TRUE) /\ global' = permits \ {r}
         ELSE Waits(r, t, host) /\ global' = permits

\* A request is over, and so are its locals.
Ends(r) ==
  /\ pc' = [pc EXCEPT ![r] = "done"]
  /\ task' = [task EXCEPT ![r] = NewTask(r)]

Start(r) ==
  /\ pc[r] = "new" /\ r \in DOMAIN target
  /\ Looks(r, [task[r] EXCEPT !.begun = resets], SeenHosts, global)
  /\ UNCHANGED <<target, resets, dialing, slots, conn, worn, sent, pooled_at>>

\* slots.acquire_owned() is ready; connect then needs a permit of `global`.
TakeSlot(r) ==
  LET h == target[r]
  IN  /\ pc[r] = "h1_wait"
      /\ SlotLeft(h)
      /\ slots' = slots \union {r}
      /\ hosts' = [hosts EXCEPT ![h] = StopListening(hosts[h], h, r)]
      /\ pc' = [pc EXCEPT ![r] = IF r \in global THEN "connect" ELSE "permit_wait"]
      /\ task' = [task EXCEPT ![r].dialed = IF r \in global THEN resets ELSE None]
      /\ UNCHANGED <<target, resets, resets_seen, dialing, global, conn, worn,
                     sent, pooled_at>>

\* ready.notified() is ready: the loop starts again.
WakeReady(r) ==
  LET h == target[r]
      table == SeenHosts
  IN  /\ pc[r] = "h1_wait" /\ ~task[r].fresh_only
      /\ hosts[h].ready > 0
      /\ Looks(r, task[r], [table EXCEPT ![h].ready = @ - 1], global)
      /\ UNCHANGED <<target, resets, dialing, slots, conn, worn, sent, pooled_at>>

\* "failing with the dial this request waited for"
SharesFailure(t, host) == host.dials # t.before /\ host.last_dial # None

\* The protocol was unknown when the loop read it and is HTTP/1.1 by now.
LearnedH1(t, host) == t.protocol = "unknown" /\ host.protocol = "h1"

\* The dial lock is free and this request takes it.
DialTurn(r) ==
  LET h == target[r]
      t == task[r]
      found == WithEntry(SeenHosts, h)[h]
      host == Searched(t, found)
      table == [WithEntry(SeenHosts, h) EXCEPT ![h] = host]
      c == Candidate(t, found)
  IN  /\ pc[r] = "dial_wait"
      /\ dialing[h] = None
      /\ UNCHANGED <<target, resets, conn, worn, sent, pooled_at>>
      /\ \/ /\ c = None /\ ~SharesFailure(t, host) /\ LearnedH1(t, host)
            /\ Looks(r, t, table, global)
            /\ UNCHANGED <<dialing, slots>>
         \/ /\ c = None => SharesFailure(t, host) \/ ~LearnedH1(t, host)
            /\ hosts' = table
            /\ resets_seen' = resets
            /\ \/ /\ c # None
                  /\ Uses(r, t, c, TRUE)
                  /\ global' = global \ {r}
                  /\ UNCHANGED <<dialing, slots>>
               \/ /\ c = None /\ SharesFailure(t, host)
                  /\ Ends(r)
                  /\ global' = global \ {r}
                  /\ UNCHANGED <<dialing, slots>>
               \/ /\ c = None /\ ~SharesFailure(t, host)
                  /\ r \in global \/ PermitLeft
                  /\ global' = global \union {r}
                  /\ slots' = IF SlotLeft(h) THEN slots \union {r} ELSE slots
                  /\ dialing' = [dialing EXCEPT ![h] = r]
                  /\ pc' = [pc EXCEPT ![r] = "connect"]
                  /\ task' = [task EXCEPT ![r].dialed = resets]
               \/ /\ c = None /\ ~SharesFailure(t, host)
                  /\ r \notin global /\ ~PermitLeft
                  /\ pc' = [pc EXCEPT ![r] = "permit_wait"]
                  /\ UNCHANGED <<dialing, slots, global, task>>

-----------------------------------------------------------------------------
(* Pool::global_permit.  A request that holds a slot is in connect, one that *)
(* does not gave up its turn to dial and looks again.                        *)

\* Mutant of GetPermit: a request without a slot is not told of a free permit.
GetPermitWithSlot(r) ==
  /\ pc[r] = "permit_wait"
  /\ PermitLeft
  /\ r \in slots
  /\ global' = global \union {r}
  /\ pc' = [pc EXCEPT ![r] = "connect"]
  /\ task' = [task EXCEPT ![r].dialed = resets]
  /\ UNCHANGED <<target, resets, resets_seen, hosts, dialing, slots, conn, worn,
                 sent, pooled_at>>

GetPermit(r) ==
  /\ pc[r] = "permit_wait"
  /\ PermitLeft
  /\ \/ /\ r \in slots
        /\ global' = global \union {r}
        /\ pc' = [pc EXCEPT ![r] = "connect"]
        /\ task' = [task EXCEPT ![r].dialed = resets]
        /\ UNCHANGED <<hosts, resets_seen>>
     \/ /\ r \notin slots
        /\ Looks(r, task[r], SeenHosts, global \union {r})
  /\ UNCHANGED <<target, resets, dialing, slots, conn, worn, sent, pooled_at>>

\* Pool::evict_one closes the oldest idle HTTP/1.1 connection (an idle list is
\* in the order of time; which origin's head is the oldest is left open), or an
\* HTTP/2 one without responses.
Evicted(table, after) ==
  LET withIdle == {h \in DOMAIN table : table[h].idle # <<>>}
      withH2 == {h \in DOMAIN table : table[h].h2 # None /\ table[h].active = {}}
  IN  \/ \E h \in withIdle :
           after = [table EXCEPT ![h].idle = Tail(@)]
      \/ /\ withIdle = {}
         /\ \E h \in withH2 : after = [table EXCEPT ![h].h2 = None]
      \/ /\ withIdle = {} /\ withH2 = {}
         /\ after = table

Evict(r) ==
  /\ pc[r] = "permit_wait"
  /\ ~PermitLeft
  /\ Evicted(SeenHosts, hosts')
  /\ resets_seen' = resets
  /\ UNCHANGED <<target, resets, dialing, global, slots, conn, worn, pc, task,
                 sent, pooled_at>>

\* The connect timeout passed: UpstreamError::Exhausted.
GiveUp(r) ==
  /\ pc[r] = "permit_wait"
  /\ ~PermitLeft
  /\ Ends(r)
  /\ slots' = slots \ {r}
  /\ UNCHANGED <<target, resets, resets_seen, hosts, dialing, global, conn,
                 worn, sent, pooled_at>>

-----------------------------------------------------------------------------
(* Pool::connect, handshake, set_protocol, and what checkout records after.  *)

\* A dial made under the dial lock is counted, with the failure it had; the
\* failure is remembered with the resets asked for when the dial began.
Recorded(r, host, failure) ==
  IF dialing[target[r]] = r
  THEN [host EXCEPT !.dials = @ + 1, !.last_dial = failure]
  ELSE host

\* Pool::set_protocol.
SetProtocol(host, protocol) == [host EXCEPT !.protocol = protocol]

\* Unreachable::of: a timeout or a refused connection is worth sharing; a TLS
\* failure says nothing about the other requests.
Failures(r) == {task[r].dialed, None}

\* connect fails or times out; its permits are dropped.
ConnectFails(r) ==
  LET h == target[r]
  IN  /\ pc[r] \in {"connect", "h2_connect"}
      /\ \/ /\ dialing[h] = r
            /\ \E failure \in Failures(r) :
                 hosts' = Update(SeenHosts, h, Recorded(r, SeenHosts[h], failure))
            /\ resets_seen' = resets
         \/ /\ dialing[h] # r
            /\ UNCHANGED <<hosts, resets_seen>>
      /\ Ends(r)
      /\ dialing' = Unlocked(r)
      /\ slots' = slots \ {r}
      /\ global' = global \ {r}
      /\ UNCHANGED <<target, resets, conn, worn, sent, pooled_at>>

\* start_http1: the permits move to the connection's task.
ConnectH1(r) ==
  LET h == target[r]
      host == SeenHosts[h]
  IN  /\ pc[r] = "connect"
      /\ "h1" \in Offers[h]
      /\ hosts' = Update(SeenHosts, h, Recorded(r, SetProtocol(host, "h1"), None))
      /\ resets_seen' = resets
      /\ conn' = [conn EXCEPT ![r] = "h1"]
      /\ Uses(r, task[r], r, FALSE)
      /\ dialing' = Unlocked(r)
      /\ UNCHANGED <<target, resets, global, slots, worn, sent, pooled_at>>

\* ALPN chose HTTP/2: the slot is not needed.
NegotiateH2(r) ==
  /\ pc[r] = "connect"
  /\ "h2" \in Offers[target[r]]
  /\ pc' = [pc EXCEPT ![r] = "h2_connect"]
  /\ slots' = slots \ {r}
  /\ UNCHANGED <<target, resets, resets_seen, hosts, dialing, global, conn,
                 worn, task, sent, pooled_at>>

\* The HTTP/2 connection is up and shared.
ConnectH2(r) ==
  LET h == target[r]
      host == [SetProtocol(SeenHosts[h], "h2") EXCEPT !.h2 = r]
  IN  /\ pc[r] = "h2_connect"
      /\ hosts' = Update(SeenHosts, h, Recorded(r, host, None))
      /\ resets_seen' = resets
      /\ conn' = [conn EXCEPT ![r] = "h2"]
      /\ pooled_at' = [pooled_at EXCEPT ![r] = resets]
      /\ Uses(r, task[r], r, FALSE)
      /\ dialing' = Unlocked(r)
      /\ UNCHANGED <<target, resets, global, slots, worn, sent>>

-----------------------------------------------------------------------------
(* Pool::send with a connection in hand, Pool::wrap and Inner::give_back.    *)

Again(t) == [t EXCEPT !.fresh_only = TRUE, !.before = None, !.using = None]

\* The response starts: it counts as active until its body is done.
Respond(r) ==
  LET h == target[r]
      table == SeenHosts
  IN  /\ pc[r] = "send"
      /\ Open(task[r].using)
      /\ sent' = [sent EXCEPT ![r] = @ + 1]
      /\ hosts' = IF h \in DOMAIN table
                  THEN [table EXCEPT ![h].active = @ \union {r}] ELSE table
      /\ resets_seen' = resets
      /\ pc' = [pc EXCEPT ![r] = "body"]
      /\ UNCHANGED <<target, resets, dialing, global, slots, conn, worn, task,
                     pooled_at>>

\* A reused connection hands the request back unsent: retried on a new one.
RetryUnsent(r) ==
  /\ pc[r] = "send"
  /\ task[r].pooled
  /\ Looks(r, Again(task[r]), SeenHosts, global)
  /\ UNCHANGED <<target, resets, dialing, slots, conn, worn, sent, pooled_at>>

\* Mutant of MayReplay: any request is sent again.
MayReplayAny(t) == t.pooled

\* A reused connection fails after sending: retried if that is safe, once.
MayReplay(t) == t.pooled /\ t.replay

Replay(r) ==
  /\ pc[r] = "send"
  /\ MayReplay(task[r])
  /\ sent' = [sent EXCEPT ![r] = @ + 1]
  /\ Looks(r, [Again(task[r]) EXCEPT !.replay = FALSE], SeenHosts, global)
  /\ UNCHANGED <<target, resets, dialing, slots, conn, worn, pooled_at>>

\* Any other error is the caller's.  A new connection may fail unsent.
SendFails(r) ==
  /\ pc[r] = "send"
  /\ ~MayReplay(task[r])
  /\ \/ sent' = [sent EXCEPT ![r] = @ + 1]
     \/ ~task[r].pooled /\ UNCHANGED sent
  /\ Ends(r)
  /\ UNCHANGED <<target, resets, resets_seen, hosts, dialing, global, slots,
                 conn, worn, pooled_at>>

\* The body ends, fails or is dropped (DoneBody); an HTTP/1.1 connection then
\* waits in give_back's task to be ready again.
BodyDone(r) ==
  LET h == target[r]
  IN  /\ pc[r] = "body"
      /\ hosts' = IF h \in DOMAIN hosts
                  THEN [hosts EXCEPT ![h].active = @ \ {r}] ELSE hosts
      /\ IF conn[task[r].using] = "h1"
         THEN pc' = [pc EXCEPT ![r] = "return"] /\ UNCHANGED task
         ELSE Ends(r)
      /\ UNCHANGED <<target, resets, resets_seen, dialing, global, slots, conn,
                     worn, sent, pooled_at>>

\* give_back: the connection is idle, and a waiting request is told.
GiveBack(r) ==
  LET h == target[r]
      c == task[r].using
      table == SeenHosts
  IN  /\ pc[r] = "return"
      /\ Open(c)
      /\ \/ /\ h \in DOMAIN table
            /\ hosts' = [table EXCEPT ![h] =
                          NotifyOne([table[h] EXCEPT !.idle = Append(@, c)], h)]
            /\ pooled_at' = [pooled_at EXCEPT ![c] = resets]
         \/ /\ h \notin DOMAIN table
            /\ hosts' = table
            /\ UNCHANGED pooled_at
      /\ resets_seen' = resets
      /\ Ends(r)
      /\ UNCHANGED <<target, resets, dialing, global, slots, conn, worn, sent>>

\* give_back: the connection closed instead.
NotGivenBack(r) ==
  /\ pc[r] = "return"
  /\ ~Open(task[r].using)
  /\ Ends(r)
  /\ UNCHANGED <<target, resets, resets_seen, hosts, dialing, global, slots,
                 conn, worn, sent, pooled_at>>

-----------------------------------------------------------------------------
(* The client, the connections, time and resets.                             *)

\* The client goes away: the request's future is dropped at an await, with the
\* permits and the dial lock it holds.  (A body that is dropped is BodyDone.)
Cancel(r) ==
  LET h == target[r]
  IN  /\ pc[r] \in {"h1_wait", "dial_wait", "permit_wait", "connect",
                    "h2_connect", "send"}
      /\ hosts' = IF r \in Listening(h)
                  THEN [hosts EXCEPT ![h] = StopListening(@, h, r)] ELSE hosts
      /\ dialing' = Unlocked(r)
      /\ global' = IF pc[r] = "send" THEN global ELSE global \ {r}
      /\ slots' = IF pc[r] = "send" THEN slots ELSE slots \ {r}
      /\ Ends(r)
      /\ UNCHANGED <<target, resets, resets_seen, conn, worn, sent, pooled_at>>

\* A connection's task ends: the peer closed it, its path is gone, or nobody
\* holds its sender any more.
ConnEnd(c) ==
  /\ Open(c)
  /\ conn' = [conn EXCEPT ![c] = "none"]
  /\ global' = global \ {c}
  /\ slots' = slots \ {c}
  /\ worn' = worn \ {c}
  /\ pooled_at' = [pooled_at EXCEPT ![c] = None]
  /\ UNCHANGED <<target, resets, resets_seen, hosts, dialing, pc, task, sent>>

Idle(c) == \E h \in DOMAIN hosts : \E i \in DOMAIN hosts[h].idle : hosts[h].idle[i] = c

Shared(c) == \E h \in DOMAIN hosts : hosts[h].h2 = c

Used(c) == {r \in Requests : pc[r] \in {"send", "body", "return"} /\ task[r].using = c}

Unreferenced(c) == ~Idle(c) /\ ~Shared(c) /\ Used(c) = {}

\* A connection in an idle list has been there for idle_timeout.
IdleTimeout(c) ==
  /\ Open(c) /\ c \notin worn
  /\ Idle(c)
  /\ worn' = worn \union {c}
  /\ UNCHANGED <<target, resets, resets_seen, hosts, dialing, global, slots,
                 conn, pc, task, sent, pooled_at>>

\* A shared connection becomes idle for too long or stalled, or stops being so.
Stall(c) ==
  /\ Open(c)
  /\ Shared(c)
  /\ worn' = IF c \in worn THEN worn \ {c} ELSE worn \union {c}
  /\ UNCHANGED <<target, resets, resets_seen, hosts, dialing, global, slots,
                 conn, pc, task, sent, pooled_at>>

\* What Vec::retain leaves of an idle list: what may still be used, in order.
Retained(idle) ==
  LET good == {i \in DOMAIN idle : Usable(idle[i])}
      nth(n) == CHOOSE i \in good : Cardinality({j \in good : j <= i}) = n
  IN  [n \in 1..Cardinality(good) |-> idle[nth(n)]]

\* Pool::reap, for one origin: what is closed or idle for too long is dropped.
Reaped(host) ==
  [host EXCEPT !.idle = Retained(@),
               !.h2 = IF @ # None /\ (~Open(@) \/ (@ \in worn /\ host.active = {}))
                      THEN None ELSE @]

\* No connection, response, slot, nor a request that waits or dials.
Unused(h, host) ==
  /\ host.idle = <<>> /\ host.h2 = None /\ host.active = {}
  /\ \A r \in slots : target[r] # h
  /\ \A r \in DOMAIN target : target[r] = h =>
       pc[r] \notin {"h1_wait", "dial_wait", "permit_wait", "connect", "h2_connect"}

Reap ==
  LET table == [h \in DOMAIN hosts |-> Reaped(SeenHosts[h])]
  IN  /\ hosts' = [h \in {x \in DOMAIN table : ~Unused(x, table[x])} |-> table[h]]
      /\ resets_seen' = resets
      /\ UNCHANGED <<target, resets, dialing, global, slots, conn, worn, pc,
                     task, sent, pooled_at>>

\* ProxyContext::reset_upstream_connections, on another thread.
Reset ==
  /\ resets < MaxResets
  /\ resets' = resets + 1
  /\ UNCHANGED <<target, resets_seen, hosts, dialing, global, slots, conn, worn,
                 pc, task, sent, pooled_at>>

-----------------------------------------------------------------------------
Checkout(r) == TakeSlot(r) \/ WakeReady(r) \/ DialTurn(r)

Permit(r) == GetPermit(r) \/ GiveUp(r)

Connect(r) == ConnectFails(r) \/ ConnectH1(r) \/ NegotiateH2(r) \/ ConnectH2(r)

Send(r) == Respond(r) \/ RetryUnsent(r) \/ Replay(r) \/ SendFails(r)

Return(r) == BodyDone(r) \/ GiveBack(r) \/ NotGivenBack(r)

Progress(r) == Checkout(r) \/ Permit(r) \/ Connect(r) \/ Send(r) \/ Return(r)

Next ==
  \/ \E r \in Requests : Start(r) \/ Progress(r) \/ Evict(r) \/ Cancel(r)
  \/ \E c \in Requests : ConnEnd(c) \/ IdleTimeout(c) \/ Stall(c)
  \/ Reap
  \/ Reset

Spec == Init /\ [][Next]_vars

\* The runtime polls a task that is ready (its semaphores and its mutex are
\* fair); connect and global_permit have deadlines; the reaper has a period; a
\* connection nobody can use ends.  That a server answers or fails and that a
\* body ends is assumed of the environment.
FairSpec ==
  /\ Spec
  /\ \A r \in Requests : WF_vars(Progress(r))
  /\ \A c \in Requests :
       WF_vars(IdleTimeout(c) \/ (Unreferenced(c) /\ ConnEnd(c)))
  /\ WF_vars(Reap)

-----------------------------------------------------------------------------
(* Properties. *)

Opt(S) == S \union {None}

HostType ==
  [protocol : Protocols \union {"unknown"}, h2 : Opt(Requests),
   idle : Seq(Requests), ready : Nat, dials : Nat,
   last_dial : Opt(0..MaxResets), active : SUBSET Requests]

TaskType ==
  [fresh_only : BOOLEAN, replay : BOOLEAN,
   protocol : Protocols \union {"unknown"}, before : Opt(Nat),
   using : Opt(Requests), pooled : BOOLEAN, begun : Opt(0..MaxResets),
   dialed : Opt(0..MaxResets)]

\* Every variable has its type, and no semaphore has more permits out than it
\* was made with.
TypeOK ==
  /\ target \in UNION {[made -> Hosts] : made \in SUBSET Requests}
  /\ resets \in 0..MaxResets /\ resets_seen \in 0..resets
  /\ DOMAIN hosts \subseteq Hosts
  /\ \A h \in DOMAIN hosts : hosts[h] \in HostType
  /\ dialing \in [Hosts -> Opt(Requests)]
  /\ global \subseteq Requests /\ Cardinality(global) <= MAX_CONNECTIONS
  /\ slots \subseteq Requests
  /\ \A h \in Hosts : Cardinality({r \in slots : target[r] = h}) <= MAX_H1_PER_HOST
  /\ conn \in [Requests -> Protocols \union {"none"}]
  /\ worn \subseteq Requests
  /\ pc \in [Requests -> Where]
  /\ task \in [Requests -> TaskType]
  /\ sent \in [Requests -> Nat]
  /\ pooled_at \in [Requests -> Opt(0..MaxResets)]

\* Two requests never use one HTTP/1.1 connection at a time: it is in one place
\* of one idle list, or in one request's hands from checkout until give_back
\* has run, and never in both.
ExclusiveH1 ==
  \A c \in Requests : conn[c] = "h1" =>
    LET places == {p \in Hosts \X (1..Cardinality(Requests)) :
                     /\ p[1] \in DOMAIN hosts
                     /\ p[2] \in DOMAIN hosts[p[1]].idle
                     /\ hosts[p[1]].idle[p[2]] = c}
    IN  Cardinality(places) + Cardinality(Used(c)) <= 1

\* max_connections bounds the open connections, and no permit leaks: a permit
\* of `global` or of an origin's slots is out exactly for an open connection or
\* for a request that is still on its way to one, whatever was cancelled, timed
\* out, evicted or given up in between.
PermitsAccounted ==
  /\ \A c \in Requests : Open(c) => c \in global
  /\ \A r \in global :
       \/ Open(r)
       \/ pc[r] \in {"h1_wait", "dial_wait", "connect", "h2_connect"}
  /\ \A r \in slots : conn[r] = "h1" \/ pc[r] \in {"permit_wait", "connect"}
  /\ \A h \in Hosts : dialing[h] # None =>
       pc[dialing[h]] \in {"connect", "h2_connect"}

OpenH1(h) == {c \in Requests : conn[c] = "h1" /\ target[c] = h}

\* "HTTP/1.1 origins get at most `max_h1_per_host` connections" (upstream.rs,
\* module comment), although the protocol is unknown until a first dial is over.
\* An origin whose servers also choose HTTP/2 can get more: a dial under the
\* lock goes on without a slot when none is left.
H1LimitOfH1Origins ==
  \A h \in Hosts : Offers[h] = {"h1"} => Cardinality(OpenH1(h)) <= MAX_H1_PER_HOST

\* A request that waits for a connection to an HTTP/1.1 origin does not sleep
\* while one is idle: a wake-up is on its way (Host::ready).  An origin whose
\* servers also choose HTTP/2 is left out: who is woken for an idle connection
\* may take the shared one, and the next to wait is then woken by a slot only.
NoLostWakeup ==
  \A h \in DOMAIN hosts :
    Offers[h] = {"h1"} /\ hosts[h].idle # <<>> /\ Listening(h) # {}
      => hosts[h].ready > 0

\* Connections, permits and wake-ups are accounted for: the four above
\* (upstream.rs, checkout, connect, give_back, reap, evict_one).
ConnectionsAccounted ==
  /\ TypeOK /\ ExclusiveH1 /\ PermitsAccounted
  /\ H1LimitOfH1Origins /\ NoLostWakeup

\* A request reaches a server at most once, or twice if repeating it is safe.
SentOnce == \A r \in Requests : sent[r] <= IF r \in Replayables THEN 2 ELSE 1

\* A reset keeps every connection pooled before it from being handed out after
\* it, although it is only counted, and acted on by whoever looks next.
HandedOutAfterReset ==
  [][\A r \in Requests :
       /\ pc'[r] = "send" /\ task'[r].pooled
       /\ pc[r] # "send"
       => pooled_at[task'[r].using] = resets]_vars

\* A request that was sent to the pool ends: it is not stuck between the slots,
\* the wake-ups, the dial lock and the permits, even one that accepts only a
\* new connection while idle connections hold every slot.
RequestsEnd == <>[](\A r \in Requests : pc[r] \in {"new", "done"})

=============================================================================
