------------------------- MODULE ClientConnections -------------------------
(***************************************************************************)
(* Admission of CONNECT requests and the end of the connections they open: *)
(* core/crates/mitm/src/connect.rs (which slot a host gets, and how it     *)
(* waits for one), proxy.rs (reclaim_longest_idle), idle.rs (Activity and  *)
(* serve, which closes idle connections), sink.rs and intercept.rs (what   *)
(* holds a slot, and until when).                                          *)
(*                                                                         *)
(* Every task runs on one current-thread runtime, so code between two      *)
(* awaits is one step.  Time advances by Tick, which waits until every     *)
(* timer that is due and every notification has been handled: the durations*)
(* keep the order the source gives them (RECLAIM_GRACE is one tick, and so *)
(* is BLOCKED_SLOT_RETRY).  A permit that is released goes to the first    *)
(* task of its semaphore's queue; a timeout polls its future before its    *)
(* timer, so a permit given at the deadline is taken.                      *)
(*                                                                         *)
(* What a host is (blocked, passed through, inspected), what its client    *)
(* sends and how long it takes are the environment's choice.  A refusal    *)
(* that touches no slot (403 for a blocked host the policy passes through, *)
(* or when memory is low) changes nothing here.                            *)
(***************************************************************************)
EXTENDS Integers, Sequences, FiniteSets, Functions

CONSTANTS
    Conns,               \* client connections; one that ended may connect again
    none,                \* no connection
    max_intercepted,     \* interception slots (ProxyContext::max_intercepted)
    max_blocked,         \* blocked-connection slots
    max_passthrough,     \* passthrough tunnels
    RECLAIM_GRACE,       \* how long a reclaimed connection may take to close
    CLOSE_GRACE,         \* how long any other shutdown may take
    RECLAIM_WAIT,        \* how long a new connection waits for an interception slot
    BLOCKED_SLOT_WAIT,   \* how long a blocked host waits for a slot
    MIN_IDLE_TO_RECLAIM, \* idle time after which an interception slot is taken back
    idle_timeout,        \* idle time after which a connection is closed
    MaxLate              \* bound: requests that cross a shutdown on the wire

Kinds == {"intercept", "blocked", "passthrough"}

(* The two const assertions of connect.rs, and the order of the other      *)
(* durations.                                                              *)
ASSUME Durations ==
    /\ RECLAIM_GRACE \in Nat \ {0}
    /\ RECLAIM_GRACE * 2 <= RECLAIM_WAIT
    /\ RECLAIM_GRACE * 2 <= BLOCKED_SLOT_WAIT
    /\ RECLAIM_GRACE <= CLOSE_GRACE
    /\ MIN_IDLE_TO_RECLAIM <= idle_timeout
    /\ {RECLAIM_WAIT, BLOCKED_SLOT_WAIT, CLOSE_GRACE, MIN_IDLE_TO_RECLAIM,
        idle_timeout, MaxLate} \subseteq Nat

ASSUME Slots ==
    /\ {max_intercepted, max_blocked, max_passthrough} \subseteq Nat \ {0}
    /\ none \notin Conns \cup Kinds
    /\ IsFiniteSet(Conns)

VARIABLES
    stage,    \* what each connection's task is doing
    slot,     \* the permit each connection holds
    free,     \* free permits of each semaphore
    queue,    \* connections waiting for each semaphore, first come first served
    left,     \* time left to wait for a slot
    look,     \* a blocked host whose retry timer fired
    asked,    \* the connection a waiting one asked to close, while it lives
    activity  \* the Activity of an open connection, and idle::serve's locals

vars == <<stage, slot, free, queue, left, look, asked, activity>>

max_permits(k) == CASE k = "intercept" -> max_intercepted
                    [] k = "blocked" -> max_blocked
                    [] OTHER -> max_passthrough

(* A fresh Activity.  idle counts from its field last, for as long as      *)
(* somebody reads it: until the connection is asked to close.  extended    *)
(* and late only record what happened: a drop put off because a request    *)
(* was in flight, and requests that came after the shutdown began.         *)
NewActivity == [in_flight |-> 0, idle |-> 0, close_requested |-> FALSE,
                reclaim |-> FALSE, notified |-> FALSE, closing |-> FALSE,
                drop_in |-> 0, extended |-> FALSE, late |-> 0]

Init ==
    /\ stage = [c \in Conns |-> "new"]
    /\ slot = [c \in Conns |-> none]
    /\ free = [k \in Kinds |-> max_permits(k)]
    /\ queue = [k \in Kinds |-> <<>>]
    /\ left = [c \in Conns |-> 0]
    /\ look = [c \in Conns |-> FALSE]
    /\ asked = [c \in Conns |-> none]
    /\ activity = [c \in Conns |-> NewActivity]

-----------------------------------------------------------------------------
(* Slots *)

Holds(c, k, next) ==
    /\ stage' = [stage EXCEPT ![c] = next]
    /\ slot' = [slot EXCEPT ![c] = k]

(* try_acquire_owned.  Permits are free only while nobody waits for them.  *)
TryAcquire(c, k, next) ==
    /\ free[k] > 0
    /\ free' = [free EXCEPT ![k] = @ - 1]
    /\ Holds(c, k, next)

WaitFor(k) == IF k = "blocked" THEN BLOCKED_SLOT_WAIT ELSE RECLAIM_WAIT

(* Dropping the permit and the Activity of connection c, whose task goes   *)
(* on to next: the first waiting task gets the permit, and a task that     *)
(* asked c to close sees its Activity gone.                                *)
Release(c, next) ==
    LET k == slot[c]
        w == IF k = none \/ queue[k] = <<>> THEN none ELSE Head(queue[k])
    IN  /\ stage' = [x \in Conns |-> CASE x = c -> next
                                      [] x = w -> "handshake"
                                      [] OTHER -> stage[x]]
        /\ slot' = [x \in Conns |-> CASE x = c -> none
                                     [] x = w -> k
                                     [] OTHER -> slot[x]]
        /\ IF w = none
           THEN UNCHANGED <<queue, left, look>>
           ELSE /\ queue' = [queue EXCEPT ![k] = Tail(@)]
                /\ left' = [left EXCEPT ![w] = 0]
                /\ look' = [look EXCEPT ![w] = FALSE]
        /\ free' = IF k = none \/ w # none THEN free ELSE [free EXCEPT ![k] = @ + 1]
        /\ asked' = [x \in Conns |-> IF x = w \/ asked[x] = c THEN none ELSE asked[x]]
        /\ activity' = [activity EXCEPT ![c] = NewActivity]

End(c) == Release(c, "new")

(* Activity::idle_since is Some(since) for these connections of the list.  *)
IdleSince(k) ==
    {c \in Conns : /\ stage[c] = "open"
                   /\ slot[c] = k
                   /\ activity[c].in_flight = 0
                   /\ ~activity[c].close_requested}

(* The connections reclaim_longest_idle may pick: idle for at least min,   *)
(* and none of them idle for longer.                                       *)
LongestIdle(k, min) ==
    LET idle == {c \in IdleSince(k) : activity[c].idle >= min}
    IN  {c \in idle : \A d \in idle : activity[d].idle <= activity[c].idle}

(* Activity::request_close. *)
Closed(a) == [a EXCEPT !.close_requested = TRUE, !.notified = TRUE, !.idle = 0]

(* Activity::request_reclaim. *)
Reclaimed(a) == [Closed(a) EXCEPT !.reclaim = TRUE]

Reclaim(c, d) ==
    /\ activity' = [activity EXCEPT ![d] = Reclaimed(@)]
    /\ asked' = [asked EXCEPT ![c] = d]

(* The look at the head of blocked_slot's loop: asks the blocked           *)
(* connection idle longest to close, unless the one asked still lives.     *)
AskAnother(c) ==
    IF asked[c] = none /\ LongestIdle("blocked", 0) # {}
    THEN \E d \in LongestIdle("blocked", 0) : Reclaim(c, d)
    ELSE UNCHANGED <<activity, asked>>

Enqueue(c, k) ==
    /\ queue' = [queue EXCEPT ![k] = Append(@, c)]
    /\ left' = [left EXCEPT ![c] = WaitFor(k)]
    /\ stage' = [stage EXCEPT ![c] = "waits"]

(* blocked_slot, for a host the policy does not pass through while memory  *)
(* is not low.                                                             *)
BlockedSlot(c) ==
    IF free["blocked"] > 0
    THEN /\ TryAcquire(c, "blocked", "handshake")
         /\ UNCHANGED <<queue, left, asked, activity>>
    ELSE /\ Enqueue(c, "blocked")
         /\ AskAnother(c)
         /\ UNCHANGED <<slot, free>>

(* passthrough_slot, and the tunnel; over the cap the client is closed.    *)
Passthrough(c) ==
    IF free["passthrough"] > 0
    THEN TryAcquire(c, "passthrough", "tunnel")
    ELSE /\ stage' = [stage EXCEPT ![c] = "new"]
         /\ UNCHANGED <<slot, free>>

-----------------------------------------------------------------------------
(* CONNECT *)

(* connect, of a blocked host. *)
ConnectBlocked(c) ==
    /\ stage[c] = "new"
    /\ BlockedSlot(c)
    /\ UNCHANGED look

(* connect, of a host the policy passes through. *)
ConnectPassthrough(c) ==
    /\ stage[c] = "new"
    /\ free["passthrough"] > 0
    /\ Passthrough(c)
    /\ UNCHANGED <<queue, left, look, asked, activity>>

(* connect, of any other host: it is inspected. *)
ConnectInspect(c) ==
    /\ stage[c] = "new"
    /\ stage' = [stage EXCEPT ![c] = "hello"]
    /\ UNCHANGED <<slot, free, queue, left, look, asked, activity>>

(* plan, of a hello that is not TLS or offers no HTTP, of a server name    *)
(* passed through, while memory is low, and without a leaf for the name.   *)
PlanTunnel(c) ==
    /\ stage[c] \in {"hello", "uncertified"}
    /\ Passthrough(c)
    /\ UNCHANGED <<queue, left, look, asked, activity>>

(* blocked_plan: a blocked server name behind another host. *)
PlanSink(c) ==
    /\ stage[c] = "hello"
    /\ BlockedSlot(c)
    /\ UNCHANGED look

(* plan, with intercept_slot: a free slot, or one asked back from the      *)
(* connection idle longest, or the host is tunnelled.                      *)
PlanIntercept(c) ==
    /\ stage[c] = "hello"
    /\ IF free["intercept"] > 0
       THEN /\ TryAcquire(c, "intercept", "handshake")
            /\ UNCHANGED <<queue, left, asked, activity>>
       ELSE IF LongestIdle("intercept", MIN_IDLE_TO_RECLAIM) # {}
       THEN /\ \E d \in LongestIdle("intercept", MIN_IDLE_TO_RECLAIM) : Reclaim(c, d)
            /\ Enqueue(c, "intercept")
            /\ UNCHANGED <<slot, free>>
       ELSE /\ Passthrough(c)
            /\ UNCHANGED <<queue, left, asked, activity>>
    /\ UNCHANGED look

Without(q, i) == [j \in 1..(Len(q) - 1) |-> IF j < i THEN q[j] ELSE q[j + 1]]

(* Dropping a pending acquire. *)
StopWaiting(c, k) ==
    /\ \E i \in DOMAIN queue[k] :
        queue[k][i] = c /\ queue' = [queue EXCEPT ![k] = Without(@, i)]
    /\ asked' = [asked EXCEPT ![c] = none]

(* intercept_slot's timeout: Plan::Tunnel(Capacity). *)
InterceptTimeout(c) ==
    /\ stage[c] = "waits"
    /\ c \in Range(queue["intercept"])
    /\ left[c] = 0
    /\ StopWaiting(c, "intercept")
    /\ Passthrough(c)
    /\ UNCHANGED <<left, look, activity>>

(* blocked_slot's deadline: the host is refused. *)
BlockedTimeout(c) ==
    /\ stage[c] = "waits"
    /\ c \in Range(queue["blocked"])
    /\ left[c] = 0
    /\ StopWaiting(c, "blocked")
    /\ stage' = [stage EXCEPT ![c] = "new"]
    /\ UNCHANGED <<slot, free, left, look, activity>>

(* blocked_slot's retry timer. *)
LookAgain(c) ==
    /\ look[c]
    /\ look' = [look EXCEPT ![c] = FALSE]
    /\ AskAnother(c)
    /\ UNCHANGED <<stage, slot, free, queue, left>>

(* A hello, a handshake or a tunnel ends without more: the client closes,  *)
(* fails or takes too long, no leaf can be issued, or a client that offered*)
(* no HTTP is closed.                                                      *)
GivesUp(c) ==
    /\ stage[c] \in {"hello", "handshake", "tunnel"}
    /\ End(c)

(* The client of a CONNECT that waits for a blocked-connection slot goes   *)
(* away, and hyper drops connect's future.  A host that waits in plan has  *)
(* its own task, which does not notice: the two are not told apart.        *)
HangsUp(c) ==
    /\ stage[c] = "waits"
    /\ c \in Range(queue["blocked"])
    /\ StopWaiting(c, "blocked")
    /\ stage' = [stage EXCEPT ![c] = "new"]
    /\ left' = [left EXCEPT ![c] = 0]
    /\ look' = [look EXCEPT ![c] = FALSE]
    /\ UNCHANGED <<slot, free, activity>>

(* plan, when no leaf can be issued for a host that has its permit: the    *)
(* permit is dropped, and the host is tunnelled.                           *)
NoLeaf(c) ==
    /\ stage[c] = "handshake"
    /\ slot[c] = "intercept"
    /\ Release(c, "uncertified")

(* The TLS handshake completed: add_intercepted or add_blocked. *)
Handshaken(c) ==
    /\ stage[c] = "handshake"
    /\ stage' = [stage EXCEPT ![c] = "open"]
    /\ UNCHANGED <<slot, free, queue, left, look, asked, activity>>

-----------------------------------------------------------------------------
(* Open connections: requests, and idle::serve *)

Unchanged == UNCHANGED <<stage, slot, free, queue, left, look, asked>>

(* A client that was told to go away may have sent requests before it      *)
(* knew: at most MaxLate of them.                                          *)
MaySend(c) ==
    /\ stage[c] = "open"
    /\ activity[c].in_flight = 0
    /\ activity[c].closing => activity[c].late < MaxLate

Counted(a) == [a EXCEPT !.late = IF a.closing THEN @ + 1 ELSE 0]

(* Activity::start, for a request on an intercepted connection. *)
RequestStarts(c) ==
    /\ MaySend(c)
    /\ slot[c] = "intercept"
    /\ activity' = [activity EXCEPT ![c] =
                        [Counted(@) EXCEPT !.in_flight = 1, !.idle = 0]]
    /\ Unchanged

(* The request of an intercepted connection asks for it to be closed, for  *)
(* its host is passed through from now on (request.rs, handle).            *)
RequestCloses(c) ==
    /\ stage[c] = "open"
    /\ activity[c].in_flight = 1
    /\ ~activity[c].close_requested
    /\ activity' = [activity EXCEPT ![c] = Closed(@)]
    /\ Unchanged

(* InFlight::drop, once the response body was sent or dropped. *)
RequestEnds(c) ==
    /\ stage[c] = "open"
    /\ activity[c].in_flight = 1
    /\ activity' = [activity EXCEPT ![c].in_flight = 0, ![c].idle = 0]
    /\ Unchanged

(* sink.rs: a request on a blocked connection is answered in one step; one *)
(* that finds another list loaded is refused, and closes the connection.   *)
BlockedRequest(c) ==
    /\ MaySend(c)
    /\ slot[c] = "blocked"
    /\ LET a == [Counted(activity[c]) EXCEPT !.idle = 0]
       IN  \E lists_changed \in BOOLEAN :
            activity' = [activity EXCEPT ![c] = IF lists_changed THEN Closed(a) ELSE a]
    /\ Unchanged

(* Activity::grace. *)
grace(a) == IF a.reclaim THEN RECLAIM_GRACE ELSE CLOSE_GRACE

(* serve: the shutdown begins. *)
Shutdown(a) == [a EXCEPT !.closing = TRUE, !.drop_in = grace(a)]

\* Mutant: a reclaim that comes after an idle shutdown does not hasten it
NotifiedIgnored(c) ==
    /\ activity[c].notified
    /\ LET a == [activity[c] EXCEPT !.notified = FALSE]
       IN  activity' = [activity EXCEPT ![c] = IF a.closing THEN a ELSE Shutdown(a)]
    /\ Unchanged

(* serve: close was notified.  The loop's next pass begins the shutdown; a *)
(* reclaim that arrives after an idle shutdown started hastens the drop.   *)
Notified(c) ==
    /\ activity[c].notified
    /\ LET a == [activity[c] EXCEPT !.notified = FALSE]
       IN  activity' = [activity EXCEPT ![c] =
                IF a.closing
                THEN [a EXCEPT !.drop_in = IF grace(a) < @ THEN grace(a) ELSE @]
                ELSE Shutdown(a)]
    /\ Unchanged

IdleDue(c) ==
    /\ stage[c] = "open"
    /\ ~activity[c].closing
    /\ activity[c].in_flight = 0
    /\ activity[c].idle = idle_timeout

(* serve: idle for the timeout. *)
IdleShutdown(c) ==
    /\ IdleDue(c)
    /\ activity' = [activity EXCEPT ![c] = Shutdown(@)]
    /\ Unchanged

DropDue(c) == activity[c].closing /\ activity[c].drop_in = 0

\* Mutant: a shutdown that took too long is never cut short
PutOffAlways(c) ==
    /\ DropDue(c)
    /\ activity' = [activity EXCEPT ![c].drop_in = grace(activity[c]),
                                    ![c].extended = TRUE]
    /\ Unchanged

(* serve: the shutdown took too long, but a request is in flight. *)
PutOff(c) ==
    /\ DropDue(c)
    /\ activity[c].in_flight > 0
    /\ activity' = [activity EXCEPT ![c].drop_in = grace(activity[c]),
                                    ![c].extended = TRUE]
    /\ Unchanged

\* Mutant: the client's connection is dropped but its permit is not
DropKeepsSlot(c) ==
    /\ DropDue(c)
    /\ activity[c].in_flight = 0
    /\ stage' = [stage EXCEPT ![c] = "new"]
    /\ slot' = [slot EXCEPT ![c] = none]
    /\ activity' = [activity EXCEPT ![c] = NewActivity]
    /\ asked' = [x \in Conns |-> IF asked[x] = c THEN none ELSE asked[x]]
    /\ UNCHANGED <<free, queue, left, look>>

(* serve: the shutdown took too long; the connection is dropped. *)
Drop(c) ==
    /\ DropDue(c)
    /\ activity[c].in_flight = 0
    /\ End(c)

(* serve: the connection ended by itself, or its client went away. *)
ConnEnds(c) ==
    /\ stage[c] = "open"
    /\ End(c)

(* The clock.  Nothing that is due is left for later. *)
Urgent ==
    \E c \in Conns :
        \/ look[c]
        \/ stage[c] = "waits" /\ left[c] = 0
        \/ activity[c].notified
        \/ IdleDue(c)
        \/ DropDue(c)

Older(c) ==
    LET a == activity[c]
    IN  [a EXCEPT !.idle = IF /\ stage[c] = "open" /\ a.in_flight = 0
                              /\ ~a.close_requested /\ @ < idle_timeout
                           THEN @ + 1 ELSE @,
                  !.drop_in = IF a.closing THEN @ - 1 ELSE @]

Tick ==
    /\ ~Urgent
    /\ activity' = [c \in Conns |-> Older(c)]
    /\ left' = [c \in Conns |-> IF stage[c] = "waits" THEN left[c] - 1 ELSE 0]
    /\ look' = [c \in Conns |-> c \in Range(queue["blocked"]) /\ left[c] > 1]
    /\ UNCHANGED <<stage, slot, free, queue, asked>>

-----------------------------------------------------------------------------
(* The runtime: timers and notifications that are due.                     *)
Due(c) ==
    \/ InterceptTimeout(c)
    \/ BlockedTimeout(c)
    \/ LookAgain(c)
    \/ Notified(c)
    \/ IdleShutdown(c)
    \/ PutOff(c)
    \/ Drop(c)

(* The clients, and what the lists and the policy say of their hosts.      *)
Client(c) ==
    \/ ConnectBlocked(c)
    \/ ConnectPassthrough(c)
    \/ ConnectInspect(c)
    \/ PlanTunnel(c)
    \/ PlanSink(c)
    \/ PlanIntercept(c)
    \/ GivesUp(c)
    \/ HangsUp(c)
    \/ NoLeaf(c)
    \/ Handshaken(c)
    \/ RequestStarts(c)
    \/ RequestCloses(c)
    \/ BlockedRequest(c)
    \/ ConnEnds(c)

Next ==
    \/ \E c \in Conns : Due(c) \/ Client(c) \/ RequestEnds(c)
    \/ Tick

(* Time passes (however much the clients do in between, hence strong       *)
(* fairness) and timers fire.  Nothing is assumed of the clients, nor that *)
(* a response ends: a body that an upstream trickles, or that a client     *)
(* does not read, has no deadline.                                         *)
Fairness ==
    /\ SF_vars(Tick)
    /\ \A c \in Conns : WF_vars(Due(c))

Spec == Init /\ [][Next]_vars

FairSpec == Spec /\ Fairness

-----------------------------------------------------------------------------
(* Properties *)

Activities ==
    [in_flight : 0..1, idle : 0..idle_timeout, close_requested : BOOLEAN,
     reclaim : BOOLEAN, notified : BOOLEAN, closing : BOOLEAN,
     drop_in : 0..CLOSE_GRACE, extended : BOOLEAN, late : 0..MaxLate]

(* Only an open connection has an Activity that says anything, and only a  *)
(* waiting one has a place in a queue, a timer or a connection it asked.   *)
TypeOK ==
    /\ stage \in [Conns -> {"new", "waits", "hello", "handshake", "open", "tunnel",
                          "uncertified"}]
    /\ slot \in [Conns -> Kinds \cup {none}]
    /\ free \in [Kinds -> Nat]
    /\ \A c \in Conns :
        /\ activity[c] \in Activities
        /\ stage[c] # "open" => activity[c] = NewActivity
        /\ (\E k \in Kinds : c \in Range(queue[k])) <=> stage[c] = "waits"
        /\ stage[c] # "waits" => asked[c] = none /\ left[c] = 0 /\ ~look[c]

(* No path of CONNECT, of a handshake, of idle::serve or of a timeout      *)
(* leaks a permit or returns one twice, and no permit is free while a host *)
(* waits for it.  "It is never picked twice" (reclaim_longest_idle): two   *)
(* hosts that wait never count on the same connection to close, so each of *)
(* them has a slot coming.                                                 *)
SlotsAccounted ==
    /\ TypeOK
    /\ \A k \in Kinds :
        /\ free[k] + Cardinality({c \in Conns : slot[c] = k}) = max_permits(k)
        /\ queue[k] # <<>> => free[k] = 0
    /\ \A c, d \in Conns : asked[c] # none /\ asked[c] = asked[d] => c = d

(* Nobody is put off while there is something to close.  A host that asked *)
(* for an interception slot goes without it (and is tunnelled instead)     *)
(* only because a connection that was asked to close had a request in      *)
(* flight when its grace ended: RECLAIM_WAIT is long enough for every      *)
(* other case, whatever queue the host stands in and however the           *)
(* connection's shutdown had begun.  A blocked host is refused for want of *)
(* a slot only if the connection it asked is still closing, or no blocked  *)
(* connection has been idle for as long as BLOCKED_SLOT_RETRY without      *)
(* having been asked to close.                                             *)
PutOffOnlyIfFull ==
    [][\A c \in Conns :
        /\ InterceptTimeout(c) =>
            \E d \in Conns : activity[d].reclaim /\ activity[d].extended
        /\ BlockedTimeout(c) =>
            \/ asked[c] # none
            \/ \A d \in IdleSince("blocked") : activity[d].idle <= 1]_vars

(* A connection asked to close (for its slot, because its host is passed   *)
(* through from now on, or because the list that blocked it was replaced)  *)
(* ends, even if its client never answers: unless a request on it never    *)
(* does, for serve puts the drop off for as long as one is in flight.      *)
AskedEnds ==
    \A c \in Conns :
        []<>(activity[c].in_flight = 0) =>
            (activity[c].close_requested ~> stage[c] # "open")

=============================================================================
