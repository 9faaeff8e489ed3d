--------------------------- MODULE UpstreamPoolInv ---------------------------
(***************************************************************************)
(* What the proofs about UpstreamPool speak of: the inductive invariant    *)
(* Inv, and Kinds, which says what each step does to the request or        *)
(* connection it is about, to the pools and to the permits.                *)
(***************************************************************************)
EXTENDS UpstreamPool

-----------------------------------------------------------------------------
(* The inductive invariant. *)

\* An origin's entry; an origin that is not in the table is as good as new.
At(table, h) == IF h \in DOMAIN table THEN table[h] ELSE NewHost(h)

\* The request can dial no more: it has a connection it dialled, or an answer,
\* or it is over.
Dialed(r) ==
  \/ pc[r] \in {"body", "return", "done"}
  \/ pc[r] = "send" /\ ~task[r].pooled

Waiting == {"h1_wait", "dial_wait", "permit_wait", "connect", "h2_connect"}

Holding == {"send", "body", "return"}

Holds(r, c) == pc[r] \in Holding /\ task[r].using = c

Table(T) == DOMAIN T \subseteq Hosts /\ \A h \in DOMAIN T : T[h] \in HostType

\* TypeOK without the limits of the semaphores.
Types ==
  /\ target \in UNION {[made -> Hosts] : made \in SUBSET Requests}
  /\ resets \in 0..MaxResets /\ resets_seen \in 0..resets
  /\ Table(hosts)
  /\ dialing \in [Hosts -> Opt(Requests)]
  /\ global \subseteq Requests
  /\ slots \subseteq Requests
  /\ conn \in [Requests -> Protocols \union {"none"}]
  /\ worn \subseteq Requests
  /\ pc \in [Requests -> Where]
  /\ task \in [Requests -> TaskType]
  /\ sent \in [Requests -> Nat]
  /\ pooled_at \in [Requests -> Opt(0..MaxResets)]

\* Where a request is, what it holds and what is known of it.  A connection is
\* open only if its request can dial no more, and only such ones are held.
RequestAt(r) ==
  /\ pc[r] = "new" => task[r] = NewTask(r)
  /\ pc[r] # "new" => r \in DOMAIN target
  /\ pc[r] \in Waiting => target[r] \in DOMAIN hosts
  /\ pc[r] \in Holding => task[r].using \in Requests /\ Dialed(task[r].using)
  /\ Open(r) => Dialed(r)

RequestsInv == \A r \in Requests : RequestAt(r)

\* Before a response, a request has not been sent, or once and may go out again
\* on a new connection only, which it does not get from the pool.
Unsent(r, t, n) ==
  \/ n = 0 /\ (t.replay => r \in Replayables)
  \/ n = 1 /\ r \in Replayables /\ t.fresh_only /\ ~t.replay

SentAt(r) ==
  /\ sent[r] <= IF r \in Replayables THEN 2 ELSE 1
  /\ pc[r] \in Waiting \union {"new", "send"} => Unsent(r, task[r], sent[r])
  /\ pc[r] = "send" /\ task[r].pooled => ~task[r].fresh_only

SentInv == \A r \in Requests : SentAt(r)

\* What is pooled was dialled by a request that dials no more; what is shared is
\* not HTTP/1.1.
PoolsDialed(table) ==
  \A h \in Hosts :
    /\ At(table, h).h2 # None =>
         Dialed(At(table, h).h2) /\ conn[At(table, h).h2] # "h1"
    /\ \A i \in DOMAIN At(table, h).idle : Dialed(At(table, h).idle[i])

\* What is pooled and open was pooled after n resets.
PoolsFresh(table, n) ==
  \A h \in Hosts :
    /\ At(table, h).h2 # None /\ Open(At(table, h).h2) =>
         pooled_at[At(table, h).h2] = n
    /\ \A i \in DOMAIN At(table, h).idle :
         Open(At(table, h).idle[i]) => pooled_at[At(table, h).idle[i]] = n

PoolsInv == PoolsDialed(hosts) /\ PoolsFresh(hosts, resets_seen)

\* An open HTTP/1.1 connection is in one place.
IdleOnce(table) ==
  \A c \in Requests : conn[c] = "h1" =>
    \A h, k \in Hosts :
      \A i \in DOMAIN At(table, h).idle, j \in DOMAIN At(table, k).idle :
        At(table, h).idle[i] = c /\ At(table, k).idle[j] = c => h = k /\ i = j

HeldOnce ==
  \A c \in Requests : conn[c] = "h1" =>
    \A r, s \in Requests : Holds(r, c) /\ Holds(s, c) => r = s

NotIdle(c, table) ==
  \A h \in Hosts : \A i \in DOMAIN At(table, h).idle : At(table, h).idle[i] # c

HeldNotIdle(table) ==
  \A c \in Requests : conn[c] = "h1" =>
    \A r \in Requests : Holds(r, c) => NotIdle(c, table)

OnceInv == IdleOnce(hosts) /\ HeldOnce /\ HeldNotIdle(hosts)

\* Which permits a request and its connection hold (PermitsAccounted): who
\* connects has one, and the dial lock is with a request for its origin.
PermitAt(r) ==
  /\ Open(r) \/ pc[r] \in {"connect", "h2_connect"} => r \in global
  /\ r \in global =>
       Open(r) \/ pc[r] \in {"h1_wait", "dial_wait", "connect", "h2_connect"}
  /\ r \in slots => conn[r] = "h1" \/ pc[r] \in {"permit_wait", "connect"}
  /\ \A h \in Hosts : dialing[h] = r =>
       pc[r] \in {"connect", "h2_connect"} /\ target[r] = h

PermitsInv == \A r \in Requests : PermitAt(r)

LimitsInv ==
  /\ Cardinality(global) <= MAX_CONNECTIONS
  /\ \A h \in Hosts : Cardinality({r \in slots : target[r] = h}) <= MAX_H1_PER_HOST

\* An origin that speaks HTTP/1.1 only: who connects to it and what is open has
\* a slot; while its protocol is unknown nobody has one but the request with the
\* dial lock, and nobody waits for one.
H1At(r) ==
  /\ pc[r] = "dial_wait" => task[r].protocol = "unknown"
  /\ pc[r] # "h2_connect"
  /\ pc[r] = "connect" \/ conn[r] = "h1" => r \in slots
  /\ At(hosts, target[r]).protocol = "unknown" =>
       pc[r] # "h1_wait" /\ (r \in slots => dialing[target[r]] = r)

H1Inv ==
  /\ \A h \in Hosts : Offers[h] = {"h1"} =>
       At(hosts, h).protocol # "h2" /\ At(hosts, h).h2 = None
  /\ \A r \in DOMAIN target : Offers[target[r]] = {"h1"} => H1At(r)

\* An origin that speaks HTTP/1.1 only: there is a wake-up for each idle
\* connection, or for each request that waits for one.
WakeInv ==
  \A h \in Hosts : Offers[h] = {"h1"} =>
    \/ Len(At(hosts, h).idle) = 0
    \/ At(hosts, h).ready >= Len(At(hosts, h).idle)
    \/ At(hosts, h).ready >= Cardinality(Listening(h))

Inv ==
  /\ Types /\ RequestsInv /\ SentInv /\ PoolsInv /\ OnceInv
  /\ PermitsInv /\ LimitsInv /\ H1Inv /\ WakeInv

\* What is used of cardinalities, of sets of requests and of places in a list.
\* It holds (CountsHold); the lemmas assume it, so that what it rests on is in
\* scope only where it is proved.
Counts ==
  /\ Cardinality({}) = 0 /\ \A x : Cardinality({x}) = 1
  /\ \A S \in SUBSET Requests :
       /\ Cardinality(S) \in Nat
       /\ S # {} => Cardinality(S) # 0
       /\ \A T \in SUBSET S : Cardinality(T) \in Nat /\ Cardinality(T) <= Cardinality(S)
       /\ \A r \in Requests : Cardinality(S \union {r}) <= Cardinality(S) + 1
       /\ \A r \in S : Cardinality(S \ {r}) = Cardinality(S) - 1
  /\ \A m \in Nat : \A G \in SUBSET (1..m) :
       /\ Cardinality(G) \in Nat /\ Cardinality(G) <= m
       /\ \A n \in 1..Cardinality(G) : \E i \in G : Cardinality({j \in G : j <= i}) = n
       /\ G # {} => \E i \in G : \A j \in G : j <= i

-----------------------------------------------------------------------------
(* Parts of a pool, of the table and of the locals, and changes of them. *)

\* The members of q are members of p, each in a place of its own.
Sub(q, p) ==
  /\ Len(q) <= Len(p)
  /\ \E f \in [DOMAIN q -> DOMAIN p] :
       /\ \A i, j \in DOMAIN q : f[i] = f[j] => i = j
       /\ \A i \in DOMAIN q : q[i] = p[f[i]]

\* What is usable in an idle list, by place.
Good(idle) == {i \in DOMAIN idle : Usable(idle[i])}

\* A step that pools nothing: what is left of an origin's pool.
Narrows(new, old) ==
  /\ new \in HostType
  /\ Sub(new.idle, old.idle)
  /\ new.h2 = None \/ new.h2 = old.h2

\* And its protocol and its wake-ups are as before.
Keeps(new, old) ==
  /\ Narrows(new, old)
  /\ new.protocol = old.protocol
  /\ new.ready = old.ready

\* An entry with another pool.
WithPool(e, c, q) == [e EXCEPT !.h2 = c, !.idle = q]

WithDial(e, n, d) == [e EXCEPT !.dials = n, !.last_dial = d]

WithReady(e, n) == [e EXCEPT !.ready = n]

WithActive(e, S) == [e EXCEPT !.active = S]

WithProtocol(e, p) == [e EXCEPT !.protocol = p]

WithH2(e, c) == [e EXCEPT !.h2 = c]

WithIdle(e, q) == [e EXCEPT !.idle = q]

\* Every origin's pool is a part of what it was.
NarrowAll(U, T) == \A h \in Hosts : Narrows(At(U, h), At(T, h))

KeepAll(U, T) == \A h \in Hosts : Keeps(At(U, h), At(T, h))

\* One entry of a table is replaced.
Put(T, h, e) == [T EXCEPT ![h] = e]

OnlyAt(U, T, h) == \A k \in Hosts : k # h => At(U, k) = At(T, k)

\* c was in the idle list of e, and u has what was before it.
Popped(u, e, c) ==
  \E n \in DOMAIN e.idle :
    /\ e.idle[n] = c /\ Len(u.idle) < Len(e.idle)
    /\ DOMAIN u.idle = 1..(n - 1) /\ \A i \in 1..(n - 1) : u.idle[i] = e.idle[i]

\* One search in the pool of h: what is left, and what was taken.
Took(t, h, U, T, c) ==
  /\ Table(U) /\ KeepAll(U, T) /\ DOMAIN U = DOMAIN T \union {h}
  /\ OnlyAt(U, T, h)
  /\ c = None => t.fresh_only \/ At(U, h).idle = <<>>
  /\ c # None =>
       /\ ~t.fresh_only /\ c \in Requests /\ Usable(c)
       /\ At(T, h).h2 = c \/ Popped(At(U, h), At(T, h), c)

\* The table after a search.
LeftBy(t, T, h) == [WithEntry(T, h) EXCEPT ![h] = Searched(t, WithEntry(T, h)[h])]

\* A step that pools nothing: what is pooled was pooled, and after as many
\* resets as the pool has seen.
Shrinks ==
  /\ Table(hosts') /\ NarrowAll(hosts', hosts)
  /\ resets_seen' \in 0..resets /\ PoolsFresh(hosts', resets_seen')

\* No origin is forgotten or changes its protocol, and none but h its wake-ups.
StaysBut(h) ==
  /\ DOMAIN hosts \subseteq DOMAIN hosts'
  /\ \A k \in Hosts : At(hosts', k).protocol = At(hosts, k).protocol
  /\ \A k \in Hosts : k # h => Keeps(At(hosts', k), At(hosts, k))

Kept ==
  /\ Shrinks /\ KeepAll(hosts', hosts) /\ DOMAIN hosts \subseteq DOMAIN hosts'

\* The table an operation works on: as it is, or as hosts() returns it.
Based(T) ==
  \/ T = hosts /\ resets_seen' = resets_seen
  \/ T = SeenHosts /\ resets_seen' = resets

\* checkout returned: [NewTask(r) EXCEPT ...] of Uses.
UseTask(r, t, c, p) ==
  [NewTask(r) EXCEPT !.fresh_only = t.fresh_only, !.replay = t.replay,
                     !.using = c, !.pooled = p]

WithUse(t, a, b, c, p) ==
  [t EXCEPT !.fresh_only = a, !.replay = b, !.using = c, !.pooled = p]

WithBefore(t, p, b) == [t EXCEPT !.protocol = p, !.before = b]

WithH1(t) == [t EXCEPT !.protocol = "h1"]

NoReplay(t) == [t EXCEPT !.replay = FALSE]

WithBegun(t, n) == [t EXCEPT !.begun = n]

WithDialed(t, n) == [t EXCEPT !.dialed = n]

\* The other requests stay where they are.
Moves(r) ==
  /\ pc' \in [Requests -> Where] /\ task' \in [Requests -> TaskType]
  /\ \A s \in Requests : s # r => pc'[s] = pc[s] /\ task'[s] = task[s]

\* r is at w with the locals v.
Goes(r, w, v) == Moves(r) /\ pc'[r] = w /\ task'[r] = v

\* Locals that ask for the same connections and replays.
Like(v, t) == v \in TaskType /\ v.fresh_only = t.fresh_only /\ v.replay = t.replay

\* A request that waits: its locals are t, with the protocol it read.
WaitTask(v, t, p) == Like(v, t) /\ v.protocol = p

-----------------------------------------------------------------------------
(* The kinds of steps: what an action does to the request or connection it is *)
(* about, to the pools and to the permits.                                    *)

\* checkout finds a connection: one that is open, was pooled after the last
\* reset and is in no pool any more if nobody else may use it.
Finds(r, t) ==
  \E c \in Requests :
    /\ Goes(r, "send", UseTask(r, t, c, TRUE))
    /\ ~t.fresh_only /\ Usable(c) /\ Dialed(c) /\ pooled_at[c] = resets
    /\ conn[c] = "h1" => NotIdle(c, hosts') /\ ~NotIdle(c, hosts)
    /\ At(hosts, target[r]).h2 = None =>
         Len(At(hosts', target[r]).idle) < Len(At(hosts, target[r]).idle)

\* Or it waits, with nothing idle that it would have taken.
Parks(r, t) ==
  \E v :
    /\ Goes(r, IF At(hosts, target[r]).protocol = "h1" THEN "h1_wait" ELSE "dial_wait", v)
    /\ WaitTask(v, t, At(hosts, target[r]).protocol)
    /\ t.fresh_only \/ At(hosts', target[r]).idle = <<>>

\* A turn of checkout's loop for r, whose locals are t; P has the permits it
\* goes on with, w wake-ups are used up.
Turn(r, t, P, w) ==
  /\ r \in DOMAIN target /\ t \in TaskType /\ ~Dialed(r)
  /\ pc[r] \notin {"connect", "h2_connect"} /\ r \notin slots
  /\ P = global \/ (P = global \union {r} /\ PermitLeft)
  /\ \/ w = 1 /\ r \in Listening(target[r]) /\ ~t.fresh_only
     \/ w = 0 /\ pc[r] # "h1_wait"
  /\ sent' \in [Requests -> Nat] /\ Unsent(r, t, sent'[r])
  /\ \A s \in Requests : s # r => sent'[s] = sent[s]
  /\ target' = target /\ resets' = resets /\ dialing' = dialing /\ slots' = slots
  /\ conn' = conn /\ worn' = worn /\ pooled_at' = pooled_at

\* What a turn does to the pools.
TurnsPools(r, w) ==
  /\ Shrinks /\ StaysBut(target[r]) /\ target[r] \in DOMAIN hosts'
  /\ At(hosts', target[r]).ready = At(hosts, target[r]).ready - w

Searching(r, t, P, w) ==
  /\ Turn(r, t, P, w) /\ TurnsPools(r, w)
  /\ \/ Finds(r, t) /\ global' = P \ {r}
     \/ Parks(r, t) /\ global' = P

\* A request is over; the permits stay with its connection, if that is open.
Over(r) ==
  /\ r \in DOMAIN target /\ Goes(r, "done", NewTask(r))
  /\ sent' \in [Requests -> Nat] /\ sent'[r] <= IF r \in Replayables THEN 2 ELSE 1
  /\ \A s \in Requests : s # r => sent'[s] = sent[s]
  /\ target' = target /\ resets' = resets /\ conn' = conn /\ worn' = worn
  /\ dialing' = Unlocked(r)
  /\ global' = (IF Open(r) THEN global ELSE global \ {r})
  /\ slots' = (IF Open(r) THEN slots ELSE slots \ {r})

\* Only a wake-up may go.
Unlistens(r) ==
  /\ Shrinks /\ StaysBut(target[r])
  /\ At(hosts', target[r]).ready =
       Least(At(hosts, target[r]).ready, Cardinality(Listening(target[r]) \ {r}) + 1)

\* give_back: as hosts() returned it, with c idle and a wake-up more.
Returns(r) ==
  LET h == target[r]
      c == task[r].using
  IN  /\ pc[r] = "return" /\ Open(c) /\ c \in Requests
      /\ Table(hosts') /\ DOMAIN hosts \subseteq DOMAIN hosts' /\ resets_seen' = resets
      /\ OnlyAt(hosts', SeenHosts, h)
      /\ At(hosts', h).idle = Append(At(SeenHosts, h).idle, c)
      /\ At(hosts', h).h2 = At(SeenHosts, h).h2
      /\ At(hosts', h).protocol = At(SeenHosts, h).protocol
      /\ At(hosts', h).ready = Least(At(SeenHosts, h).ready + 1, Cardinality(Listening(h)) + 1)
      /\ pooled_at' = [pooled_at EXCEPT ![c] = resets]

\* What most steps of one request leave alone.
Alone == target' = target /\ resets' = resets /\ worn' = worn

TakesSlot(r) ==
  /\ Alone /\ UNCHANGED <<dialing, global, conn, sent, pooled_at>>
  /\ pc[r] = "h1_wait" /\ SlotLeft(target[r]) /\ slots' = slots \union {r}
  /\ \E v : /\ Goes(r, IF r \in global THEN "connect" ELSE "permit_wait", v)
            /\ Like(v, task[r])
  /\ Unlistens(r)

Dials(r) ==
  /\ Alone /\ UNCHANGED <<conn, sent, pooled_at>>
  /\ pc[r] = "dial_wait" /\ dialing[target[r]] = None /\ (r \in global \/ PermitLeft)
  /\ task[r].protocol = "unknown" => At(hosts, target[r]).protocol # "h1"
  /\ dialing' = [dialing EXCEPT ![target[r]] = r]
  /\ global' = global \union {r}
  /\ slots' = (IF SlotLeft(target[r]) THEN slots \union {r} ELSE slots)
  /\ \E v : Goes(r, "connect", v) /\ Like(v, task[r])
  /\ Kept

Awaits(r) ==
  /\ Alone /\ UNCHANGED <<dialing, global, slots, conn, sent, pooled_at>>
  /\ pc[r] = "dial_wait" /\ r \notin global
  /\ Goes(r, "permit_wait", task[r])
  /\ Kept

GetsPermit(r) ==
  /\ Alone /\ UNCHANGED <<dialing, slots, conn, sent, pooled_at>>
  /\ pc[r] = "permit_wait" /\ r \in slots /\ PermitLeft
  /\ global' = global \union {r}
  /\ \E v : Goes(r, "connect", v) /\ Like(v, task[r])
  /\ Kept

Connected(r, p) ==
  /\ Alone /\ UNCHANGED <<global, slots, sent>>
  /\ conn' = [conn EXCEPT ![r] = p] /\ dialing' = Unlocked(r)
  /\ Goes(r, "send", UseTask(r, task[r], r, FALSE))
  /\ resets_seen' = resets /\ Table(hosts') /\ DOMAIN hosts \subseteq DOMAIN hosts'
  /\ OnlyAt(hosts', SeenHosts, target[r])
  /\ At(hosts', target[r]).idle = At(SeenHosts, target[r]).idle
  /\ At(hosts', target[r]).ready = At(SeenHosts, target[r]).ready
  /\ At(hosts', target[r]).protocol = p

ConnectsH1(r) ==
  /\ pc[r] = "connect" /\ "h1" \in Offers[target[r]] /\ Connected(r, "h1")
  /\ At(hosts', target[r]).h2 = At(SeenHosts, target[r]).h2
  /\ pooled_at' = pooled_at

ConnectsH2(r) ==
  /\ pc[r] = "h2_connect" /\ Connected(r, "h2")
  /\ At(hosts', target[r]).h2 = r
  /\ pooled_at' = [pooled_at EXCEPT ![r] = resets]

Negotiates(r) ==
  /\ Alone /\ UNCHANGED <<dialing, global, conn, sent, pooled_at>>
  /\ pc[r] = "connect" /\ "h2" \in Offers[target[r]]
  /\ Goes(r, "h2_connect", task[r]) /\ slots' = slots \ {r}
  /\ Kept

Responds(r) ==
  /\ Alone /\ UNCHANGED <<dialing, global, slots, conn, pooled_at>>
  /\ pc[r] = "send" /\ Goes(r, "body", task[r])
  /\ sent' = [sent EXCEPT ![r] = @ + 1]
  /\ Kept

BodyEnds(r) ==
  /\ Alone /\ UNCHANGED <<dialing, global, slots, conn, sent, pooled_at>>
  /\ pc[r] = "body" /\ Goes(r, "return", task[r])
  /\ Kept

ConnEnds(c) ==
  /\ Open(c)
  /\ UNCHANGED <<target, resets, dialing, pc, task, sent>>
  /\ conn' = [conn EXCEPT ![c] = "none"]
  /\ global' = global \ {c} /\ slots' = slots \ {c} /\ worn' = worn \ {c}
  /\ pooled_at' = [pooled_at EXCEPT ![c] = None]
  /\ Kept

\* No request or connection moves.
Quiet ==
  /\ UNCHANGED <<target, dialing, global, slots, conn, pc, task, sent, pooled_at>>
  /\ worn' \subseteq Requests /\ resets' \in resets..MaxResets

\* Only an origin nobody uses or waits for is forgotten.
Reaps ==
  /\ Quiet /\ Shrinks
  /\ DOMAIN hosts' \subseteq DOMAIN hosts
  /\ \A k \in DOMAIN hosts' : Keeps(At(hosts', k), At(hosts, k))
  /\ \A k \in DOMAIN hosts : k \notin DOMAIN hosts' =>
       /\ \A s \in slots : target[s] # k
       /\ \A s \in DOMAIN target : target[s] = k => pc[s] \notin Waiting

\* Every step is of one of these kinds.
Kinds ==
  \/ \E r \in Requests :
       \/ \E t, P, w : Searching(r, t, P, w)
       \/ Over(r) /\ Kept /\ pooled_at' = pooled_at
       \/ Over(r) /\ Unlistens(r) /\ pooled_at' = pooled_at
       \/ Over(r) /\ Returns(r)
       \/ TakesSlot(r) \/ Dials(r) \/ Awaits(r) \/ GetsPermit(r)
       \/ ConnectsH1(r) \/ Negotiates(r) \/ ConnectsH2(r)
       \/ Responds(r) \/ BodyEnds(r) \/ ConnEnds(r)
  \/ Quiet /\ Kept
  \/ Reaps

-----------------------------------------------------------------------------
(* What the kinds have in common. *)

\* The table a search starts from.
From(T, r, w) ==
  /\ Table(T) /\ NarrowAll(T, hosts) /\ PoolsFresh(T, resets) /\ DOMAIN hosts \subseteq DOMAIN T
  /\ \A k \in Hosts : At(T, k).protocol = At(hosts, k).protocol
  /\ \A k \in Hosts : k # target[r] => Keeps(At(T, k), At(hosts, k))
  /\ At(T, target[r]).ready = At(hosts, target[r]).ready - w

\* Ends of requests.
Stops(r) ==
  /\ r \in DOMAIN target /\ Ends(r) /\ UNCHANGED <<target, resets, conn, worn>>
  /\ sent' \in [Requests -> Nat] /\ sent'[r] <= IF r \in Replayables THEN 2 ELSE 1
  /\ \A s \in Requests : s # r => sent'[s] = sent[s]

WithRest(e, q, c) == [e EXCEPT !.idle = q, !.h2 = c]

\* A step of r, or of no request, in which no other request moves.
By(r) ==
  /\ r \in Requests /\ Moves(r) /\ target' = target
  /\ \A s \in Requests : s # r => conn'[s] = conn[s]
  /\ conn'[r] = conn[r] \/ (conn'[r] = "none" /\ pc' = pc) \/ ~Dialed(r)
  /\ ~Dialed(r) \/ Dialed(r)'

H1Only(h) == h \in Hosts /\ Offers[h] = {"h1"}

\* Such an origin's entry after a step.
H1Tables ==
  \A h \in Hosts : Offers[h] = {"h1"} =>
    /\ At(hosts', h).protocol # "h2" /\ At(hosts', h).h2 = None
    /\ At(hosts', h).protocol = "unknown" => At(hosts, h).protocol = "unknown"

\* With q connections idle and n wake-ups, no wake-up is missing for m that wait.
Woken(q, n, m) == q = 0 \/ n >= q \/ n >= m

WokenAt(h) == Woken(Len(At(hosts, h).idle), At(hosts, h).ready, Cardinality(Listening(h)))

=============================================================================
