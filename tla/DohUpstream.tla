---------------------------- MODULE DohUpstream ----------------------------
(***************************************************************************)
(* One DNS-over-HTTPS upstream (dns/src/doh.rs, impl Upstream): queries    *)
(* share one HTTP/2 connection, mark the upstream up or down, and are      *)
(* interrupted by reset_connections, which any thread may call.            *)
(*                                                                         *)
(* The queries are tasks of a current-thread runtime: between two awaits a *)
(* query runs alone among the queries (variable running), but a reset on   *)
(* another thread can fall between any two of its atomic operations and    *)
(* lock sections, so each of these is a step of its own.  Waiting states   *)
(* are the awaits.  What the network does (an answer, a broken connection, *)
(* nothing until the deadline) is chosen freely.                           *)
(***************************************************************************)
EXTENDS Naturals

CONSTANTS
  Queries,      \* calls of Upstream::query
  Resetters,    \* threads calling reset_connections
  DOWN_FOR,
  NoConn, NoTask,
  MaxResets,    \* bound of an instance: calls of reset_connections
  MaxClock      \* bound of an instance: seconds

ASSUME DohAssumption ==
  /\ DOWN_FOR \in Nat /\ MaxResets \in Nat /\ MaxClock \in Nat
  /\ NoTask \notin Queries

VARIABLES
  now,          \* the resolver's clock, whole seconds
  epoch,        \* AtomicU64: reset_connections calls
  down,         \* down_until: AtomicU64, 0 when up; with whose mark it is
  slot,         \* Mutex<Slot>: the shared connection, its generation, whether
                \* it was idle or asleep for too long, and whether it is closed
  connecting,   \* tokio Mutex: the query that holds it
  running,      \* the query the runtime thread is executing
  pc, task,     \* per query: its position and its locals
  waiting,      \* queries whose Notified is registered
  notified,     \* queries whose Notified fired
  raced,        \* history: a reset began at one of the positions in Exposed
  reset_pc      \* per resetter: its position in reset_connections

wake == <<waiting, notified>>
vars == <<now, epoch, down, slot, connecting, running, pc, task, waiting,
          notified, raced, reset_pc>>

\* Positions of a query: the awaits, and the states in which it runs.
Waiting == {"new", "warm", "lock", "connecting", "cold", "done"}
Active == {"warm_register", "warm_epoch", "warm_touch", "warm_retry",
           "warm_timeout", "cold_register", "cold_epoch", "open",
           "connect_epoch", "check", "install", "cold_touch", "mark_up",
           "mark_down", "swap", "recheck", "undo"}

\* A connection: who opened it in which attempt, and the count at that time.
Conns == [owner : Queries, attempt : Nat, path : Nat]

Slots == [sender : Conns \cup {NoConn}, generation : Nat, stale : BOOLEAN,
          closed : BOOLEAN]

\* conn and generation: the connection in use.  epoch: the count unless_reset
\* read.  dial: the count connected_sender read.  until: the mark to set.
\* attempts and began are history: attempts made, and the count when the last
\* one took its connection or, without one, read the count.
Tasks == [conn : Conns \cup {NoConn}, generation : Nat, epoch : Nat,
          dial : Nat, stop_on_reset : BOOLEAN, until : Nat, attempts : Nat,
          began : Nat]

Init ==
  /\ now = 0 /\ epoch = 0
  /\ down = [until |-> 0, epoch |-> 0, began |-> 0]
  /\ slot = [sender |-> NoConn, generation |-> 0, stale |-> FALSE,
             closed |-> FALSE]
  /\ connecting = NoTask /\ running = NoTask
  /\ pc = [q \in Queries |-> "new"]
  /\ task = [q \in Queries |->
       [conn |-> NoConn, generation |-> 0, epoch |-> 0, dial |-> 0,
        stop_on_reset |-> TRUE, until |-> 0, attempts |-> 0, began |-> 0]]
  /\ waiting = {} /\ notified = {}
  /\ raced = FALSE
  /\ reset_pc = [r \in Resetters |-> "idle"]
-----------------------------------------------------------------------------
(* Control.  A query resumes when the runtime thread is free, keeps the    *)
(* thread while it runs, and gives it up when it waits or ends.            *)

Goes(q, from, to) ==
  /\ pc[q] = from
  /\ running = IF from \in Waiting THEN NoTask ELSE q
  /\ pc' = [pc EXCEPT ![q] = to]
  /\ running' = IF to \in Waiting THEN NoTask ELSE q
  /\ UNCHANGED <<now, epoch, raced, reset_pc>>

\* The attempt ends: its Notified and its hold on the connecting lock go.
AttemptEnds(q) ==
  /\ waiting' = waiting \ {q}
  /\ notified' = notified \ {q}
  /\ connecting' = IF connecting = q THEN NoTask ELSE connecting

Registers(q) == waiting' = waiting \cup {q} /\ UNCHANGED notified
-----------------------------------------------------------------------------
(* The slot. *)

NoSlot == [sender |-> NoConn, generation |-> slot.generation,
           stale |-> FALSE, closed |-> FALSE]

Usable == slot.sender # NoConn /\ ~slot.closed /\ ~slot.stale

\* open_sender finds nothing: a connection too long idle or asleep is dropped,
\* a closed one is passed over.
NoneOpen ==
  /\ ~Usable
  /\ slot' = IF slot.closed THEN slot ELSE NoSlot

\* touch and discard act only on the connection they were given.
Mine(q) == slot.generation = task[q].generation

touch(q) == slot' = IF Mine(q) THEN [slot EXCEPT !.stale = FALSE] ELSE slot

discard(q) == slot' = IF Mine(q) THEN NoSlot ELSE slot

\* The last lines of connected_sender.
share(conn) ==
  slot' = [sender |-> conn, generation |-> slot.generation + 1,
           stale |-> FALSE, closed |-> FALSE]
-----------------------------------------------------------------------------
(* Upstream::query, first on the connection that is open already. *)

StartWarm(q) ==
  /\ Goes(q, "new", "warm_register")
  /\ Usable
  /\ task' = [task EXCEPT ![q].conn = slot.sender,
                          ![q].generation = slot.generation,
                          ![q].attempts = @ + 1,
                          ![q].began = epoch]
  /\ UNCHANGED <<down, slot, connecting, wake>>

\* Without an open connection the query goes straight to the cold loop.
StartCold(q) ==
  /\ Goes(q, "new", "cold_register")
  /\ NoneOpen
  /\ UNCHANGED <<down, connecting, task, wake>>

\* unless_reset registers for the notification, then reads the count.
WarmRegister(q) ==
  /\ Goes(q, "warm_register", "warm_epoch")
  /\ Registers(q)
  /\ UNCHANGED <<down, slot, connecting, task>>

WarmEpoch(q) ==
  /\ Goes(q, "warm_epoch", "warm")
  /\ task' = [task EXCEPT ![q].epoch = epoch]
  /\ UNCHANGED <<down, slot, connecting, wake>>

\* The attempt ends: it is answered, breaks, or reaches its deadline.
Ends(q, from, to) ==
  /\ Goes(q, from, to)
  /\ AttemptEnds(q)
  /\ UNCHANGED <<down, slot, task>>

WarmAnswered(q) == Ends(q, "warm", "warm_touch")
WarmBreaks(q) == Ends(q, "warm", "warm_retry")
WarmTimesOut(q) == Ends(q, "warm", "warm_timeout")

Touch(q) ==
  /\ \E from \in {"warm_touch", "cold_touch"} : Goes(q, from, "mark_up")
  /\ touch(q)
  /\ UNCHANGED <<down, connecting, task, wake>>

\* A broken connection is retried on a new one; a silent one is not.
WarmDiscard(q) ==
  /\ \/ Goes(q, "warm_retry", "cold_register")
     \/ Goes(q, "warm_timeout", "mark_down")
  /\ discard(q)
  /\ UNCHANGED <<down, connecting, task, wake>>

\* A reset stops the attempt, once: the next one runs to its end.
StoppedByReset(q) ==
  /\ q \in notified /\ task[q].stop_on_reset
  /\ \E from \in {"warm", "lock", "connecting", "cold"} :
       Goes(q, from, "cold_register")
  /\ AttemptEnds(q)
  /\ task' = [task EXCEPT ![q].stop_on_reset = FALSE]
  /\ UNCHANGED <<down, slot>>
-----------------------------------------------------------------------------
(* The cold loop: connected_sender, then the exchange. *)

ColdRegister(q) ==
  /\ Goes(q, "cold_register", "cold_epoch")
  /\ Registers(q)
  /\ UNCHANGED <<down, slot, connecting, task>>

\* The count is read and the attempt is polled: it takes the lock or waits.
ColdEpoch(q) ==
  /\ IF connecting = NoTask
     THEN connecting' = q /\ Goes(q, "cold_epoch", "open")
     ELSE UNCHANGED connecting /\ Goes(q, "cold_epoch", "lock")
  /\ task' = [task EXCEPT ![q].epoch = epoch, ![q].attempts = @ + 1,
                          ![q].began = epoch]
  /\ UNCHANGED <<down, slot, wake>>

Lock(q) ==
  /\ Goes(q, "lock", "open")
  /\ connecting = NoTask /\ connecting' = q
  /\ UNCHANGED <<down, slot, task, wake>>

\* Another query may have connected meanwhile.
OpenShared(q) ==
  /\ Goes(q, "open", "cold")
  /\ Usable
  /\ task' = [task EXCEPT ![q].conn = slot.sender,
                          ![q].generation = slot.generation]
  /\ connecting' = NoTask
  /\ UNCHANGED <<down, slot, wake>>

OpenNone(q) ==
  /\ Goes(q, "open", "connect_epoch")
  /\ NoneOpen
  /\ UNCHANGED <<down, connecting, task, wake>>

ConnectEpoch(q) ==
  /\ Goes(q, "connect_epoch", "connecting")
  /\ task' = [task EXCEPT ![q].dial = epoch]
  /\ UNCHANGED <<down, slot, connecting, wake>>

Connected(q) ==
  /\ Goes(q, "connecting", "check")
  /\ UNCHANGED <<down, slot, connecting, task, wake>>

\* Mutant: the count is not checked after the connect.
CheckEpochSkipped(q) ==
  /\ Goes(q, "check", "install")
  /\ UNCHANGED <<down, slot, connecting, task, wake>>

\* A connection opened before a reset is not shared: the attempt fails.
CheckEpoch(q) ==
  \/ /\ epoch = task[q].dial
     /\ Goes(q, "check", "install")
     /\ UNCHANGED <<down, slot, connecting, task, wake>>
  \/ /\ epoch # task[q].dial
     /\ Ends(q, "check", "mark_down")

Install(q) ==
  LET conn == [owner |-> q, attempt |-> task[q].attempts,
               path |-> task[q].dial]
  IN  /\ Goes(q, "install", "cold")
      /\ share(conn)
      /\ task' = [task EXCEPT ![q].conn = conn,
                              ![q].generation = slot.generation + 1]
      /\ connecting' = NoTask
      /\ UNCHANGED <<down, wake>>

ColdAnswered(q) == Ends(q, "cold", "cold_touch")

\* The connect fails or the exchange breaks.
ColdBreaks(q) ==
  \E from \in {"connecting", "cold"} : Ends(q, from, "mark_down")

\* Mutant: the deadline is on the exchange alone.
ExchangeTimesOut(q) == Ends(q, "cold", "mark_down")

\* The deadline covers the wait for the lock, the connect and the exchange.
ColdTimesOut(q) ==
  \E from \in {"lock", "connecting", "cold"} : Ends(q, from, "mark_down")
-----------------------------------------------------------------------------
(* mark_up and mark_down. *)

MarkUp(q) ==
  /\ Goes(q, "mark_up", "done")
  /\ down' = [down EXCEPT !.until = 0]
  /\ UNCHANGED <<slot, connecting, task, wake>>

\* Never 0, which means up.
Later == IF now + DOWN_FOR = 0 THEN 1 ELSE now + DOWN_FOR

MarkDown(q) ==
  /\ IF epoch = task[q].epoch
     THEN /\ Goes(q, "mark_down", "swap")
          /\ task' = [task EXCEPT ![q].until = Later]
     ELSE Goes(q, "mark_down", "done") /\ UNCHANGED task
  /\ UNCHANGED <<down, slot, connecting, wake>>

Swap(q) ==
  /\ Goes(q, "swap", "recheck")
  /\ down' = [until |-> task[q].until, epoch |-> task[q].epoch,
              began |-> task[q].began]
  /\ UNCHANGED <<slot, connecting, task, wake>>

\* A reset between the check and the swap may not have seen the mark.
Recheck(q) ==
  /\ Goes(q, "recheck", IF epoch = task[q].epoch THEN "done" ELSE "undo")
  /\ UNCHANGED <<down, slot, connecting, task, wake>>

Undo(q) ==
  /\ Goes(q, "undo", "done")
  /\ down' = IF down.until = task[q].until THEN [down EXCEPT !.until = 0]
             ELSE down
  /\ UNCHANGED <<slot, connecting, task, wake>>
-----------------------------------------------------------------------------
(* reset_connections, for this upstream: four operations, in this order. *)

ResetGoes(r, from, to) ==
  /\ reset_pc[r] = from
  /\ reset_pc' = [reset_pc EXCEPT ![r] = to]
  /\ UNCHANGED <<now, connecting, running, pc, task, waiting>>

\* Positions between taking a connection, or the check that admits it, and the
\* next look at the shared state: the code cannot see a reset here.
Exposed == {"warm_register", "warm_epoch", "install"}

ResetCounts(r) ==
  /\ epoch < MaxResets
  /\ ResetGoes(r, "idle", "clear")
  /\ epoch' = epoch + 1
  /\ raced' = (raced \/ \E q \in Queries : pc[q] \in Exposed)
  /\ UNCHANGED <<down, slot, notified>>

ResetClears(r) ==
  /\ ResetGoes(r, "clear", "take")
  /\ down' = [down EXCEPT !.until = 0]
  /\ UNCHANGED <<epoch, raced, slot, notified>>

ResetTakes(r) ==
  /\ ResetGoes(r, "take", "notify")
  /\ slot' = IF slot.sender = NoConn THEN slot
             ELSE [NoSlot EXCEPT !.generation = @ + 1]
  /\ UNCHANGED <<epoch, raced, down, notified>>

ResetNotifies(r) ==
  /\ ResetGoes(r, "notify", "idle")
  /\ notified' = notified \cup waiting
  /\ UNCHANGED <<epoch, raced, down, slot>>
-----------------------------------------------------------------------------
(* The outside: time passes, the connection ages or its peer closes it. *)

Tick ==
  /\ now < MaxClock
  /\ now' = now + 1
  /\ UNCHANGED <<epoch, down, slot, connecting, running, pc, task, waiting,
                 notified, raced, reset_pc>>

Ages ==
  /\ slot.sender # NoConn
  /\ \/ ~slot.stale /\ slot' = [slot EXCEPT !.stale = TRUE]
     \/ ~slot.closed /\ slot' = [slot EXCEPT !.closed = TRUE]
  /\ UNCHANGED <<now, epoch, down, connecting, running, pc, task, waiting,
                 notified, raced, reset_pc>>

Start(q) == StartWarm(q) \/ StartCold(q)
Warm(q) ==
  \/ WarmRegister(q) \/ WarmEpoch(q) \/ WarmAnswered(q) \/ WarmBreaks(q)
  \/ WarmTimesOut(q) \/ WarmDiscard(q)
Cold(q) ==
  \/ ColdRegister(q) \/ ColdEpoch(q) \/ Lock(q) \/ OpenShared(q)
  \/ OpenNone(q) \/ ConnectEpoch(q) \/ Connected(q) \/ CheckEpoch(q)
  \/ Install(q) \/ ColdAnswered(q) \/ ColdBreaks(q) \/ ColdTimesOut(q)
Marks(q) == MarkUp(q) \/ MarkDown(q) \/ Swap(q) \/ Recheck(q) \/ Undo(q)

QueryStep(q) ==
  Start(q) \/ Warm(q) \/ StoppedByReset(q) \/ Cold(q) \/ Touch(q) \/ Marks(q)

ResetGoesOn(r) == ResetClears(r) \/ ResetTakes(r) \/ ResetNotifies(r)

Next ==
  \/ \E q \in Queries : QueryStep(q)
  \/ \E r \in Resetters : ResetCounts(r) \/ ResetGoesOn(r)
  \/ Tick
  \/ Ages

Spec == Init /\ [][Next]_vars

\* The runtime goes on with a query that runs, polls a new one, and fires the
\* deadlines; a call of reset_connections runs to its end.  Nothing obliges the
\* network to connect or to answer, nor a reset to happen.
Fairness ==
  /\ \A q \in Queries :
       /\ WF_vars(running = q /\ QueryStep(q))
       /\ SF_vars(Start(q) \/ WarmTimesOut(q) \/ ColdTimesOut(q))
  /\ \A r \in Resetters : WF_vars(ResetGoesOn(r))

FairSpec == Spec /\ Fairness
-----------------------------------------------------------------------------
(* Properties. *)

TypeOK ==
  /\ now \in Nat /\ epoch \in Nat /\ raced \in BOOLEAN
  /\ down \in [until : Nat, epoch : Nat, began : Nat]
  /\ slot \in Slots
  /\ connecting \in Queries \cup {NoTask}
  /\ running \in Queries \cup {NoTask}
  /\ pc \in [Queries -> Waiting \cup Active]
  /\ \A q \in Queries : pc[q] \in Active <=> running = q
  /\ task \in [Queries -> Tasks]
  /\ waiting \subseteq Queries /\ notified \subseteq waiting
  /\ reset_pc \in [Resetters -> {"idle", "clear", "take", "notify"}]

\* A reset has counted itself and not yet left these positions.
ResetAt(positions) == \E r \in Resetters : reset_pc[r] \in positions
MarkInDoubt ==
  ResetAt({"clear"}) \/ \E q \in Queries : pc[q] \in {"recheck", "undo"}

\* mark_down's check, swap, check and undo against reset_connections' count
\* and clear: once neither is under way, a mark was set by an attempt that
\* read the present reset count, whatever the interleaving.
NoStaleMark ==
  down.until # 0 /\ ~MarkInDoubt => down.epoch = epoch

\* The comment on Upstream::epoch (doh.rs:140-142), first half: an attempt that
\* began before the last reset does not mark the upstream down.
OldAttemptNeverMarks ==
  down.until # 0 /\ ~MarkInDoubt => down.began = epoch

\* The same comment, second half: the connection such an attempt opened is not
\* shared; after a reset the slot holds no connection from before it.
OldPathNotShared ==
  slot.sender # NoConn /\ ~ResetAt({"clear", "take"})
    => slot.sender.path = epoch

\* Both halves hold as long as no reset begins while a query stands between
\* open_sender and the epoch read of unless_reset, or between the epoch check
\* of connected_sender and the slot lock: these two windows are the only ones.
HoldsUnlessRaced ==
  raced \/ (OldAttemptNeverMarks /\ OldPathNotShared)

\* touch and discard compare generations: a query whose generation is still
\* the slot's acts on the connection it used and on no other, whatever resets,
\* drops and reconnections happened since.
GenerationIdentifies ==
  \A q \in Queries :
    slot.sender # NoConn /\ task[q].conn # NoConn
      /\ slot.generation = task[q].generation => slot.sender = task[q].conn

\* "One retry after a reset, so a query cannot be held up by resets for long":
\* a query makes at most a warm attempt and two cold ones.
AttemptsBounded ==
  \A q \in Queries : task[q].attempts <= 3

\* What resets leave true of an upstream: no mark or connection from before
\* one outside the two windows, generations that tell connections apart, and a
\* bound on the attempts they cost a query.
ResetsHold ==
  /\ TypeOK /\ NoStaleMark /\ HoldsUnlessRaced
  /\ GenerationIdentifies /\ AttemptsBounded

\* Every query comes to an end, though the connecting lock is shared, though
\* the holder may be dropped by a reset, and though nothing ever answers.
QueriesEnd ==
  \A q \in Queries : <>(pc[q] = "done")
=============================================================================
