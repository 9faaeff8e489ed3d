------------------------- MODULE DohUpstreamProofs -------------------------
(***************************************************************************)
(* Theorems about DohUpstream, for any number of queries and of threads    *)
(* that reset.  Type correctness carries the scheduling of the             *)
(* current-thread runtime (at most one query is between two awaits); the   *)
(* other invariants rest on it.                                            *)
(***************************************************************************)
EXTENDS DohUpstream, TLAPS

PCs == Waiting \cup Active

\* The part of TypeOK about positions, and the rest.
Scheduled ==
  /\ now \in Nat /\ epoch \in Nat /\ raced \in BOOLEAN
  /\ running \in Queries \cup {NoTask}
  /\ pc \in [Queries -> Waiting \cup Active]
  /\ \A q \in Queries : pc[q] \in Active <=> running = q
  /\ reset_pc \in [Resetters -> {"idle", "clear", "take", "notify"}]

Typed ==
  /\ down \in [until : Nat, epoch : Nat, began : Nat]
  /\ slot \in Slots
  /\ connecting \in Queries \cup {NoTask}
  /\ task \in [Queries -> Tasks]
  /\ waiting \subseteq Queries /\ notified \subseteq waiting

\* No position is both an await and a state in which the query runs.
LEMMA PositionsDisjoint ==
  Waiting \cap Active = {}
  BY DEF Waiting, Active

\* A step of a query keeps the runtime's discipline.
LEMMA GoesScheduled ==
  ASSUME Scheduled, NEW q \in Queries, NEW from \in PCs, NEW to \in PCs,
         Goes(q, from, to)
  PROVE  Scheduled'
<1>1. pc' \in [Queries -> Waiting \cup Active]
  BY DEF Scheduled, Goes, PCs
<1>2. running' \in Queries \cup {NoTask}
  BY DEF Goes
<1>3. \A p \in Queries : p # q => pc'[p] = pc[p] /\ pc[p] \notin Active
  <2> SUFFICES ASSUME NEW p \in Queries, p # q
               PROVE  pc'[p] = pc[p] /\ pc[p] \notin Active
    OBVIOUS
  <2>1. running = NoTask \/ running = q
    BY DEF Goes
  <2>2. running # p
    BY <2>1, DohAssumption
  <2> QED
    BY <2>2 DEF Scheduled, Goes
<1>4. pc'[q] = to
  BY DEF Scheduled, Goes
<1>5. \A p \in Queries : pc'[p] \in Active <=> running' = p
  <2>1. CASE to \in Waiting
    <3>1. running' = NoTask /\ to \notin Active
      BY <2>1, PositionsDisjoint DEF Goes
    <3> QED
      BY <1>3, <1>4, <3>1, DohAssumption
  <2>2. CASE to \notin Waiting
    <3>1. running' = q /\ to \in Active
      BY <2>2 DEF Goes, PCs
    <3> QED
      BY <1>3, <1>4, <3>1
  <2> QED
    BY <2>1, <2>2
<1> QED
  BY <1>1, <1>2, <1>5 DEF Scheduled, Goes

\* A step of a reset keeps it too.
LEMMA ResetScheduled ==
  ASSUME Scheduled, NEW r \in Resetters, NEW from,
         NEW to \in {"idle", "clear", "take", "notify"},
         ResetGoes(r, from, to), epoch' \in Nat, raced' \in BOOLEAN
  PROVE  Scheduled'
  BY DEF Scheduled, ResetGoes

\* Positions named in the actions.
LEMMA PositionsNamed ==
  /\ {"new", "warm", "lock", "connecting", "cold", "done", "warm_register",
      "warm_epoch", "warm_touch", "warm_retry", "warm_timeout",
      "cold_register", "cold_epoch", "open", "connect_epoch", "check",
      "install", "cold_touch", "mark_up", "mark_down", "swap", "recheck",
      "undo"} \subseteq PCs
  BY DEF PCs, Waiting, Active

\* Every action of a query is a Goes step between two positions.
LEMMA QueryGoes ==
  ASSUME NEW q \in Queries, QueryStep(q)
  PROVE  \E from, to \in PCs : Goes(q, from, to)
<1>1. CASE Start(q)
  BY <1>1, PositionsNamed DEF Start, StartWarm, StartCold
<1>2. CASE Warm(q)
  BY <1>2, PositionsNamed DEF Warm, WarmRegister, WarmEpoch, WarmAnswered,
     WarmBreaks, WarmTimesOut, WarmDiscard, Ends
<1>3. CASE StoppedByReset(q)
  BY <1>3, PositionsNamed DEF StoppedByReset
<1>4. CASE Cold(q)
  <2>1. CASE ColdEpoch(q)
    BY <2>1, PositionsNamed DEF ColdEpoch
  <2>2. CASE CheckEpoch(q)
    BY <2>2, PositionsNamed DEF CheckEpoch, Ends
  <2>3. CASE Install(q)
    BY <2>3, PositionsNamed DEF Install
  <2> QED
    BY <1>4, <2>1, <2>2, <2>3, PositionsNamed DEF Cold, ColdRegister, Lock,
       OpenShared, OpenNone, ConnectEpoch, Connected, ColdAnswered,
       ColdBreaks, ColdTimesOut, Ends
<1>5. CASE Touch(q)
  BY <1>5, PositionsNamed DEF Touch
<1>6. CASE Marks(q)
  <2>1. CASE Recheck(q)
    BY <2>1, PositionsNamed DEF Recheck
  <2>2. CASE MarkDown(q)
    BY <2>2, PositionsNamed DEF MarkDown
  <2> QED
    BY <1>6, <2>1, <2>2, PositionsNamed DEF Marks, MarkUp, Swap, Undo
<1> QED
  BY <1>1, <1>2, <1>3, <1>4, <1>5, <1>6 DEF QueryStep

\* What the operations on the slot give.
LEMMA SlotTyped ==
  ASSUME slot \in Slots
  PROVE  /\ NoSlot \in Slots
         /\ [NoSlot EXCEPT !.generation = @ + 1] \in Slots
         /\ [slot EXCEPT !.stale = FALSE] \in Slots
         /\ [slot EXCEPT !.stale = TRUE] \in Slots
         /\ [slot EXCEPT !.closed = TRUE] \in Slots
<1>2. NoSlot \in Slots
  BY Zenon DEF Slots, NoSlot
<1>3. [NoSlot EXCEPT !.generation = @ + 1] \in Slots
  BY <1>2 DEF Slots
<1>4. /\ [slot EXCEPT !.stale = FALSE] \in Slots
      /\ [slot EXCEPT !.stale = TRUE] \in Slots
      /\ [slot EXCEPT !.closed = TRUE] \in Slots
  BY Zenon DEF Slots
<1> QED
  BY Zenon, <1>2, <1>3, <1>4

LEMMA OpenSenderTyped ==
  ASSUME slot \in Slots, NoneOpen
  PROVE  slot' \in Slots
  BY Zenon, SlotTyped DEF NoneOpen

\* A query's locals keep their types when one of them is assigned.
LEMMA TaskTyped ==
  ASSUME NEW q \in Queries, task \in [Queries -> Tasks], NEW n \in Nat,
         NEW m \in Nat, NEW c \in Conns \cup {NoConn}, NEW b \in BOOLEAN
  PROVE  /\ task[q] \in Tasks
         /\ [task EXCEPT ![q].conn = c, ![q].generation = n,
                         ![q].attempts = @ + 1, ![q].began = m]
              \in [Queries -> Tasks]
         /\ [task EXCEPT ![q].epoch = n] \in [Queries -> Tasks]
         /\ [task EXCEPT ![q].epoch = n, ![q].attempts = @ + 1,
                         ![q].began = n] \in [Queries -> Tasks]
         /\ [task EXCEPT ![q].conn = c, ![q].generation = n]
              \in [Queries -> Tasks]
         /\ [task EXCEPT ![q].dial = n] \in [Queries -> Tasks]
         /\ [task EXCEPT ![q].until = n] \in [Queries -> Tasks]
         /\ [task EXCEPT ![q].stop_on_reset = b] \in [Queries -> Tasks]
<1>0. task[q] \in Tasks
  OBVIOUS
<1>1. [task EXCEPT ![q].conn = c, ![q].generation = n,
                   ![q].attempts = @ + 1, ![q].began = m]
        \in [Queries -> Tasks]
  <2> DEFINE r == task[q]
             r1 == [r EXCEPT !.conn = c]
             r2 == [r1 EXCEPT !.generation = n]
             r3 == [r2 EXCEPT !.attempts = r.attempts + 1]
             r4 == [r3 EXCEPT !.began = m]
  <2>1. r1 \in Tasks /\ r.attempts \in Nat
    BY Zenon, <1>0 DEF Tasks
  <2> HIDE DEF r, r1
  <2>2. r2 \in Tasks
    BY Zenon, <2>1 DEF Tasks
  <2> HIDE DEF r2
  <2>3. r3 \in Tasks
    BY <2>1, <2>2 DEF Tasks
  <2> HIDE DEF r3
  <2>4. r4 \in Tasks
    BY Zenon, <2>3 DEF Tasks
  <2>5. [task EXCEPT ![q] = r4] \in [Queries -> Tasks]
    BY Zenon, <2>4
  <2> QED
    BY Zenon, <2>5 DEF r4, r3, r2, r1, r
<1>2. [task EXCEPT ![q].epoch = n] \in [Queries -> Tasks]
  BY Zenon, <1>0 DEF Tasks
<1>3. [task EXCEPT ![q].epoch = n, ![q].attempts = @ + 1, ![q].began = n]
        \in [Queries -> Tasks]
  <2> DEFINE r == task[q]
             r1 == [r EXCEPT !.epoch = n]
             r2 == [r1 EXCEPT !.attempts = r.attempts + 1]
             r3 == [r2 EXCEPT !.began = n]
  <2>1. r1 \in Tasks /\ r.attempts \in Nat
    BY Zenon, <1>0 DEF Tasks
  <2> HIDE DEF r, r1
  <2>2. r2 \in Tasks
    BY <2>1 DEF Tasks
  <2> HIDE DEF r2
  <2>3. r3 \in Tasks
    BY Zenon, <2>2 DEF Tasks
  <2>4. [task EXCEPT ![q] = r3] \in [Queries -> Tasks]
    BY Zenon, <2>3
  <2> QED
    BY Zenon, <2>4 DEF r3, r2, r1, r
<1>4. [task EXCEPT ![q].conn = c, ![q].generation = n] \in [Queries -> Tasks]
  <2>1. [task[q] EXCEPT !.conn = c, !.generation = n] \in Tasks
    BY Zenon, <1>0 DEF Tasks
  <2> QED
    BY Zenon, <2>1
<1>5. /\ [task EXCEPT ![q].dial = n] \in [Queries -> Tasks]
      /\ [task EXCEPT ![q].until = n] \in [Queries -> Tasks]
      /\ [task EXCEPT ![q].stop_on_reset = b] \in [Queries -> Tasks]
  BY Zenon, <1>0 DEF Tasks
<1> QED
  BY Zenon, <1>0, <1>1, <1>2, <1>3, <1>4, <1>5

LEMMA EndsTyped ==
  ASSUME Typed, NEW q \in Queries, AttemptEnds(q), UNCHANGED <<down, slot>>,
         task' \in [Queries -> Tasks]
  PROVE  Typed'
  BY Zenon DEF Typed, AttemptEnds

\* The steps of a query keep the shared state's types.
LEMMA QueryTyped ==
  ASSUME Scheduled, Typed, NEW q \in Queries, QueryStep(q)
  PROVE  Typed'
<1> USE DEF wake
<1>0. /\ epoch \in Nat /\ slot \in Slots /\ task \in [Queries -> Tasks]
      /\ task[q] \in Tasks /\ slot.generation \in Nat
      /\ slot.sender \in Conns \cup {NoConn}
  BY Zenon DEF Typed, Scheduled, Slots
<1>1. CASE Start(q)
  <2>1. CASE StartWarm(q)
    <3>1. task' \in [Queries -> Tasks]
      <4>1. task' = [task EXCEPT ![q].conn = slot.sender,
                                 ![q].generation = slot.generation,
                                 ![q].attempts = @ + 1,
                                 ![q].began = epoch]
        BY Zenon, <2>1 DEF StartWarm
      <4>2. [task EXCEPT ![q].conn = slot.sender,
                         ![q].generation = slot.generation,
                         ![q].attempts = @ + 1,
                         ![q].began = epoch] \in [Queries -> Tasks]
        <5>1. ASSUME NEW c \in Conns \cup {NoConn}, NEW n \in Nat, NEW m \in Nat
              PROVE  [task EXCEPT ![q].conn = c, ![q].generation = n,
                                  ![q].attempts = @ + 1, ![q].began = m]
                       \in [Queries -> Tasks]
          BY <1>0, TaskTyped
        <5> QED
          BY <1>0, <5>1, ZenonT(40)
      <4> QED
        BY <4>1, <4>2, Zenon
    <3> QED
      BY Zenon, <2>1, <3>1 DEF StartWarm, Typed
  <2>2. CASE StartCold(q)
    BY Zenon, <2>2, OpenSenderTyped DEF StartCold, Typed
  <2> QED
    BY Zenon, <1>1, <2>1, <2>2 DEF Start
<1>2. CASE Warm(q)
  <2>1. CASE WarmRegister(q)
    BY Zenon, <2>1 DEF WarmRegister, Registers, Typed
  <2>2. CASE WarmEpoch(q)
    <3>1. task' \in [Queries -> Tasks]
      BY Zenon, <2>2, <1>0, TaskTyped DEF WarmEpoch
    <3> QED
      BY Zenon, <2>2, <3>1 DEF WarmEpoch, Typed
  <2>3. CASE WarmAnswered(q) \/ WarmBreaks(q) \/ WarmTimesOut(q)
    BY Zenon,
       <2>3, <1>0, EndsTyped DEF WarmAnswered, WarmBreaks, WarmTimesOut, Ends
  <2>4. CASE WarmDiscard(q)
    BY Zenon, <2>4, SlotTyped DEF WarmDiscard, discard, Typed
  <2> QED
    BY Zenon, <1>2, <2>1, <2>2, <2>3, <2>4 DEF Warm
<1>3. CASE StoppedByReset(q)
  <2>1. task' \in [Queries -> Tasks]
    BY Zenon, <1>3, <1>0, TaskTyped DEF StoppedByReset
  <2> QED
    BY Zenon, <1>3, <2>1, EndsTyped DEF StoppedByReset
<1>4. CASE Cold(q)
  <2>1. CASE ColdRegister(q)
    BY Zenon, <2>1 DEF ColdRegister, Registers, Typed
  <2>2. CASE ColdEpoch(q)
    <3>1. task' \in [Queries -> Tasks]
      BY Zenon, <2>2, <1>0, TaskTyped DEF ColdEpoch
    <3> QED
      BY Zenon, <2>2, <3>1 DEF ColdEpoch, Typed
  <2>3. CASE Lock(q)
    BY Zenon, <2>3 DEF Lock, Typed
  <2>4. CASE OpenShared(q)
    <3>1. task' \in [Queries -> Tasks]
      BY Zenon, <2>4, <1>0, TaskTyped DEF OpenShared
    <3> QED
      BY Zenon, <2>4, <3>1 DEF OpenShared, Typed
  <2>5. CASE OpenNone(q)
    BY Zenon, <2>5, OpenSenderTyped DEF OpenNone, Typed
  <2>6. CASE ConnectEpoch(q)
    <3>1. task' \in [Queries -> Tasks]
      BY Zenon, <2>6, <1>0, TaskTyped DEF ConnectEpoch
    <3> QED
      BY Zenon, <2>6, <3>1 DEF ConnectEpoch, Typed
  <2>7. CASE Connected(q)
    BY Zenon, <2>7 DEF Connected, Typed
  <2>8. CASE CheckEpoch(q)
    BY Zenon, <2>8, <1>0, EndsTyped DEF CheckEpoch, Ends, Typed
  <2>9. CASE Install(q)
    <3> DEFINE conn == [owner |-> q, attempt |-> task[q].attempts,
                        path |-> task[q].dial]
    <3>1. conn \in Conns
      BY Zenon, <1>0 DEF Conns, Tasks
    <3>2. slot' \in Slots
      BY <2>9, <3>1, <1>0 DEF Install, share, Slots
    <3>3. task' = [task EXCEPT ![q].conn = conn,
                               ![q].generation = slot.generation + 1]
      BY Zenon, <2>9 DEF Install
    <3>4. slot.generation + 1 \in Nat
      BY <1>0
    <3> HIDE DEF conn
    <3>5. task' \in [Queries -> Tasks]
      BY Zenon, <3>1, <3>3, <3>4, <1>0, TaskTyped
    <3> QED
      BY Zenon, <2>9, <3>2, <3>5 DEF Install, Typed
  <2>10. CASE ColdAnswered(q) \/ ColdBreaks(q) \/ ColdTimesOut(q)
    BY Zenon,
       <2>10, <1>0, EndsTyped DEF ColdAnswered, ColdBreaks, ColdTimesOut, Ends
  <2> QED
    BY Zenon, <1>4, <2>1, <2>2, <2>3, <2>4, <2>5, <2>6, <2>7, <2>8, <2>9, <2>10
       DEF Cold
<1>5. CASE Touch(q)
  BY Zenon, <1>5, SlotTyped DEF Touch, touch, Typed
<1>6. CASE Marks(q)
  <2>1. CASE MarkUp(q)
    BY Zenon, <2>1 DEF MarkUp, Typed
  <2>2. CASE MarkDown(q)
    <3>1. Later \in Nat
      BY DohAssumption DEF Later, Scheduled
    <3>2. [task EXCEPT ![q].until = Later] \in [Queries -> Tasks]
      BY Zenon, <3>1, <1>0 DEF Tasks
    <3>3. task' \in [Queries -> Tasks]
      BY Zenon, <2>2, <3>2, <1>0 DEF MarkDown
    <3> QED
      BY Zenon, <2>2, <3>3 DEF MarkDown, Typed
  <2>3. CASE Swap(q)
    <3>1. down' \in [until : Nat, epoch : Nat, began : Nat]
      BY Zenon, <2>3, <1>0 DEF Swap, Tasks
    <3> QED
      BY Zenon, <2>3, <3>1 DEF Swap, Typed
  <2>4. CASE Recheck(q)
    BY Zenon, <2>4 DEF Recheck, Typed
  <2>5. CASE Undo(q)
    BY Zenon, <2>5 DEF Undo, Typed
  <2> QED
    BY Zenon, <1>6, <2>1, <2>2, <2>3, <2>4, <2>5 DEF Marks
<1> QED
  BY Zenon, <1>1, <1>2, <1>3, <1>4, <1>5, <1>6 DEF QueryStep

\* So do those of a reset, of time and of the connection's peer.
LEMMA ResetTyped ==
  ASSUME Scheduled, Typed, NEW r \in Resetters,
         ResetCounts(r) \/ ResetGoesOn(r)
  PROVE  Scheduled' /\ Typed'
<1>1. CASE ResetCounts(r)
  <2>1. epoch' \in Nat /\ raced' \in BOOLEAN
    BY <1>1 DEF ResetCounts, Scheduled
  <2>2. Scheduled'
    BY Zenon, <1>1, <2>1, ResetScheduled DEF ResetCounts
  <2> QED
    BY Zenon, <1>1, <2>2 DEF ResetCounts, ResetGoes, Typed
<1>2. CASE ResetClears(r)
  <2>1. Scheduled'
    BY Zenon, <1>2, ResetScheduled DEF ResetClears, Scheduled
  <2> QED
    BY Zenon, <1>2, <2>1 DEF ResetClears, ResetGoes, Typed
<1>3. CASE ResetTakes(r)
  <2>1. Scheduled'
    BY Zenon, <1>3, ResetScheduled DEF ResetTakes, Scheduled
  <2> QED
    BY Zenon, <1>3, <2>1, SlotTyped DEF ResetTakes, ResetGoes, Typed
<1>4. CASE ResetNotifies(r)
  <2>1. Scheduled'
    BY Zenon, <1>4, ResetScheduled DEF ResetNotifies, Scheduled
  <2> QED
    BY Zenon, <1>4, <2>1 DEF ResetNotifies, ResetGoes, Typed
<1> QED
  BY Zenon, <1>1, <1>2, <1>3, <1>4 DEF ResetGoesOn

LEMMA TypeStep ==
  TypeOK /\ [Next]_vars => TypeOK'
<1> SUFFICES ASSUME TypeOK, [Next]_vars PROVE TypeOK'
  OBVIOUS
<1>1. Scheduled /\ Typed
  BY Zenon DEF TypeOK, Scheduled, Typed
<1>2. Scheduled' /\ Typed'
  <2>1. CASE \E q \in Queries : QueryStep(q)
    <3>1. PICK q \in Queries : QueryStep(q)
      BY Zenon, <2>1
    <3>2. PICK from \in PCs, to \in PCs : Goes(q, from, to)
      BY Zenon, <3>1, QueryGoes
    <3> QED
      BY Zenon, <1>1, <3>1, <3>2, GoesScheduled, QueryTyped
  <2>2. CASE \E r \in Resetters : ResetCounts(r) \/ ResetGoesOn(r)
    BY Zenon, <1>1, <2>2, ResetTyped
  <2>3. CASE Tick
    BY <1>1, <2>3 DEF Tick, Scheduled, Typed
  <2>4. CASE Ages
    BY Zenon, <1>1, <2>4, SlotTyped DEF Ages, Scheduled, Typed
  <2>5. CASE UNCHANGED vars
    BY Zenon, <1>1, <2>5 DEF vars, Scheduled, Typed
  <2> QED
    BY Zenon, <2>1, <2>2, <2>3, <2>4, <2>5 DEF Next
<1> QED
  BY Zenon, <1>2 DEF TypeOK, Scheduled, Typed

LEMMA TypeInit == Init => TypeOK
<1> SUFFICES ASSUME Init PROVE TypeOK
  OBVIOUS
<1>1. slot \in Slots
  BY Zenon DEF Init, Slots
<1>2. task \in [Queries -> Tasks]
  BY Zenon DEF Init, Tasks
<1>3. pc \in [Queries -> Waiting \cup Active]
  BY Zenon DEF Init, Waiting
<1>4. \A q \in Queries : pc[q] \in Active <=> running = q
  BY Zenon, DohAssumption DEF Init, Active
<1> QED
  BY Zenon, <1>1, <1>2, <1>3, <1>4 DEF Init, TypeOK

\* The type invariant of Upstream's shared state and of the queries' locals,
\* with the discipline of the current-thread runtime.
THEOREM TypeCorrect == Spec => []TypeOK
  BY TypeInit, TypeStep, PTL DEF Spec
-----------------------------------------------------------------------------
(* No stale mark.  A mark of another count than the present one can stand  *)
(* only until the reset that counted clears it, or until the query that    *)
(* set it, which has not left mark_down, looks at the count again.         *)

Undecided(q) ==
  /\ pc[q] \in {"recheck", "undo"}
  /\ down.until = task[q].until
  /\ down.epoch = task[q].epoch

MarkInv ==
  down.until # 0 /\ down.epoch # epoch
    => ResetAt({"clear"}) \/ \E q \in Queries : Undecided(q)

\* A query that runs is alone: no other is in mark_down when it takes a step.
LEMMA NoOtherMarks ==
  ASSUME TypeOK, NEW q \in Queries, NEW from, NEW to, Goes(q, from, to),
         from \notin {"recheck", "undo"}
  PROVE  \A p \in Queries : ~Undecided(p)
<1> SUFFICES ASSUME NEW p \in Queries, pc[p] \in {"recheck", "undo"}
             PROVE  FALSE
  BY Zenon DEF Undecided
<1>1. running = p
  BY Zenon DEF TypeOK, Active
<1>2. p # q
  BY Zenon DEF Goes
<1> QED
  BY Zenon, <1>1, <1>2, DohAssumption DEF Goes

\* Such a step, when it leaves the mark alone, keeps MarkInv.
LEMMA MarkInvElsewhere ==
  ASSUME TypeOK, MarkInv, NEW q \in Queries, NEW from, NEW to,
         Goes(q, from, to), from \notin {"recheck", "undo"}, UNCHANGED down
  PROVE  MarkInv'
<1>1. down.until # 0 /\ down.epoch # epoch => ResetAt({"clear"})
  BY Zenon, NoOtherMarks DEF MarkInv
<1> QED
  BY Zenon, <1>1 DEF MarkInv, Goes, ResetAt

LEMMA MarkInvQuery ==
  ASSUME TypeOK, MarkInv, NEW q \in Queries, QueryStep(q)
  PROVE  MarkInv'
<1>1. CASE Start(q)
  BY Zenon, <1>1, MarkInvElsewhere DEF Start, StartWarm, StartCold
<1>2. CASE Warm(q)
  BY Zenon,
     <1>2, MarkInvElsewhere DEF Warm, WarmRegister, WarmEpoch, WarmAnswered,
     WarmBreaks, WarmTimesOut, WarmDiscard, Ends
<1>3. CASE StoppedByReset(q)
  BY Zenon, <1>3, MarkInvElsewhere DEF StoppedByReset
<1>4. CASE Cold(q)
  <2>1. CASE ColdEpoch(q)
    BY Zenon, <2>1, MarkInvElsewhere DEF ColdEpoch
  <2>2. CASE CheckEpoch(q)
    BY Zenon, <2>2, MarkInvElsewhere DEF CheckEpoch, Ends
  <2>3. CASE Install(q)
    BY Zenon, <2>3, MarkInvElsewhere DEF Install
  <2> QED
    BY Zenon,
       <1>4, <2>1, <2>2, <2>3, MarkInvElsewhere DEF Cold, ColdRegister, Lock,
       OpenShared, OpenNone, ConnectEpoch, Connected, ColdAnswered,
       ColdBreaks, ColdTimesOut, Ends
<1>5. CASE Touch(q)
  BY Zenon, <1>5, MarkInvElsewhere DEF Touch
<1>6. CASE Marks(q)
  <2>1. CASE MarkUp(q)
    BY Zenon, <2>1 DEF MarkUp, MarkInv, TypeOK
  <2>2. CASE MarkDown(q)
    BY Zenon, <2>2, MarkInvElsewhere DEF MarkDown
  <2>3. CASE Swap(q)
    <3>1. Undecided(q)'
      BY Zenon, <2>3 DEF Swap, Goes, Undecided, TypeOK
    <3> QED
      BY Zenon, <3>1 DEF MarkInv
  <2>4. CASE Recheck(q)
    <3>1. \A p \in Queries : p # q => ~Undecided(p)
      BY Zenon,
         <2>4, DohAssumption DEF Recheck, Goes, Undecided, TypeOK, Active,
         Waiting
    <3>2. CASE epoch = task[q].epoch
      <4>1. down.until # 0 /\ down.epoch # epoch => ResetAt({"clear"})
        BY Zenon, <3>1, <3>2 DEF MarkInv, Undecided
      <4> QED
        BY Zenon, <2>4, <4>1 DEF Recheck, Goes, MarkInv, ResetAt
    <3>3. CASE epoch # task[q].epoch
      <4>1. Undecided(q) => Undecided(q)'
        BY Zenon, <2>4, <3>3 DEF Recheck, Goes, Undecided, TypeOK
      <4> QED
        BY Zenon, <2>4, <3>1, <4>1 DEF Recheck, Goes, MarkInv, ResetAt
    <3> QED
      BY Zenon, <3>2, <3>3
  <2>5. CASE Undo(q)
    <3>1. \A p \in Queries : p # q => ~Undecided(p)
      BY Zenon, <2>5, DohAssumption DEF Undo, Goes, Undecided, TypeOK, Active,
         Waiting
    <3>2. CASE down.until = task[q].until
      BY Zenon, <2>5, <3>2 DEF Undo, MarkInv, TypeOK
    <3>3. CASE down.until # task[q].until
      BY Zenon, <2>5, <3>1, <3>3 DEF Undo, Goes, MarkInv, Undecided, ResetAt
    <3> QED
      BY Zenon, <3>2, <3>3
  <2> QED
    BY Zenon, <1>6, <2>1, <2>2, <2>3, <2>4, <2>5 DEF Marks
<1> QED
  BY Zenon, <1>1, <1>2, <1>3, <1>4, <1>5, <1>6 DEF QueryStep

LEMMA MarkInvReset ==
  ASSUME TypeOK, MarkInv, NEW r \in Resetters,
         ResetCounts(r) \/ ResetGoesOn(r)
  PROVE  MarkInv'
<1>1. CASE ResetCounts(r)
  <2>1. ResetAt({"clear"})'
    BY Zenon, <1>1 DEF ResetCounts, ResetGoes, ResetAt, TypeOK
  <2> QED
    BY Zenon, <2>1 DEF MarkInv
<1>2. CASE ResetClears(r)
  BY Zenon, <1>2 DEF ResetClears, MarkInv, TypeOK
<1>3. CASE ResetTakes(r) \/ ResetNotifies(r)
  <2>1. ResetAt({"clear"}) => ResetAt({"clear"})'
    BY Zenon, <1>3 DEF ResetTakes, ResetNotifies, ResetGoes, ResetAt, TypeOK
  <2>2. UNCHANGED <<down, epoch, pc, task>>
    BY Zenon, <1>3 DEF ResetTakes, ResetNotifies, ResetGoes
  <2> QED
    BY Zenon, <2>1, <2>2 DEF MarkInv, Undecided
<1> QED
  BY Zenon, <1>1, <1>2, <1>3 DEF ResetGoesOn

LEMMA MarkInvStep ==
  TypeOK /\ MarkInv /\ [Next]_vars => MarkInv'
<1> SUFFICES ASSUME TypeOK, MarkInv, [Next]_vars PROVE MarkInv'
  OBVIOUS
<1>1. CASE \E q \in Queries : QueryStep(q)
  BY Zenon, <1>1, MarkInvQuery
<1>2. CASE \E r \in Resetters : ResetCounts(r) \/ ResetGoesOn(r)
  BY Zenon, <1>2, MarkInvReset
<1>3. CASE Tick \/ Ages \/ UNCHANGED vars
  <2>1. UNCHANGED <<down, epoch, pc, task, reset_pc>>
    BY Zenon, <1>3 DEF Tick, Ages, vars
  <2> QED
    BY Zenon, <2>1 DEF MarkInv, Undecided, ResetAt
<1> QED
  BY Zenon, <1>1, <1>2, <1>3 DEF Next

\* mark_down's check, swap, check and undo never leave a mark from before a
\* reset standing, however many queries and resets interleave.
THEOREM NoStaleMarkHolds == Spec => []NoStaleMark
<1>1. Init => MarkInv
  BY DEF Init, MarkInv
<1>2. MarkInv => NoStaleMark
  BY Zenon DEF MarkInv, NoStaleMark, MarkInDoubt, Undecided
<1> QED
  BY <1>1, <1>2, TypeInit, TypeStep, MarkInvStep, PTL DEF Spec
-----------------------------------------------------------------------------
(* Generations.  The slot's generation never falls and grows with every    *)
(* connection that is shared, so no query holds a later one.               *)

GenInv ==
  /\ GenerationIdentifies
  /\ \A q \in Queries :
       task[q].conn # NoConn => task[q].generation <= slot.generation

\* What most steps do to the slot and to the connections in use.
SameUse ==
  /\ \A p \in Queries : /\ task'[p].conn = task[p].conn
                        /\ task'[p].generation = task[p].generation
  /\ \/ slot'.sender = NoConn /\ slot'.generation >= slot.generation
     \/ slot'.sender = slot.sender /\ slot'.generation = slot.generation

LEMMA SameUseKeeps ==
  ASSUME TypeOK, TypeOK', GenInv, SameUse
  PROVE  GenInv'
<1>1. /\ slot.generation \in Nat /\ slot'.generation \in Nat
      /\ \A p \in Queries : task[p].generation \in Nat
  BY Zenon DEF TypeOK, Slots, Tasks
<1> QED
  BY <1>1 DEF GenInv, GenerationIdentifies, SameUse

LEMMA SlotSteps ==
  ASSUME TypeOK, NEW q \in Queries, UNCHANGED task,
         NoneOpen \/ touch(q) \/ discard(q) \/ UNCHANGED slot
  PROVE  SameUse
  BY DEF TypeOK, Slots, SameUse, NoneOpen, NoSlot, touch, discard

\* A query takes over the slot's connection.
LEMMA TakesShared ==
  ASSUME TypeOK, GenInv, NEW q \in Queries, UNCHANGED slot,
         task'[q].conn = slot.sender, task'[q].generation = slot.generation,
         \A p \in Queries \ {q} : task'[p] = task[p]
  PROVE  GenInv'
<1>1. slot.generation \in Nat
  BY Zenon DEF TypeOK, Slots
<1> QED
  BY <1>1 DEF GenInv, GenerationIdentifies

LEMMA GenInvInstall ==
  ASSUME TypeOK, GenInv, NEW q \in Queries, Install(q)
  PROVE  GenInv'
<1> DEFINE conn == [owner |-> q, attempt |-> task[q].attempts,
                    path |-> task[q].dial]
<1>1. /\ slot'.sender = conn /\ slot'.generation = slot.generation + 1
      /\ task'[q].conn = conn /\ task'[q].generation = slot.generation + 1
      /\ \A p \in Queries \ {q} : task'[p] = task[p]
  BY Zenon DEF Install, share, TypeOK, Tasks
<1>2. /\ slot.generation \in Nat
      /\ \A p \in Queries : task[p].generation \in Nat
  BY Zenon DEF TypeOK, Slots, Tasks
<1> HIDE DEF conn
<1> QED
  BY <1>1, <1>2 DEF GenInv, GenerationIdentifies

LEMMA GenInvQuery ==
  ASSUME TypeOK, TypeOK', GenInv, NEW q \in Queries, QueryStep(q)
  PROVE  GenInv'
<1>0. task \in [Queries -> Tasks] /\ slot.generation \in Nat
  BY Zenon DEF TypeOK, Slots
<1>1. CASE StartWarm(q) \/ OpenShared(q)
  <2>1. /\ task'[q].conn = slot.sender /\ task'[q].generation = slot.generation
        /\ \A p \in Queries \ {q} : task'[p] = task[p]
    BY <1>0, <1>1 DEF StartWarm, OpenShared, Tasks
  <2> QED
    BY Zenon, <1>1, <2>1, TakesShared DEF StartWarm, OpenShared
<1>2. CASE Install(q)
  BY Zenon, <1>2, GenInvInstall
<1>3. CASE StartCold(q) \/ OpenNone(q) \/ Touch(q) \/ WarmDiscard(q)
  BY Zenon,
     <1>3, SlotSteps, SameUseKeeps DEF StartCold, OpenNone, Touch, WarmDiscard
<1>4. CASE WarmEpoch(q) \/ StoppedByReset(q) \/ ColdEpoch(q)
             \/ ConnectEpoch(q) \/ MarkDown(q)
  <2>1. UNCHANGED slot
    BY Zenon,
       <1>4 DEF WarmEpoch, StoppedByReset, ColdEpoch, ConnectEpoch, MarkDown
  <2>2. \A p \in Queries : /\ task'[p].conn = task[p].conn
                           /\ task'[p].generation = task[p].generation
    BY <1>0, <1>4 DEF WarmEpoch, StoppedByReset, ColdEpoch, ConnectEpoch,
       MarkDown, Tasks
  <2> QED
    BY Zenon, <2>1, <2>2, SameUseKeeps DEF SameUse
<1>5. CASE UNCHANGED <<slot, task>>
  BY Zenon, <1>5, SlotSteps, SameUseKeeps
<1>6. \/ StartWarm(q) \/ OpenShared(q) \/ Install(q) \/ StartCold(q)
      \/ OpenNone(q) \/ Touch(q) \/ WarmDiscard(q) \/ WarmEpoch(q)
      \/ StoppedByReset(q) \/ ColdEpoch(q) \/ ConnectEpoch(q) \/ MarkDown(q)
      \/ UNCHANGED <<slot, task>>
  BY Zenon DEF QueryStep, Start, Warm, Cold, Marks, WarmRegister, WarmAnswered,
     WarmBreaks, WarmTimesOut, ColdRegister, Lock, Connected, CheckEpoch,
     ColdAnswered, ColdBreaks, ColdTimesOut, Ends, MarkUp, Swap, Recheck, Undo
<1> QED
  BY Zenon, <1>1, <1>2, <1>3, <1>4, <1>5, <1>6

LEMMA GenInvStep ==
  TypeOK /\ TypeOK' /\ GenInv /\ [Next]_vars => GenInv'
<1> SUFFICES ASSUME TypeOK, TypeOK', GenInv, [Next]_vars PROVE GenInv'
  OBVIOUS
<1>1. CASE \E q \in Queries : QueryStep(q)
  BY Zenon, <1>1, GenInvQuery
<1>2. CASE \E r \in Resetters : ResetCounts(r) \/ ResetGoesOn(r)
  <2>1. SameUse
    BY <1>2 DEF ResetGoesOn, ResetCounts, ResetClears, ResetTakes,
       ResetNotifies, ResetGoes, SameUse, NoSlot, TypeOK, Slots
  <2> QED
    BY Zenon, <2>1, SameUseKeeps
<1>3. CASE Tick \/ Ages \/ UNCHANGED vars
  <2>1. SameUse
    BY <1>3 DEF Tick, Ages, vars, SameUse, TypeOK, Slots
  <2> QED
    BY Zenon, <2>1, SameUseKeeps
<1> QED
  BY Zenon, <1>1, <1>2, <1>3 DEF Next

\* A late touch or discard never reaches another connection than the query's.
THEOREM GenerationIdentifiesHolds == Spec => []GenerationIdentifies
<1>1. Init => GenInv
  BY DEF Init, GenInv, GenerationIdentifies
<1>2. GenInv => GenerationIdentifies
  BY Zenon DEF GenInv
<1> QED
  BY <1>1, <1>2, TypeInit, TypeStep, GenInvStep, PTL DEF Spec
-----------------------------------------------------------------------------
(* The two windows.  Unless a reset began while a query was Exposed, the   *)
(* count a query read is the count its attempt began with, and a           *)
(* connection about to be shared was opened at the present count.          *)

InStep(q) ==
  /\ task[q].began = IF pc[q] \in {"warm_register", "warm_epoch"} THEN epoch
                     ELSE task[q].epoch
  /\ pc[q] = "install" => task[q].dial = epoch

RaceInv ==
  raced \/ /\ \A q \in Queries : InStep(q)
           /\ down.began = down.epoch
           /\ OldPathNotShared

\* A step of query q, seen from RaceInv: the others stay in step, and the
\* slot's connection is kept, dropped, or opened at the present count.
LEMMA QueryInStep ==
  ASSUME TypeOK, RaceInv, ~raced, NEW q \in Queries, NEW from, NEW to,
         Goes(q, from, to), InStep(q)',
         \A p \in Queries \ {q} : task'[p] = task[p],
         down'.began = down'.epoch,
         \/ slot'.sender = NoConn \/ slot'.sender = slot.sender
         \/ slot'.sender.path = epoch
  PROVE  RaceInv'
<1>1. \A p \in Queries : InStep(p)'
  <2> SUFFICES ASSUME NEW p \in Queries, p # q PROVE InStep(p)'
    OBVIOUS
  <2> QED
    BY Zenon DEF RaceInv, InStep, Goes, TypeOK
<1>2. OldPathNotShared'
  BY Zenon DEF RaceInv, OldPathNotShared, Goes, ResetAt
<1> QED
  BY Zenon, <1>1, <1>2 DEF RaceInv

LEMMA RaceInvQuery ==
  ASSUME TypeOK, RaceInv, NEW q \in Queries, QueryStep(q)
  PROVE  RaceInv'
<1>0. CASE raced
  <2>1. \E from, to \in PCs : Goes(q, from, to)
    BY Zenon, QueryGoes
  <2> QED
    BY Zenon, <1>0, <2>1 DEF Goes, RaceInv
<1> SUFFICES ASSUME ~raced PROVE RaceInv'
  BY Zenon, <1>0
<1>1. /\ task \in [Queries -> Tasks] /\ pc \in [Queries -> Waiting \cup Active]
      /\ InStep(q) /\ down.began = down.epoch
  BY Zenon DEF TypeOK, RaceInv
<1>2. CASE Start(q)
  <2>1. CASE StartWarm(q)
    <3>1. Goes(q, "new", "warm_register") /\ UNCHANGED <<down, slot>>
      BY Zenon, <2>1 DEF StartWarm
    <3>2. task'[q].began = epoch /\ \A p \in Queries \ {q} : task'[p] = task[p]
      BY Zenon, <2>1, <1>1 DEF StartWarm, Tasks
    <3>3. InStep(q)'
      BY Zenon, <1>1, <3>1, <3>2 DEF InStep, Goes
    <3> QED
      BY Zenon, <1>1, <3>1, <3>2, <3>3, QueryInStep
  <2>2. CASE StartCold(q)
    <3>1. Goes(q, "new", "cold_register") /\ UNCHANGED <<down, task>>
      BY Zenon, <2>2 DEF StartCold
    <3>2. slot'.sender = NoConn \/ slot'.sender = slot.sender
      BY Zenon, <2>2 DEF StartCold, NoneOpen, NoSlot
    <3>3. InStep(q)'
      BY Zenon, <1>1, <3>1 DEF InStep, Goes
    <3> QED
      BY Zenon, <1>1, <3>1, <3>2, <3>3, QueryInStep
  <2> QED
    BY Zenon, <1>2, <2>1, <2>2 DEF Start
<1>3. CASE Warm(q) \/ StoppedByReset(q)
  <2>1. CASE WarmRegister(q)
    <3>1. Goes(q, "warm_register", "warm_epoch")
            /\ UNCHANGED <<down, slot, task>>
      BY Zenon, <2>1 DEF WarmRegister
    <3>2. InStep(q)'
      BY Zenon, <1>1, <3>1 DEF InStep, Goes
    <3> QED
      BY Zenon, <1>1, <3>1, <3>2, QueryInStep
  <2>2. CASE WarmEpoch(q)
    <3>1. Goes(q, "warm_epoch", "warm") /\ UNCHANGED <<down, slot>>
      BY Zenon, <2>2 DEF WarmEpoch
    <3>2. /\ task'[q].epoch = epoch /\ task'[q].began = task[q].began
          /\ \A p \in Queries \ {q} : task'[p] = task[p]
      BY Zenon, <2>2, <1>1 DEF WarmEpoch, Tasks
    <3>3. InStep(q)'
      BY Zenon, <1>1, <3>1, <3>2 DEF InStep, Goes
    <3> QED
      BY Zenon, <1>1, <3>1, <3>2, <3>3, QueryInStep
  <2>3. CASE WarmAnswered(q) \/ WarmBreaks(q) \/ WarmTimesOut(q)
    <3>1. PICK to \in {"warm_touch", "warm_retry", "warm_timeout"} :
            Goes(q, "warm", to) /\ UNCHANGED <<down, slot, task>>
      BY Zenon, <2>3 DEF WarmAnswered, WarmBreaks, WarmTimesOut, Ends
    <3>2. InStep(q)'
      BY Zenon, <1>1, <3>1 DEF InStep, Goes
    <3> QED
      BY Zenon, <1>1, <3>1, <3>2, QueryInStep
  <2>4. CASE WarmDiscard(q)
    <3>1. PICK from \in {"warm_retry", "warm_timeout"},
               to \in {"cold_register", "mark_down"} :
            Goes(q, from, to) /\ UNCHANGED <<down, task>>
      BY Zenon, <2>4 DEF WarmDiscard
    <3>2. slot'.sender = NoConn \/ slot'.sender = slot.sender
      BY Zenon, <2>4 DEF WarmDiscard, discard, NoSlot
    <3>3. InStep(q)'
      BY Zenon, <1>1, <3>1 DEF InStep, Goes
    <3> QED
      BY Zenon, <1>1, <3>1, <3>2, <3>3, QueryInStep
  <2>5. CASE StoppedByReset(q)
    <3>1. PICK from \in {"warm", "lock", "connecting", "cold"} :
            Goes(q, from, "cold_register") /\ UNCHANGED <<down, slot>>
      BY Zenon, <2>5 DEF StoppedByReset
    <3>2. /\ task'[q].epoch = task[q].epoch /\ task'[q].began = task[q].began
          /\ \A p \in Queries \ {q} : task'[p] = task[p]
      BY Zenon, <2>5, <1>1 DEF StoppedByReset, Tasks
    <3>3. InStep(q)'
      BY Zenon, <1>1, <3>1, <3>2 DEF InStep, Goes
    <3> QED
      BY Zenon, <1>1, <3>1, <3>2, <3>3, QueryInStep
  <2> QED
    BY Zenon, <1>3, <2>1, <2>2, <2>3, <2>4, <2>5 DEF Warm
<1>4. CASE Cold(q)
  <2>1. CASE ColdEpoch(q)
    <3>1. PICK to \in {"open", "lock"} :
            Goes(q, "cold_epoch", to) /\ UNCHANGED <<down, slot>>
      BY Zenon, <2>1 DEF ColdEpoch
    <3>2. /\ task'[q].epoch = epoch /\ task'[q].began = epoch
          /\ \A p \in Queries \ {q} : task'[p] = task[p]
      BY Zenon, <2>1, <1>1 DEF ColdEpoch, Tasks
    <3>3. InStep(q)'
      BY Zenon, <1>1, <3>1, <3>2 DEF InStep, Goes
    <3> QED
      BY Zenon, <1>1, <3>1, <3>2, <3>3, QueryInStep
  <2>2. CASE OpenShared(q)
    <3>1. Goes(q, "open", "cold") /\ UNCHANGED <<down, slot>>
      BY Zenon, <2>2 DEF OpenShared
    <3>2. /\ task'[q].epoch = task[q].epoch /\ task'[q].began = task[q].began
          /\ \A p \in Queries \ {q} : task'[p] = task[p]
      BY Zenon, <2>2, <1>1 DEF OpenShared, Tasks
    <3>3. InStep(q)'
      BY Zenon, <1>1, <3>1, <3>2 DEF InStep, Goes
    <3> QED
      BY Zenon, <1>1, <3>1, <3>2, <3>3, QueryInStep
  <2>3. CASE OpenNone(q)
    <3>1. Goes(q, "open", "connect_epoch") /\ UNCHANGED <<down, task>>
      BY Zenon, <2>3 DEF OpenNone
    <3>2. slot'.sender = NoConn \/ slot'.sender = slot.sender
      BY Zenon, <2>3 DEF OpenNone, NoneOpen, NoSlot
    <3>3. InStep(q)'
      BY Zenon, <1>1, <3>1 DEF InStep, Goes
    <3> QED
      BY Zenon, <1>1, <3>1, <3>2, <3>3, QueryInStep
  <2>4. CASE ConnectEpoch(q)
    <3>1. Goes(q, "connect_epoch", "connecting") /\ UNCHANGED <<down, slot>>
      BY Zenon, <2>4 DEF ConnectEpoch
    <3>2. /\ task'[q].epoch = task[q].epoch /\ task'[q].began = task[q].began
          /\ \A p \in Queries \ {q} : task'[p] = task[p]
      BY Zenon, <2>4, <1>1 DEF ConnectEpoch, Tasks
    <3>3. InStep(q)'
      BY Zenon, <1>1, <3>1, <3>2 DEF InStep, Goes
    <3> QED
      BY Zenon, <1>1, <3>1, <3>2, <3>3, QueryInStep
  <2>5. CASE CheckEpoch(q)
    <3>1. CASE epoch = task[q].dial /\ Goes(q, "check", "install")
                 /\ UNCHANGED <<down, slot, task>>
      <4>1. InStep(q)'
        BY Zenon, <1>1, <3>1 DEF InStep, Goes
      <4> QED
        BY Zenon, <1>1, <3>1, <4>1, QueryInStep
    <3>2. CASE Goes(q, "check", "mark_down") /\ UNCHANGED <<down, slot, task>>
      <4>1. InStep(q)'
        BY Zenon, <1>1, <3>2 DEF InStep, Goes
      <4> QED
        BY Zenon, <1>1, <3>2, <4>1, QueryInStep
    <3> QED
      BY Zenon, <2>5, <3>1, <3>2 DEF CheckEpoch, Ends
  <2>6. CASE Install(q)
    <3>1. Goes(q, "install", "cold") /\ UNCHANGED down
      BY Zenon, <2>6 DEF Install
    <3>2. slot'.sender.path = epoch
      BY Zenon, <2>6, <1>1, <3>1 DEF Install, share, InStep, Goes
    <3>3. /\ task'[q].epoch = task[q].epoch /\ task'[q].began = task[q].began
          /\ \A p \in Queries \ {q} : task'[p] = task[p]
      BY Zenon, <2>6, <1>1 DEF Install, Tasks
    <3>4. InStep(q)'
      BY Zenon, <1>1, <3>1, <3>3 DEF InStep, Goes
    <3> QED
      BY Zenon, <1>1, <3>1, <3>2, <3>3, <3>4, QueryInStep
  <2>7. CASE ColdRegister(q) \/ Lock(q) \/ Connected(q) \/ ColdAnswered(q)
               \/ ColdBreaks(q) \/ ColdTimesOut(q)
    <3>1. PICK from \in {"cold_register", "lock", "connecting", "cold"},
               to \in {"cold_epoch", "open", "check", "cold_touch",
                       "mark_down"} :
            Goes(q, from, to) /\ UNCHANGED <<down, slot, task>>
      BY Zenon,
         <2>7 DEF ColdRegister, Lock, Connected, ColdAnswered, ColdBreaks,
         ColdTimesOut, Ends
    <3>2. InStep(q)'
      BY Zenon, <1>1, <3>1 DEF InStep, Goes
    <3> QED
      BY Zenon, <1>1, <3>1, <3>2, QueryInStep
  <2> QED
    BY Zenon, <1>4, <2>1, <2>2, <2>3, <2>4, <2>5, <2>6, <2>7 DEF Cold
<1>5. CASE Touch(q)
  <2>1. PICK from \in {"warm_touch", "cold_touch"} :
          Goes(q, from, "mark_up") /\ UNCHANGED <<down, task>>
    BY Zenon, <1>5 DEF Touch
  <2>2. slot'.sender = slot.sender
    BY Zenon, <1>5 DEF Touch, touch, TypeOK, Slots
  <2>3. InStep(q)'
    BY Zenon, <1>1, <2>1 DEF InStep, Goes
  <2> QED
    BY Zenon, <1>1, <2>1, <2>2, <2>3, QueryInStep
<1>6. CASE Marks(q)
  <2>1. PICK from \in {"mark_up", "mark_down", "swap", "recheck", "undo"},
             to \in {"swap", "recheck", "undo", "done"} :
          Goes(q, from, to) /\ UNCHANGED slot
    BY Zenon, <1>6 DEF Marks, MarkUp, MarkDown, Swap, Recheck, Undo
  <2>2. /\ task'[q].epoch = task[q].epoch /\ task'[q].began = task[q].began
        /\ \A p \in Queries \ {q} : task'[p] = task[p]
    BY Zenon, <1>6, <1>1 DEF Marks, MarkUp, MarkDown, Swap, Recheck, Undo, Tasks
  <2>3. InStep(q)'
    BY Zenon, <1>1, <2>1, <2>2 DEF InStep, Goes
  <2>4. down'.began = down'.epoch
    <3>1. CASE Swap(q)
      BY Zenon, <3>1, <1>1 DEF Swap, Goes, InStep
    <3> QED
      BY Zenon,
         <1>6, <1>1, <3>1 DEF Marks, MarkUp, MarkDown, Recheck, Undo, TypeOK
  <2> QED
    BY Zenon, <2>1, <2>2, <2>3, <2>4, QueryInStep
<1> QED
  BY Zenon, <1>2, <1>3, <1>4, <1>5, <1>6 DEF QueryStep

LEMMA RaceInvReset ==
  ASSUME TypeOK, RaceInv, NEW r \in Resetters,
         ResetCounts(r) \/ ResetGoesOn(r)
  PROVE  RaceInv'
<1>1. CASE ResetCounts(r)
  <2>1. ResetAt({"clear", "take"})'
    BY Zenon, <1>1 DEF ResetCounts, ResetGoes, ResetAt, TypeOK
  <2>2. CASE raced \/ \E q \in Queries : pc[q] \in Exposed
    BY Zenon, <1>1, <2>2 DEF ResetCounts, RaceInv
  <2>3. CASE ~raced /\ \A q \in Queries : pc[q] \notin Exposed
    <3>1. \A q \in Queries : InStep(q)'
      BY Zenon, <1>1, <2>3 DEF ResetCounts, ResetGoes, RaceInv, InStep, Exposed
    <3> QED
      BY Zenon, <1>1, <2>1, <2>3, <3>1
         DEF ResetCounts, ResetGoes, RaceInv, OldPathNotShared
  <2> QED
    BY Zenon, <2>2, <2>3
<1>2. CASE ResetGoesOn(r)
  <2>1. /\ UNCHANGED <<epoch, raced, pc, task>>
        /\ down'.began = down.began /\ down'.epoch = down.epoch
    BY Zenon, <1>2 DEF ResetGoesOn, ResetClears, ResetTakes, ResetNotifies,
       ResetGoes, TypeOK
  <2>2. OldPathNotShared => OldPathNotShared'
    <3>1. CASE ResetTakes(r)
      BY Zenon, <3>1 DEF ResetTakes, OldPathNotShared, NoSlot, TypeOK, Slots
    <3>2. CASE ResetClears(r) \/ ResetNotifies(r)
      <4>1. ResetAt({"clear", "take"}) => ResetAt({"clear", "take"})'
        BY Zenon,
           <3>2 DEF ResetClears, ResetNotifies, ResetGoes, ResetAt, TypeOK
      <4> QED
        BY Zenon,
           <2>1, <3>2, <4>1 DEF ResetClears, ResetNotifies, OldPathNotShared
    <3> QED
      BY Zenon, <1>2, <3>1, <3>2 DEF ResetGoesOn
  <2> QED
    BY Zenon, <2>1, <2>2 DEF RaceInv, InStep
<1> QED
  BY Zenon, <1>1, <1>2

LEMMA RaceInvStep ==
  TypeOK /\ RaceInv /\ [Next]_vars => RaceInv'
<1> SUFFICES ASSUME TypeOK, RaceInv, [Next]_vars PROVE RaceInv'
  OBVIOUS
<1>1. CASE \E q \in Queries : QueryStep(q)
  BY Zenon, <1>1, RaceInvQuery
<1>2. CASE \E r \in Resetters : ResetCounts(r) \/ ResetGoesOn(r)
  BY Zenon, <1>2, RaceInvReset
<1>3. CASE Tick \/ Ages \/ UNCHANGED vars
  <2>1. /\ UNCHANGED <<epoch, down, pc, task, raced, reset_pc>>
        /\ slot'.sender = slot.sender
    BY Zenon, <1>3 DEF Tick, Ages, vars, TypeOK, Slots
  <2> QED
    BY Zenon, <2>1 DEF RaceInv, InStep, OldPathNotShared, ResetAt
<1> QED
  BY Zenon, <1>1, <1>2, <1>3 DEF Next

\* What the comment on Upstream::epoch promises is true except through the two
\* windows in which query and connected_sender cannot see a reset.
THEOREM HoldsUnlessRacedHolds == Spec => []HoldsUnlessRaced
<1>1. Init => MarkInv /\ RaceInv
  BY SMTT(30) DEF Init, MarkInv, RaceInv, InStep, OldPathNotShared
<1>2. MarkInv /\ RaceInv => HoldsUnlessRaced
  BY Zenon DEF MarkInv, RaceInv, HoldsUnlessRaced, OldAttemptNeverMarks,
     MarkInDoubt, Undecided
<1> QED
  BY <1>1, <1>2, TypeInit, TypeStep, MarkInvStep, RaceInvStep, PTL DEF Spec
-----------------------------------------------------------------------------
(* The attempts a query makes, by its position and whether a reset stopped *)
(* one already.                                                            *)

OnWarm == {"warm_register", "warm_epoch", "warm", "warm_touch", "warm_retry",
           "warm_timeout"}
BeforeCold == {"cold_register", "cold_epoch"}

Spent(q) ==
  LET n == task[q].attempts
      stops == IF task[q].stop_on_reset THEN 0 ELSE 1
  IN  /\ pc[q] = "new" => n = 0
      /\ pc[q] \in OnWarm => n <= 1
      /\ pc[q] \in BeforeCold => n <= 1 + stops
      /\ n <= 2 + stops

AttemptsInv == \A q \in Queries : Spent(q)

\* A step that starts no attempt and is not stopped by a reset.
LEMMA SpentElsewhere ==
  ASSUME TypeOK, AttemptsInv, NEW q \in Queries, NEW from, NEW to,
         Goes(q, from, to), to # "new", to \in OnWarm => from \in OnWarm,
         to \in BeforeCold => from \in {"new"} \cup OnWarm \cup BeforeCold,
         task'[q].attempts = task[q].attempts,
         task'[q].stop_on_reset = task[q].stop_on_reset,
         \A p \in Queries \ {q} : task'[p] = task[p]
  PROVE  AttemptsInv'
<1>1. /\ pc[q] = from /\ pc'[q] = to
      /\ \A p \in Queries \ {q} : pc'[p] = pc[p]
  BY Zenon DEF Goes, TypeOK
<1>2. task[q].attempts \in Nat /\ task[q].stop_on_reset \in BOOLEAN
  BY Zenon DEF TypeOK, Tasks
<1>3. Spent(q)'
  <2> DEFINE n == task[q].attempts
             stops == IF task[q].stop_on_reset THEN 0 ELSE 1
  <2>1. /\ n \in Nat /\ stops \in Nat
        /\ from = "new" => n = 0
        /\ from \in OnWarm => n <= 1
        /\ from \in BeforeCold => n <= 1 + stops
        /\ n <= 2 + stops
    BY Zenon, <1>1, <1>2 DEF AttemptsInv, Spent
  <2>2. Spent(q)' <=> /\ to = "new" => n = 0
                      /\ to \in OnWarm => n <= 1
                      /\ to \in BeforeCold => n <= 1 + stops
                      /\ n <= 2 + stops
    BY Zenon, <1>1 DEF Spent
  <2> HIDE DEF n, stops
  <2>3. to \in BeforeCold => n <= 1 + stops
    BY <2>1
  <2> QED
    BY Zenon, <2>1, <2>2, <2>3
<1>4. ASSUME NEW p \in Queries \ {q} PROVE Spent(p)'
  BY Zenon, <1>1, <1>4 DEF AttemptsInv, Spent
<1> QED
  BY Zenon, <1>3, <1>4 DEF AttemptsInv

LEMMA AttemptsInvQuery ==
  ASSUME TypeOK, AttemptsInv, NEW q \in Queries, QueryStep(q)
  PROVE  AttemptsInv'
<1> USE DEF OnWarm, BeforeCold
<1>0. /\ task \in [Queries -> Tasks] /\ pc \in [Queries -> PCs]
      /\ task[q].attempts \in Nat /\ task[q].stop_on_reset \in BOOLEAN
  BY Zenon DEF TypeOK, Tasks, PCs
<1>1. CASE StartWarm(q)
  <2>1. /\ pc[q] = "new" /\ pc' = [pc EXCEPT ![q] = "warm_register"]
        /\ task'[q].attempts = task[q].attempts + 1
        /\ task'[q].stop_on_reset = task[q].stop_on_reset
        /\ \A p \in Queries \ {q} : task'[p] = task[p]
    BY <1>0, <1>1, SMTT(30) DEF StartWarm, Goes, Tasks
  <2>2. Spent(q)'
    <3>1. task[q].attempts = 0 /\ pc'[q] = "warm_register"
      BY Zenon, <1>0, <2>1 DEF AttemptsInv, Spent
    <3> QED BY <1>0, <2>1, <3>1 DEF Spent
  <2>3. ASSUME NEW p \in Queries \ {q} PROVE Spent(p)'
    <3>1. pc'[p] = pc[p] /\ task'[p] = task[p] /\ Spent(p)
      BY Zenon, <1>0, <2>1, <2>3 DEF AttemptsInv
    <3> QED BY Zenon, <3>1 DEF Spent
  <2> QED
    BY Zenon, <2>2, <2>3 DEF AttemptsInv
<1>2. CASE ColdEpoch(q)
  <2>1. /\ pc[q] = "cold_epoch"
        /\ pc' = [pc EXCEPT ![q] = "open"] \/ pc' = [pc EXCEPT ![q] = "lock"]
        /\ task'[q].attempts = task[q].attempts + 1
        /\ task'[q].stop_on_reset = task[q].stop_on_reset
        /\ \A p \in Queries \ {q} : task'[p] = task[p]
    BY <1>0, <1>2, SMTT(30) DEF ColdEpoch, Goes, Tasks
  <2>2. Spent(q)'
    <3>1. /\ task[q].attempts <= 1 + IF task[q].stop_on_reset THEN 0 ELSE 1
          /\ pc'[q] = "open" \/ pc'[q] = "lock"
      BY <1>0, <2>1, SMTT(30) DEF AttemptsInv, Spent
    <3> QED BY <1>0, <2>1, <3>1, SMTT(30) DEF Spent
  <2>3. ASSUME NEW p \in Queries \ {q} PROVE Spent(p)'
    <3>1. pc'[p] = pc[p] /\ task'[p] = task[p] /\ Spent(p)
      BY Zenon, <1>0, <2>1, <2>3 DEF AttemptsInv
    <3> QED BY Zenon, <3>1 DEF Spent
  <2> QED
    BY Zenon, <2>2, <2>3 DEF AttemptsInv
<1>3. CASE StoppedByReset(q)
  <2>1. /\ pc' = [pc EXCEPT ![q] = "cold_register"]
        /\ task[q].stop_on_reset /\ ~task'[q].stop_on_reset
        /\ task'[q].attempts = task[q].attempts
        /\ \A p \in Queries \ {q} : task'[p] = task[p]
    BY <1>0, <1>3, SMTT(30) DEF StoppedByReset, Goes, Tasks
  <2>2. Spent(q)'
    <3>1. task[q].attempts <= 2 /\ pc'[q] = "cold_register"
      BY <1>0, <2>1 DEF AttemptsInv, Spent
    <3> QED BY <1>0, <2>1, <3>1 DEF Spent
  <2>3. ASSUME NEW p \in Queries \ {q} PROVE Spent(p)'
    <3>1. pc'[p] = pc[p] /\ task'[p] = task[p] /\ Spent(p)
      BY Zenon, <1>0, <2>1, <2>3 DEF AttemptsInv
    <3> QED BY Zenon, <3>1 DEF Spent
  <2> QED
    BY Zenon, <2>2, <2>3 DEF AttemptsInv
<1>4. CASE WarmEpoch(q) \/ OpenShared(q) \/ ConnectEpoch(q) \/ Install(q)
           \/ MarkDown(q)
  <2>1. /\ task'[q].attempts = task[q].attempts
        /\ task'[q].stop_on_reset = task[q].stop_on_reset
        /\ \A p \in Queries \ {q} : task'[p] = task[p]
    BY <1>0, <1>4 DEF WarmEpoch, OpenShared, ConnectEpoch, Install, MarkDown,
       Tasks
  <2> QED
    BY Zenon,
       <1>4, <2>1, SpentElsewhere DEF WarmEpoch, OpenShared, ConnectEpoch,
       Install, MarkDown
<1>5. CASE \/ StartCold(q) \/ WarmRegister(q) \/ WarmAnswered(q)
           \/ WarmBreaks(q) \/ WarmTimesOut(q) \/ WarmDiscard(q) \/ Touch(q)
  BY Zenon, <1>5, SpentElsewhere DEF StartCold, WarmRegister, WarmAnswered,
     WarmBreaks, WarmTimesOut, WarmDiscard, Touch, Ends
<1>6. CASE \/ ColdRegister(q) \/ Lock(q) \/ OpenNone(q) \/ Connected(q)
           \/ CheckEpoch(q) \/ ColdAnswered(q) \/ ColdBreaks(q)
           \/ ColdTimesOut(q)
  BY Zenon, <1>6, SpentElsewhere DEF ColdRegister, Lock, OpenNone, Connected,
     CheckEpoch, ColdAnswered, ColdBreaks, ColdTimesOut, Ends
<1>7. CASE MarkUp(q) \/ Swap(q) \/ Recheck(q) \/ Undo(q)
  BY Zenon, <1>7, SpentElsewhere DEF MarkUp, Swap, Recheck, Undo
<1> QED
  BY Zenon, <1>1, <1>2, <1>3, <1>4, <1>5, <1>6, <1>7
     DEF QueryStep, Start, Warm, Cold, Marks

\* A query makes at most three attempts, however many resets there are
\* (Upstream::query, unless_reset).
THEOREM AttemptsBoundedHolds == Spec => []AttemptsBounded
<1>1. Init => AttemptsInv
  <2> SUFFICES ASSUME Init, NEW q \in Queries PROVE Spent(q)
    BY Zenon DEF AttemptsInv
  <2>1. task[q].attempts = 0 /\ task[q].stop_on_reset
    BY Zenon DEF Init
  <2> QED
    BY <2>1 DEF Spent
<1>2. TypeOK /\ AttemptsInv /\ [Next]_vars => AttemptsInv'
  <2> SUFFICES ASSUME TypeOK, AttemptsInv, [Next]_vars PROVE AttemptsInv'
    OBVIOUS
  <2>1. CASE \E q \in Queries : QueryStep(q)
    BY Zenon, <2>1, AttemptsInvQuery
  <2>2. CASE UNCHANGED <<pc, task>>
    BY Zenon, <2>2 DEF AttemptsInv, Spent
  <2> QED
    BY Zenon,
       <2>1, <2>2 DEF Next, ResetCounts, ResetGoesOn, ResetClears, ResetTakes,
       ResetNotifies, ResetGoes, Tick, Ages, vars
<1>3. TypeOK /\ AttemptsInv => AttemptsBounded
  <2> SUFFICES ASSUME TypeOK, AttemptsInv, NEW q \in Queries
               PROVE  task[q].attempts <= 3
    BY Zenon DEF AttemptsBounded
  <2>1. task[q].attempts \in Nat
    BY Zenon DEF TypeOK, Tasks
  <2> QED
    BY <2>1 DEF AttemptsInv, Spent
<1> QED
  BY <1>1, <1>2, <1>3, TypeInit, TypeStep, PTL DEF Spec

\* What resets leave true of an upstream, all of the above at once.
THEOREM ResetsHoldHolds == Spec => []ResetsHold
  BY TypeCorrect, NoStaleMarkHolds, HoldsUnlessRacedHolds,
     GenerationIdentifiesHolds, AttemptsBoundedHolds, PTL DEF ResetsHold
=============================================================================
