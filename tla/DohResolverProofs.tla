------------------------- MODULE DohResolverProofs -------------------------
(* Proofs about DohResolver: for every set of callers, every list of        *)
(* upstreams and every limit, a call fails only when every upstream was in  *)
(* trouble, and the resolver takes no step that ResolveService forbids.     *)
EXTENDS DohResolver, FiniteSetTheorems, TLAPS

(***************************************************************************)
(* The invariant.  A permit is either in the semaphore or held by a call   *)
(* that is running.  An upstream that a running call is not going to try   *)
(* any more was in trouble while it ran; what is in trouble now is noted.  *)
(***************************************************************************)

Running == {c \in Calls : pc[c] = "query"}

PermitsAccounted == in_flight + Cardinality(Running) = MAX_IN_FLIGHT

NotGood == {u \in Upstreams : link[u] # "good"}

TroubleNoted ==
  \A c \in Calls :
    /\ pc[c] = "query" => /\ NotGood \subseteq trouble[c]
                          /\ Upstreams \subseteq Range(todo[c]) \cup trouble[c]
    /\ pc[c] = "failed" => trouble[c] = Upstreams

Inv == TypeOK /\ PermitsAccounted /\ TroubleNoted
-----------------------------------------------------------------------------
(* Lemmas about the operators.                                             *)

LEMMA UpstreamsFinite == Cardinality(Upstreams) \in Nat
<1>1. Configured \in Seq(Range(Configured))
  BY ResolverAssumption, Zenon
<1>2. Len(Configured) \in Nat /\ DOMAIN Configured = 1 .. Len(Configured)
  BY <1>1
<1>3. IsFiniteSet(DOMAIN Configured)
  BY <1>2, FS_Interval
<1>4. Configured \in Surjection(DOMAIN Configured, Range(Configured))
  <2>1. Configured \in [DOMAIN Configured -> Range(Configured)]
    BY <1>1, <1>2
  <2> QED BY <2>1, Zenon DEF Surjection, Range
<1>5. IsFiniteSet(Range(Configured)) /\ Upstreams \subseteq Range(Configured)
  BY <1>3, <1>4, FS_Surjection, Zenon DEF Upstreams
<1> QED BY <1>5, FS_Subset, FS_CardinalityType, Zenon

\* What order returns has every upstream in it.
LEMMA OrderTriesAll ==
  ASSUME NEW seen, NEW s \in Orders(seen)
  PROVE  s \in Seq(Upstreams) /\ Range(s) = Upstreams
<1>1. s \in [1 .. Cardinality(Upstreams) -> Upstreams] /\ Range(s) = Upstreams
  BY Zenon DEF Orders
<1> QED BY <1>1, UpstreamsFinite

LEMMA HeadAndTail ==
  ASSUME NEW S, NEW s \in Seq(S), s # <<>>
  PROVE  /\ Head(s) \in S /\ Tail(s) \in Seq(S)
         /\ Range(s) \subseteq {Head(s)} \cup Range(Tail(s))
<1>1. Head(s) \in S /\ Tail(s) \in Seq(S)
  OBVIOUS
<1>2. ASSUME NEW i \in DOMAIN s
      PROVE  s[i] = Head(s) \/ \E j \in DOMAIN Tail(s) : Tail(s)[j] = s[i]
  <2>1. CASE i = 1
    BY <2>1
  <2>2. CASE i # 1
    <3>1. i - 1 \in DOMAIN Tail(s) /\ Tail(s)[i - 1] = s[i]
      BY <2>2
    <3> QED BY <3>1, Zenon
  <2> QED BY <2>1, <2>2, Zenon
<1> QED BY <1>1, <1>2, Zenon DEF Range

LEMMA Update ==
  ASSUME NEW S, NEW T, NEW f \in [S -> T], NEW x \in S, NEW v \in T, NEW g,
         g = [f EXCEPT ![x] = v]
  PROVE  g \in [S -> T] /\ g[x] = v /\ \A y \in S : y # x => g[y] = f[y]
OBVIOUS
-----------------------------------------------------------------------------
(* The permits.                                                            *)

LEMMA RunningFinite == IsFiniteSet(Running) /\ Cardinality(Running) \in Nat
<1>1. IsFiniteSet(Calls) /\ Running \subseteq Calls
  BY ResolverAssumption, Zenon DEF Running
<1> QED BY <1>1, FS_Subset, FS_CardinalityType, Zenon

LEMMA CallBegins ==
  ASSUME pc \in [Calls -> Positions], NEW c \in Calls, pc[c] # "query",
         pc' = [pc EXCEPT ![c] = "query"]
  PROVE  Cardinality(Running') = Cardinality(Running) + 1
<1>1. Running' = Running \cup {c} /\ c \notin Running
  BY Zenon DEF Running
<1> QED BY <1>1, RunningFinite, FS_AddElement, Zenon

LEMMA CallLeaves ==
  ASSUME pc \in [Calls -> Positions], NEW c \in Calls, pc[c] = "query",
         NEW to, to # "query", pc' = [pc EXCEPT ![c] = to]
  PROVE  Cardinality(Running') = Cardinality(Running) - 1
<1>1. Running' = Running \ {c} /\ c \in Running
  BY Zenon DEF Running
<1> QED BY <1>1, RunningFinite, FS_RemoveElement

LEMMA CallNotRunning ==
  ASSUME pc \in [Calls -> Positions], NEW c \in Calls, pc[c] # "query",
         NEW to, to # "query", pc' = [pc EXCEPT ![c] = to]
  PROVE  Running' = Running
BY Zenon DEF Running
-----------------------------------------------------------------------------
(* The steps.                                                              *)

LEMMA MarkedType ==
  ASSUME TypeOK, NEW u, NEW changed, MarkedUp(u) \/ QueryFails(u, changed)
  PROVE  mark' \in [Upstreams -> Marks]
BY DEF TypeOK, MarkedUp, QueryFails, Marks

\* The other upstreams and calls keep what they have; this call's trouble may
\* only grow while it runs.
LEMMA OthersKeep ==
  ASSUME TroubleNoted, NEW c \in Calls, link' = link,
         \A d \in Calls : d # c =>
           pc'[d] = pc[d] /\ todo'[d] = todo[d] /\ trouble'[d] = trouble[d],
         pc'[c] = "query" =>
           /\ NotGood \subseteq trouble'[c]
           /\ Upstreams \subseteq Range(todo'[c]) \cup trouble'[c],
         pc'[c] = "failed" => trouble'[c] = Upstreams
  PROVE  TroubleNoted'
<1>1. NotGood' = NotGood
  BY Zenon DEF NotGood
<1> QED BY <1>1, Zenon DEF TroubleNoted

LEMMA CallUnchanged ==
  ASSUME PermitsAccounted, TroubleNoted,
         UNCHANGED <<pc, todo, in_flight, link, trouble>>
  PROVE  PermitsAccounted' /\ TroubleNoted'
<1>1. Running' = Running /\ NotGood' = NotGood
  BY Zenon DEF Running, NotGood
<1> QED BY <1>1, Zenon DEF PermitsAccounted, TroubleNoted

LEMMA CallEndsIs ==
  ASSUME TypeOK, PermitsAccounted, NEW c \in Calls, pc[c] = "query",
         NEW to \in Positions, to # "query", CallEnds(c, to)
  PROVE  /\ PermitsAccounted'
         /\ pc' \in [Calls -> Positions] /\ pc'[c] = to
         /\ todo' \in [Calls -> Seq(Upstreams)]
         /\ path_changed' \in [Calls -> BOOLEAN]
         /\ in_flight' \in 0 .. MAX_IN_FLIGHT
         /\ \A d \in Calls : d # c => pc'[d] = pc[d] /\ todo'[d] = todo[d]
<1>0. /\ pc \in [Calls -> Positions] /\ todo \in [Calls -> Seq(Upstreams)]
      /\ path_changed \in [Calls -> BOOLEAN] /\ in_flight \in 0 .. MAX_IN_FLIGHT
  BY Zenon DEF TypeOK
<1>1. /\ pc' = [pc EXCEPT ![c] = to] /\ todo' = [todo EXCEPT ![c] = <<>>]
      /\ path_changed' = [path_changed EXCEPT ![c] = FALSE]
      /\ in_flight' = in_flight + 1
  BY Zenon DEF CallEnds
<1>2. Cardinality(Running') = Cardinality(Running) - 1
  BY <1>0, <1>1, CallLeaves, Zenon
<1>3. in_flight' + Cardinality(Running') = MAX_IN_FLIGHT
  BY <1>0, <1>1, <1>2, RunningFinite DEF PermitsAccounted
<1>4. Cardinality(Running') \in Nat
  <2>1. Running' \subseteq Calls /\ IsFiniteSet(Calls)
    BY ResolverAssumption, Zenon DEF Running
  <2> QED BY <2>1, FS_Subset, FS_CardinalityType, Zenon
<1>5. in_flight' \in 0 .. MAX_IN_FLIGHT
  BY <1>0, <1>1, <1>3, <1>4, ResolverAssumption
<1>6. <<>> \in Seq(Upstreams)
  OBVIOUS
<1>7. /\ pc' \in [Calls -> Positions] /\ pc'[c] = to
      /\ \A d \in Calls : d # c => pc'[d] = pc[d]
  BY <1>0, <1>1, Update, Zenon
<1>8. /\ todo' \in [Calls -> Seq(Upstreams)]
      /\ \A d \in Calls : d # c => todo'[d] = todo[d]
  BY <1>0, <1>1, <1>6, Update, Zenon
<1>9. path_changed' \in [Calls -> BOOLEAN]
  BY <1>0, <1>1, Update, Zenon
<1> QED BY <1>3, <1>5, <1>7, <1>8, <1>9, Zenon DEF PermitsAccounted

LEMMA BusyKeeps ==
  ASSUME Inv, NEW c \in Calls, Busy(c)
  PROVE  Inv'
<1>0. TypeOK /\ PermitsAccounted /\ TroubleNoted /\ pc \in [Calls -> Positions]
  BY Zenon DEF Inv, TypeOK
<1>1. /\ pc[c] # "query" /\ "busy" \in Positions
      /\ pc' = [pc EXCEPT ![c] = "busy"]
      /\ UNCHANGED <<todo, in_flight, link, trouble>>
  BY Zenon DEF Busy, Positions, upstream
<1>2. Running' = Running
  BY <1>0, <1>1, CallNotRunning, Zenon
<1>3. /\ pc' \in [Calls -> Positions] /\ pc'[c] = "busy"
      /\ \A d \in Calls : d # c => pc'[d] = pc[d]
  BY <1>0, <1>1, Update, Zenon
<1>4. TypeOK'
  BY <1>0, <1>3, Zenon DEF Busy, TypeOK, upstream
<1>5. TroubleNoted'
  BY <1>0, <1>1, <1>3, OthersKeep, Zenon
<1> QED BY <1>0, <1>1, <1>2, <1>4, <1>5, Zenon DEF Inv, PermitsAccounted

LEMMA ProbesType ==
  ASSUME TypeOK, NEW seen, StartProbes(seen)
  PROVE  probing' \in [Upstreams -> BOOLEAN] /\ probe' \in [Upstreams -> Nat]
<1> DEFINE due == {u \in Upstreams : health(u, seen) = "Due"}
<1>1. /\ probing' = [u \in Upstreams |-> probing[u] \/ u \in due]
      /\ probe' = [u \in Upstreams |-> IF u \in due THEN probe[u] + 1 ELSE probe[u]]
  BY Zenon DEF StartProbes
<1> HIDE DEF due
<1>2. probing' \in [Upstreams -> BOOLEAN]
  BY <1>1, Zenon
<1>3. probe' \in [Upstreams -> Nat]
  BY <1>1 DEF TypeOK
<1> QED BY <1>2, <1>3

LEMMA BeginKeeps ==
  ASSUME Inv, NEW c \in Calls, Begin(c)
  PROVE  Inv'
<1>0. /\ TypeOK /\ PermitsAccounted /\ TroubleNoted
      /\ pc \in [Calls -> Positions] /\ todo \in [Calls -> Seq(Upstreams)]
      /\ in_flight \in 0 .. MAX_IN_FLIGHT
      /\ trouble \in [Calls -> SUBSET Upstreams]
  BY Zenon DEF Inv, TypeOK
<1>1. /\ pc[c] # "query" /\ "query" \in Positions /\ in_flight > 0
      /\ in_flight' = in_flight - 1
      /\ pc' = [pc EXCEPT ![c] = "query"]
      /\ trouble' = [trouble EXCEPT ![c] = NotGood]
      /\ UNCHANGED <<path_changed, mark, probe_changed, link, to_reset, resets>>
  BY Zenon DEF Begin, Positions, NotGood
<1>2. PICK seen \in Seen : /\ \E s \in Orders(seen) : todo' = [todo EXCEPT ![c] = s]
                           /\ StartProbes(seen)
  BY Zenon DEF Begin
<1>3. PICK s \in Orders(seen) : todo' = [todo EXCEPT ![c] = s]
  BY <1>2, Zenon
<1>4. s \in Seq(Upstreams) /\ Range(s) = Upstreams
  BY <1>3, OrderTriesAll, Zenon
<1>5. /\ pc' \in [Calls -> Positions] /\ pc'[c] = "query"
      /\ \A d \in Calls : d # c => pc'[d] = pc[d]
  BY <1>0, <1>1, Update, Zenon
<1>6. /\ todo' \in [Calls -> Seq(Upstreams)] /\ todo'[c] = s
      /\ \A d \in Calls : d # c => todo'[d] = todo[d]
  BY <1>0, <1>3, <1>4, Update, Zenon
<1>7. /\ trouble' \in [Calls -> SUBSET Upstreams] /\ trouble'[c] = NotGood
      /\ \A d \in Calls : d # c => trouble'[d] = trouble[d]
  <2>1. NotGood \in SUBSET Upstreams
    BY Zenon DEF NotGood
  <2> QED BY <1>0, <1>1, <2>1, Update, Zenon
<1>8. in_flight' \in 0 .. MAX_IN_FLIGHT
  BY <1>0, <1>1, ResolverAssumption
<1>9. PermitsAccounted'
  <2>1. Cardinality(Running') = Cardinality(Running) + 1
    BY <1>0, <1>1, CallBegins, Zenon
  <2> QED BY <1>0, <1>1, <2>1, RunningFinite DEF PermitsAccounted
<1>10. TroubleNoted'
  BY <1>0, <1>1, <1>4, <1>5, <1>6, <1>7, OthersKeep, Zenon
<1>11. TypeOK'
  BY <1>0, <1>1, <1>2, <1>5, <1>6, <1>7, <1>8, ProbesType, Zenon DEF TypeOK
<1> QED BY <1>9, <1>10, <1>11, Zenon DEF Inv

LEMMA CallEndsKeeps ==
  ASSUME Inv, NEW c \in Calls, pc[c] = "query", NEW to \in Positions,
         to # "query", CallEnds(c, to),
         \/ to # "failed" /\ trouble' = [trouble EXCEPT ![c] = {}]
         \/ to = "failed" /\ trouble' = trouble /\ trouble[c] = Upstreams,
         mark' \in [Upstreams -> Marks],
         UNCHANGED <<probing, probe, probe_changed, link, to_reset, resets>>
  PROVE  Inv'
<1>0. /\ TypeOK /\ PermitsAccounted /\ TroubleNoted
      /\ trouble \in [Calls -> SUBSET Upstreams]
  BY Zenon DEF Inv, TypeOK
<1>1. /\ PermitsAccounted'
      /\ pc' \in [Calls -> Positions] /\ pc'[c] = to
      /\ todo' \in [Calls -> Seq(Upstreams)]
      /\ path_changed' \in [Calls -> BOOLEAN]
      /\ in_flight' \in 0 .. MAX_IN_FLIGHT
      /\ \A d \in Calls : d # c => pc'[d] = pc[d] /\ todo'[d] = todo[d]
  BY <1>0, CallEndsIs, Zenon
<1>2. /\ trouble' \in [Calls -> SUBSET Upstreams]
      /\ to = "failed" => trouble'[c] = Upstreams
      /\ \A d \in Calls : d # c => trouble'[d] = trouble[d]
  <2>1. {} \in SUBSET Upstreams
    OBVIOUS
  <2>2. CASE trouble' = [trouble EXCEPT ![c] = {}] /\ to # "failed"
    BY <1>0, <2>1, <2>2, Update, Zenon
  <2>3. CASE to = "failed" /\ trouble' = trouble /\ trouble[c] = Upstreams
    BY <1>0, <2>3, Zenon
  <2> QED BY <2>2, <2>3, Zenon
<1>3. TroubleNoted'
  BY <1>0, <1>1, <1>2, OthersKeep, Zenon
<1>4. TypeOK'
  BY <1>0, <1>1, <1>2, Zenon DEF TypeOK
<1> QED BY <1>1, <1>3, <1>4, Zenon DEF Inv

LEMMA AnsweredKeeps ==
  ASSUME Inv, NEW c \in Calls, Answered(c)
  PROVE  Inv'
<1>1. mark' \in [Upstreams -> Marks]
  BY MarkedType, Zenon DEF Inv, Answered
<1>2. "answered" \in Positions
  BY Zenon DEF Positions
<1> QED BY <1>1, <1>2, CallEndsKeeps, Zenon DEF Answered

LEMMA FailedKeeps ==
  ASSUME Inv, NEW c \in Calls, Failed(c)
  PROVE  Inv'
<1>1. pc[c] = "query" /\ todo[c] = <<>> /\ trouble' = trouble
  BY Zenon DEF Failed
<1>2. Range(<<>>) = {}
  BY DEF Range
<1>3. trouble[c] = Upstreams
  <2>1. trouble[c] \subseteq Upstreams
    BY Zenon DEF Inv, TypeOK
  <2> QED BY <1>1, <1>2, <2>1, Zenon DEF Inv, TroubleNoted
<1>4. mark' \in [Upstreams -> Marks] /\ "failed" \in Positions
  BY Zenon DEF Inv, TypeOK, Failed, upstream, Positions
<1> QED BY <1>1, <1>3, <1>4, CallEndsKeeps, Zenon DEF Failed, upstream

LEMMA CancelKeeps ==
  ASSUME Inv, NEW c \in Calls, Cancel(c)
  PROVE  Inv'
<1>1. mark' \in [Upstreams -> Marks] /\ "idle" \in Positions
  BY Zenon DEF Inv, TypeOK, Cancel, upstream, Positions
<1> QED BY <1>1, CallEndsKeeps, Zenon DEF Cancel, upstream

LEMMA TryNextKeeps ==
  ASSUME Inv, NEW c \in Calls, TryNext(c)
  PROVE  Inv'
<1>0. /\ TypeOK /\ PermitsAccounted /\ TroubleNoted
      /\ todo \in [Calls -> Seq(Upstreams)] /\ path_changed \in [Calls -> BOOLEAN]
      /\ trouble \in [Calls -> SUBSET Upstreams]
  BY Zenon DEF Inv, TypeOK
<1>1. /\ pc[c] = "query" /\ todo[c] # <<>>
      /\ QueryFails(Head(todo[c]), path_changed[c])
      /\ todo' = [todo EXCEPT ![c] = Tail(todo[c])]
      /\ path_changed' = [path_changed EXCEPT ![c] = FALSE]
      /\ UNCHANGED <<pc, in_flight, probing, probe, probe_changed, link, to_reset, resets>>
  BY Zenon DEF TryNext
<1>2. /\ Head(todo[c]) \in Upstreams /\ Tail(todo[c]) \in Seq(Upstreams)
      /\ Range(todo[c]) \subseteq {Head(todo[c])} \cup Range(Tail(todo[c]))
  <2>1. todo[c] \in Seq(Upstreams)
    BY <1>0, Zenon
  <2> QED BY <1>1, <2>1, HeadAndTail, Zenon
<1>3. /\ todo' \in [Calls -> Seq(Upstreams)] /\ todo'[c] = Tail(todo[c])
      /\ \A d \in Calls : d # c => todo'[d] = todo[d]
  BY <1>0, <1>1, <1>2, Update, Zenon
<1>4. path_changed' \in [Calls -> BOOLEAN]
  BY <1>0, <1>1, Update, Zenon
<1>5. mark' \in [Upstreams -> Marks]
  BY <1>0, <1>1, MarkedType, Zenon
<1>6. PICK noted : noted = IF path_changed[c] THEN trouble[c] \cup {Head(todo[c])}
                                             ELSE trouble[c]
  BY Zenon
<1>7. /\ noted \in SUBSET Upstreams /\ trouble[c] \subseteq noted
      /\ Head(todo[c]) \in noted
  <2>1. trouble[c] \in SUBSET Upstreams
    BY <1>0, Zenon
  <2>2. path_changed[c] \/ link[Head(todo[c])] # "good"
    BY <1>1, Zenon DEF QueryFails
  <2>3. link[Head(todo[c])] # "good" => Head(todo[c]) \in trouble[c]
    BY <1>0, <1>1, <1>2, Zenon DEF TroubleNoted, NotGood
  <2> QED BY <1>2, <1>6, <2>1, <2>2, <2>3, Zenon
<1>8. /\ trouble' \in [Calls -> SUBSET Upstreams] /\ trouble'[c] = noted
      /\ \A d \in Calls : d # c => trouble'[d] = trouble[d]
  <2>1. trouble' = [trouble EXCEPT ![c] = noted]
    BY <1>6, Zenon DEF TryNext
  <2> QED BY <1>0, <1>7, <2>1, Update, Zenon
<1>9. TroubleNoted'
  <2>1. Upstreams \subseteq Range(todo'[c]) \cup trouble'[c]
    BY <1>0, <1>1, <1>2, <1>3, <1>7, <1>8, Zenon DEF TroubleNoted
  <2>2. NotGood \subseteq trouble'[c]
    BY <1>0, <1>1, <1>7, <1>8, Zenon DEF TroubleNoted
  <2> QED BY <1>0, <1>1, <1>3, <1>8, <2>1, <2>2, OthersKeep, Zenon
<1>10. PermitsAccounted'
  <2>1. Running' = Running
    BY <1>1, Zenon DEF Running
  <2> QED BY <1>0, <1>1, <2>1, Zenon DEF PermitsAccounted
<1>11. TypeOK'
  BY <1>0, <1>1, <1>3, <1>4, <1>5, <1>8, Zenon DEF TypeOK
<1> QED BY <1>9, <1>10, <1>11, Zenon DEF Inv

LEMMA ReturnKeeps ==
  ASSUME Inv, NEW c \in Calls, Return(c)
  PROVE  Inv'
<1>0. /\ TypeOK /\ PermitsAccounted /\ TroubleNoted /\ pc \in [Calls -> Positions]
      /\ trouble \in [Calls -> SUBSET Upstreams]
  BY Zenon DEF Inv, TypeOK
<1>1. /\ pc[c] # "query" /\ "idle" \in Positions /\ {} \in SUBSET Upstreams
      /\ pc' = [pc EXCEPT ![c] = "idle"]
      /\ trouble' = [trouble EXCEPT ![c] = {}]
      /\ UNCHANGED <<todo, in_flight, link>>
  BY Zenon DEF Return, Positions, upstream
<1>2. Running' = Running
  BY <1>0, <1>1, CallNotRunning, Zenon
<1>3. /\ pc' \in [Calls -> Positions] /\ pc'[c] = "idle"
      /\ \A d \in Calls : d # c => pc'[d] = pc[d]
  BY <1>0, <1>1, Update, Zenon
<1>4. /\ trouble' \in [Calls -> SUBSET Upstreams]
      /\ \A d \in Calls : d # c => trouble'[d] = trouble[d]
  BY <1>0, <1>1, Update, Zenon
<1>5. TypeOK'
  BY <1>0, <1>3, <1>4, Zenon DEF Return, TypeOK, upstream
<1>6. TroubleNoted'
  BY <1>0, <1>1, <1>3, <1>4, OthersKeep, Zenon
<1> QED BY <1>0, <1>1, <1>2, <1>5, <1>6, Zenon DEF Inv, PermitsAccounted

LEMMA ProbeEndsKeeps ==
  ASSUME Inv, NEW u \in Upstreams, ProbeEnds(u)
  PROVE  Inv'
<1>0. TypeOK /\ PermitsAccounted /\ TroubleNoted
  BY Zenon DEF Inv
<1>1. mark' \in [Upstreams -> Marks]
  BY <1>0, MarkedType, Zenon DEF ProbeEnds
<1>2. /\ probe' \in [Upstreams -> Nat] /\ probing' \in [Upstreams -> BOOLEAN]
      /\ probe_changed' \in [Upstreams -> BOOLEAN]
  BY <1>0 DEF ProbeEnds, TypeOK
<1>3. UNCHANGED <<calls, to_reset, resets, link, trouble>>
  BY Zenon DEF ProbeEnds
<1>4. TypeOK'
  BY <1>0, <1>1, <1>2, <1>3, Zenon DEF TypeOK, calls
<1> QED BY <1>0, <1>3, <1>4, CallUnchanged, Zenon DEF Inv, calls

LEMMA ExpireKeeps ==
  ASSUME Inv, NEW u \in Upstreams, Expire(u)
  PROVE  Inv'
<1>0. TypeOK /\ PermitsAccounted /\ TroubleNoted
  BY Zenon DEF Inv
<1>1. mark' \in [Upstreams -> Marks]
  <2>1. "due" \in Marks /\ mark \in [Upstreams -> Marks]
    BY <1>0, Zenon DEF Marks, TypeOK
  <2> QED BY <2>1, Update, Zenon DEF Expire
<1>2. TypeOK'
  BY <1>0, <1>1, Zenon DEF Expire, TypeOK, calls
<1> QED BY <1>0, <1>2, CallUnchanged, Zenon DEF Inv, Expire, calls

LEMMA LinkChangesKeeps ==
  ASSUME Inv, NEW u \in Upstreams, LinkChanges(u)
  PROVE  Inv'
<1> DEFINE noted == [c \in Calls |->
             IF pc[c] = "query" /\ link'[u] # "good"
               THEN trouble[c] \cup {u} ELSE trouble[c]]
<1>0. /\ TypeOK /\ PermitsAccounted /\ TroubleNoted
      /\ link \in [Upstreams -> {"good", "unusable", "dead"}]
      /\ trouble \in [Calls -> SUBSET Upstreams]
  BY Zenon DEF Inv, TypeOK
<1>1. PICK to \in {"good", "unusable", "dead"} : link' = [link EXCEPT ![u] = to]
  BY Zenon DEF LinkChanges
<1>2. trouble' = noted /\ UNCHANGED <<calls, mark, probing, probe, probe_changed, to_reset, resets>>
  BY Zenon DEF LinkChanges
<1>3. /\ link' \in [Upstreams -> {"good", "unusable", "dead"}]
      /\ \A v \in Upstreams : v # u => link'[v] = link[v]
  BY <1>0, <1>1, Update, Zenon
<1>4. ASSUME NEW c \in Calls
      PROVE  /\ trouble'[c] \subseteq Upstreams /\ trouble[c] \subseteq trouble'[c]
             /\ pc[c] # "query" => trouble'[c] = trouble[c]
             /\ pc[c] = "query" /\ link'[u] # "good" => u \in trouble'[c]
  BY <1>0, <1>2, Zenon
<1>5. trouble' \in [Calls -> SUBSET Upstreams]
  BY <1>2, <1>4, Zenon
<1>6. TroubleNoted'
  <2>1. pc' = pc /\ todo' = todo
    BY <1>2, Zenon DEF calls
  <2>2. ASSUME NEW c \in Calls, pc[c] = "query"
        PROVE  NotGood' \subseteq trouble'[c]
    BY <1>0, <1>3, <1>4, <2>2, Zenon DEF TroubleNoted, NotGood
  <2> QED BY <1>0, <1>4, <2>1, <2>2, Zenon DEF TroubleNoted
<1>7. PermitsAccounted'
  <2>1. Running' = Running
    BY <1>2, Zenon DEF Running, calls
  <2> QED BY <1>0, <1>2, <2>1, Zenon DEF PermitsAccounted, calls
<1>8. TypeOK'
  BY <1>0, <1>2, <1>3, <1>5, Zenon DEF TypeOK, calls
<1> QED BY <1>6, <1>7, <1>8, Zenon DEF Inv

LEMMA ResetKeeps ==
  ASSUME Inv, StartReset \/ ResetOne
  PROVE  Inv'
<1>0. TypeOK /\ PermitsAccounted /\ TroubleNoted
  BY Zenon DEF Inv
<1>1. CASE StartReset
  <2>1. resets' \in 0 .. MaxResets /\ to_reset' \subseteq Upstreams
    BY <1>0, <1>1, ResolverAssumption DEF StartReset, TypeOK
  <2>2. TypeOK'
    BY <1>0, <1>1, <2>1, Zenon DEF StartReset, TypeOK, calls
  <2> QED BY <1>0, <1>1, <2>2, CallUnchanged, Zenon DEF Inv, StartReset, calls
<1>2. CASE ResetOne
  <2>0. PICK u \in to_reset :
          /\ to_reset' = to_reset \ {u}
          /\ mark' = [mark EXCEPT ![u] = "up"]
          /\ path_changed' = [c \in Calls |->
               path_changed[c] \/
                 (pc[c] = "query" /\ todo[c] # <<>> /\ Head(todo[c]) = u)]
          /\ probe_changed' = [probe_changed EXCEPT ![u] = probe[u] > 0]
    BY <1>2, Zenon DEF ResetOne
  <2>1. to_reset' \subseteq Upstreams /\ u \in Upstreams
    BY <1>0, <2>0, Zenon DEF TypeOK
  <2>2. mark' \in [Upstreams -> Marks]
    <3>1. "up" \in Marks /\ mark \in [Upstreams -> Marks]
      BY <1>0, Zenon DEF Marks, TypeOK
    <3> QED BY <2>0, <2>1, <3>1, Update, Zenon
  <2>3. path_changed' \in [Calls -> BOOLEAN]
    BY <2>0, Zenon
  <2>4. probe_changed' \in [Upstreams -> BOOLEAN]
    <3>1. probe_changed \in [Upstreams -> BOOLEAN] /\ (probe[u] > 0) \in BOOLEAN
      BY <1>0, <2>1 DEF TypeOK
    <3> QED BY <2>0, <2>1, <3>1, Update, Zenon
  <2>5. TypeOK'
    BY <1>0, <1>2, <2>1, <2>2, <2>3, <2>4, Zenon DEF ResetOne, TypeOK
  <2> QED BY <1>0, <1>2, <2>5, CallUnchanged, Zenon DEF Inv, ResetOne
<1> QED BY <1>1, <1>2, Zenon
-----------------------------------------------------------------------------
(* The theorems.                                                           *)

LEMMA InvInit ==
  ASSUME Init
  PROVE  Inv
<1>1. TypeOK
  BY ResolverAssumption DEF Init, TypeOK, Positions, Marks
<1>2. PermitsAccounted
  <2>1. Running = {}
    BY Zenon DEF Init, Running
  <2>2. Cardinality(Running) = 0
    BY <2>1, FS_EmptySet, Zenon
  <2> QED BY <2>2, ResolverAssumption DEF PermitsAccounted, Init
<1>3. TroubleNoted
  BY Zenon DEF Init, TroubleNoted
<1> QED BY <1>1, <1>2, <1>3, Zenon DEF Inv

LEMMA InvStep ==
  ASSUME Inv, [Next]_vars
  PROVE  Inv'
<1>1. ASSUME NEW c \in Calls, Busy(c) \/ Begin(c) \/ Resolve(c) \/ Cancel(c) \/ Return(c)
      PROVE  Inv'
  BY <1>1, BusyKeeps, BeginKeeps, AnsweredKeeps, TryNextKeeps, FailedKeeps,
     CancelKeeps, ReturnKeeps, Zenon DEF Resolve
<1>2. ASSUME NEW u \in Upstreams, ProbeEnds(u) \/ Expire(u) \/ LinkChanges(u)
      PROVE  Inv'
  BY <1>2, ProbeEndsKeeps, ExpireKeeps, LinkChangesKeeps, Zenon
<1>3. CASE StartReset \/ ResetOne
  BY <1>3, ResetKeeps, Zenon
<1>4. CASE UNCHANGED vars
  <2>1. TypeOK'
    BY <1>4, Zenon DEF Inv, TypeOK, vars, calls, upstream
  <2> QED BY <1>4, <2>1, CallUnchanged, Zenon DEF Inv, vars, calls, upstream
<1> QED BY <1>1, <1>2, <1>3, <1>4, Zenon DEF Next

\* DohResolver::resolve and order: a call fails only after every upstream was
\* in trouble at some time during it, however marks, probes and resets fall;
\* for any number of calls, upstreams and permits.
THEOREM FailsOnlyIfAllFailHolds == Spec => []FailsOnlyIfAllFail
<1>1. Init => Inv
  BY InvInit
<1>2. Inv /\ [Next]_vars => Inv'
  BY InvStep
<1>3. Inv => FailsOnlyIfAllFail
  BY Zenon DEF Inv, TroubleNoted, FailsOnlyIfAllFail
<1> QED BY <1>1, <1>2, <1>3, PTL DEF Spec
-----------------------------------------------------------------------------
(* The refinement.                                                         *)

Served == [c \in Calls |-> IF pc[c] = "query" THEN "running" ELSE pc[c]]

LEMMA ServedBecomes ==
  ASSUME pc \in [Calls -> Positions], NEW c \in Calls, NEW to,
         pc' = [pc EXCEPT ![c] = to]
  PROVE  Served' = [Served EXCEPT ![c] = IF to = "query" THEN "running" ELSE to]
<1>1. Served' = [d \in Calls |-> IF pc'[d] = "query" THEN "running" ELSE pc'[d]]
  BY Zenon DEF Served
<1> QED BY <1>1 DEF Served

LEMMA ServedRunning ==
  ASSUME pc \in [Calls -> Positions]
  PROVE  {c \in Calls : Served[c] = "running"} = Running
<1>1. \A c \in Calls : Served[c] = "running" <=> pc[c] = "query"
  BY DEF Served, Positions
<1> QED BY <1>1, Zenon DEF Running

LEMMA ServiceInit ==
  ASSUME Init
  PROVE  service!Init
BY Zenon DEF Init, service!Init

LEMMA ServiceStep ==
  ASSUME Inv, [Next]_vars
  PROVE  [service!Next]_Served
<1>0. /\ pc \in [Calls -> Positions] /\ in_flight \in 0 .. MAX_IN_FLIGHT
      /\ in_flight + Cardinality(Running) = MAX_IN_FLIGHT
  BY Zenon DEF Inv, TypeOK, PermitsAccounted
<1>1. service!Cardinality(service!Running) = Cardinality(Running)
  <2>1. service!Running = Running
    BY <1>0, ServedRunning, Zenon DEF service!Running, Served
  <2>2. \A S : service!Cardinality(S) = Cardinality(S)
    BY DEF service!Cardinality, Cardinality
  <2> QED BY <2>1, <2>2, Zenon
<1>2. ASSUME NEW c \in Calls, Busy(c)
      PROVE  service!Refuse(c)
  <2>1. Cardinality(Running) = MAX_IN_FLIGHT
    BY <1>0, <1>2, RunningFinite, ResolverAssumption DEF Busy
  <2>2. Served' = [Served EXCEPT ![c] = "busy"] /\ Served[c] = "idle"
    BY <1>0, <1>2, ServedBecomes, Zenon DEF Busy, Served
  <2> QED BY <1>1, <2>1, <2>2, Zenon DEF service!Refuse, service!Becomes, Served
<1>3. ASSUME NEW c \in Calls, Begin(c)
      PROVE  service!Begin(c)
  <2>1. Cardinality(Running) < MAX_IN_FLIGHT
    BY <1>0, <1>3, RunningFinite, ResolverAssumption DEF Begin
  <2>2. Served' = [Served EXCEPT ![c] = "running"] /\ Served[c] = "idle"
    BY <1>0, <1>3, ServedBecomes, Zenon DEF Begin, Served
  <2> QED BY <1>1, <2>1, <2>2, Zenon DEF service!Begin, service!Becomes, Served
<1>4. ASSUME NEW c \in Calls, Answered(c) \/ Failed(c)
      PROVE  service!End(c)
  <2>1. PICK to \in {"answered", "failed"} : pc' = [pc EXCEPT ![c] = to]
    BY <1>4, Zenon DEF Answered, Failed, CallEnds
  <2>2. Served' = [Served EXCEPT ![c] = to] /\ Served[c] = "running"
    BY <1>0, <1>4, <2>1, ServedBecomes, Zenon DEF Answered, Failed, Served
  <2> QED BY <2>1, <2>2, Zenon
          DEF service!End, service!Outcomes, service!Becomes, Served
<1>5. ASSUME NEW c \in Calls, Cancel(c)
      PROVE  service!Drop(c)
  <2>1. Served' = [Served EXCEPT ![c] = "idle"] /\ Served[c] = "running"
    BY <1>0, <1>5, ServedBecomes, Zenon DEF Cancel, CallEnds, Served
  <2> QED BY <2>1, Zenon DEF service!Drop, service!Becomes, Served
<1>6. ASSUME NEW c \in Calls, Return(c)
      PROVE  service!Return(c)
  <2>1. PICK from \in {"answered", "failed", "busy"} : pc[c] = from
    BY <1>6, Zenon DEF Return
  <2>2. Served' = [Served EXCEPT ![c] = "idle"] /\ Served[c] = from
    BY <1>0, <1>6, <2>1, ServedBecomes, Zenon DEF Return, Served
  <2>3. from \in service!States \ {"idle", "running"}
    BY <2>1, Zenon DEF service!States, service!Outcomes
  <2> QED BY <2>2, <2>3, Zenon DEF service!Return, service!Becomes, Served
<1>7. CASE pc' = pc
  BY <1>7, Zenon DEF Served
<1>8. \/ pc' = pc
      \/ \E c \in Calls : \/ Busy(c) \/ Begin(c) \/ Answered(c) \/ Failed(c)
                          \/ Cancel(c) \/ Return(c)
  BY Zenon DEF Next, Resolve, TryNext, ProbeEnds, Expire, LinkChanges, StartReset,
     ResetOne, vars, calls
<1> QED BY <1>2, <1>3, <1>4, <1>5, <1>6, <1>7, <1>8, Zenon DEF service!Next

\* DohResolver::resolve keeps the safety part of ResolveService: it never runs
\* more than MAX_IN_FLIGHT calls, refuses one only when that many run, and every
\* call goes from idle through running to one outcome.  That a call ends is
\* model-checked (ImplementsService).
THEOREM ImplementsServiceSafely == Spec => service!Safe
<1>1. Init => Inv /\ service!Init
  BY InvInit, ServiceInit
<1>2. Inv /\ [Next]_vars => Inv'
  BY InvStep
<1>3. Inv /\ [Next]_vars => [service!Next]_Served
  BY ServiceStep
<1>4. Spec => [][service!Next]_Served
  BY <1>1, <1>2, <1>3, PTL DEF Spec
<1>5. Spec => service!Init
  BY <1>1, PTL DEF Spec
<1> QED BY <1>4, <1>5, PTL DEF service!Safe, Served
=============================================================================
