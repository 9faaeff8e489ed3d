---------------------- MODULE ClientConnectionsProofs ----------------------
(* Proofs about ClientConnections: for every set of connections, all limits *)
(* and all durations, no permit is lost or given twice.                     *)
EXTENDS ClientConnections, FiniteSetTheorems, TLAPS

(***************************************************************************)
(* The invariant.  SlotsAccounted holds because a connection is in a queue *)
(* once at most, only a connection that is past its wait holds a permit,   *)
(* and the connection a waiting one asked is open and marked, so that it   *)
(* is not picked again until it ends.                                      *)
(***************************************************************************)

Stages == {"new", "waits", "hello", "handshake", "open", "tunnel", "uncertified"}

Types ==
  /\ stage \in [Conns -> Stages]
  /\ slot \in [Conns -> Kinds \cup {none}]
  /\ free \in [Kinds -> Nat]
  /\ queue \in [Kinds -> Seq(Conns)]
  /\ left \in [Conns -> Nat]
  /\ look \in [Conns -> BOOLEAN]
  /\ asked \in [Conns -> Conns \cup {none}]
  /\ activity \in [Conns -> Activities]

\* The queues Q hold nobody twice.
Distinct(Q) ==
  \A k, l \in Kinds : \A i \in DOMAIN Q[k], j \in DOMAIN Q[l] :
    Q[k][i] = Q[l][j] => k = l /\ i = j

Queued(Q, c) == \E k \in Kinds : \E i \in DOMAIN Q[k] : Q[k][i] = c

QueuesInv == Distinct(queue) /\ \A c \in Conns : Queued(queue, c) <=> stage[c] = "waits"

QuietInv == \A c \in Conns : stage[c] # "open" => activity[c] = NewActivity

WaitsInv ==
  \A c \in Conns :
    /\ stage[c] # "waits" => asked[c] = none /\ left[c] = 0 /\ ~look[c]
    /\ look[c] => left[c] > 0

HeldAt(k) == {c \in Conns : slot[c] = k}

OwnersInv ==
  \A c \in Conns : slot[c] # none => stage[c] \in {"handshake", "open", "tunnel"}

CountsInv == \A k \in Kinds : free[k] + Cardinality(HeldAt(k)) = max_permits(k)

FreeInv == \A k \in Kinds : queue[k] # <<>> => free[k] = 0

AskedInv ==
  /\ \A c, d \in Conns : asked[c] # none /\ asked[c] = asked[d] => c = d
  /\ \A c \in Conns : asked[c] # none =>
       stage[asked[c]] = "open" /\ activity[asked[c]].close_requested

Inv ==
  /\ Types /\ QueuesInv /\ QuietInv /\ WaitsInv
  /\ OwnersInv /\ CountsInv /\ FreeInv /\ AskedInv
-----------------------------------------------------------------------------
(* Lemmas about the operators.                                             *)

LEMMA Update ==
  ASSUME NEW S, NEW T, NEW f \in [S -> T], NEW x \in S, NEW v \in T, NEW g,
         g = [f EXCEPT ![x] = v]
  PROVE  g \in [S -> T] /\ g[x] = v /\ \A y \in S : y # x => g[y] = f[y]
OBVIOUS

LEMMA Bounds ==
  idle_timeout \in Nat /\ MaxLate \in Nat /\ CLOSE_GRACE \in Nat /\ 0 \in 0..idle_timeout
<1>1. idle_timeout \in Nat /\ MaxLate \in Nat /\ CLOSE_GRACE \in Nat
  BY Durations, Zenon
<1> QED BY <1>1

LEMMA InvImplies ==
  ASSUME Inv
  PROVE  SlotsAccounted
<1>1. \A c \in Conns : (\E k \in Kinds : c \in Range(queue[k])) <=> Queued(queue, c)
  BY Zenon DEF Range, Queued
<1>2. TypeOK
  BY <1>1, Zenon DEF Inv, Types, QueuesInv, QuietInv, WaitsInv, TypeOK, Stages
<1> QED BY <1>2, Zenon DEF Inv, CountsInv, FreeInv, AskedInv, SlotsAccounted, HeldAt

\* A queue that gets one more at its end.
LEMMA Enqueued ==
  ASSUME NEW Q \in [Kinds -> Seq(Conns)], NEW k \in Kinds, NEW c \in Conns,
         Distinct(Q), ~Queued(Q, c), NEW q, q = Append(Q[k], c),
         NEW R, R = [Q EXCEPT ![k] = q]
  PROVE  /\ R \in [Kinds -> Seq(Conns)] /\ Distinct(R)
         /\ \A x : Queued(R, x) <=> Queued(Q, x) \/ x = c
<1>1. Q[k] \in Seq(Conns)
  BY Zenon
<1>2. /\ Append(Q[k], c) \in Seq(Conns)
      /\ \E n : /\ n \notin DOMAIN Q[k]
                /\ DOMAIN Append(Q[k], c) = DOMAIN Q[k] \cup {n}
                /\ Append(Q[k], c)[n] = c
                /\ \A i \in DOMAIN Q[k] : Append(Q[k], c)[i] = Q[k][i]
  <2>1. /\ Append(Q[k], c) \in Seq(Conns)
        /\ Len(Q[k]) + 1 \notin DOMAIN Q[k]
        /\ DOMAIN Append(Q[k], c) = DOMAIN Q[k] \cup {Len(Q[k]) + 1}
        /\ Append(Q[k], c)[Len(Q[k]) + 1] = c
        /\ \A i \in DOMAIN Q[k] : Append(Q[k], c)[i] = Q[k][i]
    BY <1>1
  <2> QED BY <2>1, Zenon
<1>3. PICK n : /\ n \notin DOMAIN Q[k]
               /\ DOMAIN Append(Q[k], c) = DOMAIN Q[k] \cup {n}
               /\ Append(Q[k], c)[n] = c
               /\ \A i \in DOMAIN Q[k] : Append(Q[k], c)[i] = Q[k][i]
  BY <1>2, Zenon
<1>4. /\ R \in [Kinds -> Seq(Conns)] /\ R[k] = Append(Q[k], c)
      /\ \A l \in Kinds : l # k => R[l] = Q[l]
  BY <1>2, Update, Zenon
<1>5. \A l \in Kinds : \A i \in DOMAIN R[l] :
        \/ l = k /\ i = n /\ R[l][i] = c
        \/ i \in DOMAIN Q[l] /\ R[l][i] = Q[l][i]
  BY <1>3, <1>4, Zenon
<1>6. Distinct(R)
  <2> SUFFICES ASSUME NEW l \in Kinds, NEW m \in Kinds, NEW i \in DOMAIN R[l],
                      NEW j \in DOMAIN R[m], R[l][i] = R[m][j]
               PROVE  l = m /\ i = j
    BY Zenon DEF Distinct
  <2>1. \/ l = k /\ i = n /\ R[l][i] = c
        \/ i \in DOMAIN Q[l] /\ R[l][i] = Q[l][i]
    BY <1>5, Zenon
  <2>2. \/ m = k /\ j = n /\ R[m][j] = c
        \/ j \in DOMAIN Q[m] /\ R[m][j] = Q[m][j]
    BY <1>5, Zenon
  <2>3. ASSUME NEW p \in Kinds, NEW a \in DOMAIN Q[p]
        PROVE  Q[p][a] # c
    BY Zenon DEF Queued
  <2>4. CASE i \in DOMAIN Q[l] /\ R[l][i] = Q[l][i]
    <3>1. R[m][j] # c
      BY <2>3, <2>4
    <3>2. j \in DOMAIN Q[m] /\ R[m][j] = Q[m][j]
      BY <2>2, <3>1, Zenon
    <3>3. Q[l][i] = Q[m][j]
      BY <2>4, <3>2
    <3> QED BY <2>4, <3>2, <3>3 DEF Distinct
  <2>5. CASE l = k /\ i = n /\ R[l][i] = c
    <3>1. ~(j \in DOMAIN Q[m] /\ R[m][j] = Q[m][j])
      BY <2>3, <2>5
    <3> QED BY <2>2, <2>5, <3>1, Zenon
  <2> QED BY <2>1, <2>4, <2>5, Zenon
<1>7. \A x : Queued(R, x) => Queued(Q, x) \/ x = c
  BY <1>5 DEF Queued
<1>8. \A l \in Kinds : \A i \in DOMAIN Q[l] : i \in DOMAIN R[l] /\ R[l][i] = Q[l][i]
  BY <1>3, <1>4, Zenon
<1>9. \A x : Queued(Q, x) => Queued(R, x)
  BY <1>8 DEF Queued
<1>10. Queued(R, c)
  BY <1>3, <1>4, Zenon DEF Queued
<1> QED BY <1>4, <1>6, <1>7, <1>9, <1>10, Zenon

\* r is q without its i-th element: at[j] is where the j-th was.
Removed(q, r, i) ==
  \E at \in [DOMAIN r -> DOMAIN q \ {i}] :
    /\ \A j \in DOMAIN r : r[j] = q[at[j]]
    /\ \A j, m \in DOMAIN r : at[j] = at[m] => j = m
    /\ \A n \in DOMAIN q \ {i} : \E j \in DOMAIN r : at[j] = n

LEMMA WithoutIs ==
  ASSUME NEW S, NEW q \in Seq(S), NEW i \in DOMAIN q, NEW r, r = Without(q, i)
  PROVE  r \in Seq(S) /\ Removed(q, r, i)
<1>0. /\ Len(q) \in Nat /\ DOMAIN q = 1 .. Len(q) /\ i \in 1 .. Len(q)
      /\ \A n \in 1 .. Len(q) : q[n] \in S
  OBVIOUS
<1>1. r = [j \in 1 .. (Len(q) - 1) |-> IF j < i THEN q[j] ELSE q[j + 1]]
  BY Zenon DEF Without
<1>2. DOMAIN r = 1 .. (Len(q) - 1) /\ Len(q) - 1 \in Nat
  BY <1>0, <1>1
<1> DEFINE at == [j \in DOMAIN r |-> IF j < i THEN j ELSE j + 1]
<1>3. at \in [DOMAIN r -> DOMAIN q \ {i}]
  BY <1>0, <1>2
<1>4. \A j \in DOMAIN r : r[j] = q[at[j]]
  BY <1>0, <1>1, <1>2
<1>5. \A j, m \in DOMAIN r : at[j] = at[m] => j = m
  BY <1>0, <1>2
<1>6. ASSUME NEW n \in DOMAIN q \ {i}
      PROVE  \E j \in DOMAIN r : at[j] = n
  <2>1. CASE n < i
    <3>1. n \in DOMAIN r /\ at[n] = n
      BY <1>0, <1>2, <2>1
    <3> QED BY <3>1, Zenon
  <2>2. CASE ~(n < i)
    <3>1. n - 1 \in DOMAIN r /\ at[n - 1] = n
      BY <1>0, <1>2, <2>2
    <3> QED BY <3>1, Zenon
  <2> QED BY <2>1, <2>2, Zenon
<1>7. r \in Seq(S)
  <2>1. r \in [1 .. (Len(q) - 1) -> S]
    BY <1>0, <1>1
  <2> QED BY <1>2, <2>1
<1> HIDE DEF at
<1> QED BY <1>3, <1>4, <1>5, <1>6, <1>7, Zenon DEF Removed

LEMMA TailIs ==
  ASSUME NEW S, NEW q \in Seq(S), q # <<>>, NEW r, r = Tail(q)
  PROVE  /\ 1 \in DOMAIN q /\ Head(q) = q[1] /\ Head(q) \in S
         /\ r \in Seq(S) /\ Removed(q, r, 1)
<1>0. /\ Len(q) \in Nat /\ DOMAIN q = 1 .. Len(q) /\ Len(q) > 0
      /\ Head(q) = q[1] /\ Head(q) \in S
      /\ r \in Seq(S) /\ DOMAIN r = 1 .. (Len(q) - 1)
      /\ \A j \in DOMAIN r : r[j] = q[j + 1]
  OBVIOUS
<1> DEFINE at == [j \in DOMAIN r |-> j + 1]
<1>1. 1 \in DOMAIN q /\ at \in [DOMAIN r -> DOMAIN q \ {1}]
  BY <1>0
<1>2. \A j \in DOMAIN r : r[j] = q[at[j]]
  BY <1>0
<1>3. \A j, m \in DOMAIN r : at[j] = at[m] => j = m
  BY <1>0
<1>4. ASSUME NEW n \in DOMAIN q \ {1}
      PROVE  \E j \in DOMAIN r : at[j] = n
  <2>1. n - 1 \in DOMAIN r /\ at[n - 1] = n
    BY <1>0
  <2> QED BY <2>1, Zenon
<1> HIDE DEF at
<1> QED BY <1>0, <1>1, <1>2, <1>3, <1>4, Zenon DEF Removed

\* A queue that loses one.
LEMMA Dequeued ==
  ASSUME NEW Q \in [Kinds -> Seq(Conns)], NEW k \in Kinds, NEW r \in Seq(Conns),
         NEW i \in DOMAIN Q[k], Removed(Q[k], r, i), Distinct(Q),
         NEW R, R = [Q EXCEPT ![k] = r]
  PROVE  /\ R \in [Kinds -> Seq(Conns)] /\ Distinct(R)
         /\ \A x : Queued(R, x) <=> Queued(Q, x) /\ x # Q[k][i]
<1>0. PICK at \in [DOMAIN r -> DOMAIN Q[k] \ {i}] :
        /\ \A j \in DOMAIN r : r[j] = Q[k][at[j]]
        /\ \A j, m \in DOMAIN r : at[j] = at[m] => j = m
        /\ \A n \in DOMAIN Q[k] \ {i} : \E j \in DOMAIN r : at[j] = n
  BY Zenon DEF Removed
<1>1. /\ R \in [Kinds -> Seq(Conns)] /\ R[k] = r
      /\ \A l \in Kinds : l # k => R[l] = Q[l]
  BY Update, Zenon
<1>2. ASSUME NEW l \in Kinds, NEW j \in DOMAIN R[l]
      PROVE  \E n \in DOMAIN Q[l] : /\ R[l][j] = Q[l][n]
                                    /\ l = k => n = at[j] /\ n # i
                                    /\ l # k => n = j
  <2>1. CASE l = k
    <3>1. j \in DOMAIN r
      BY <1>1, <2>1
    <3>2. at[j] \in DOMAIN Q[k] /\ at[j] # i /\ r[j] = Q[k][at[j]]
      BY <1>0, <3>1
    <3> QED BY <1>1, <2>1, <3>2
  <2>2. CASE l # k
    BY <1>1, <2>2
  <2> QED BY <2>1, <2>2, Zenon
<1>3. Distinct(R)
  <2> SUFFICES ASSUME NEW l \in Kinds, NEW m \in Kinds, NEW a \in DOMAIN R[l],
                      NEW b \in DOMAIN R[m], R[l][a] = R[m][b]
               PROVE  l = m /\ a = b
    BY Zenon DEF Distinct
  <2>1. PICK x \in DOMAIN Q[l] : /\ R[l][a] = Q[l][x]
                                 /\ l = k => x = at[a] /\ x # i
                                 /\ l # k => x = a
    BY <1>2, ZenonT(40)
  <2>2. PICK y \in DOMAIN Q[m] : /\ R[m][b] = Q[m][y]
                                 /\ m = k => y = at[b] /\ y # i
                                 /\ m # k => y = b
    BY <1>2, ZenonT(40)
  <2>3. Q[l][x] = Q[m][y]
    BY <2>1, <2>2
  <2>4. l = m /\ x = y
    BY <2>3 DEF Distinct
  <2>5. CASE l = k
    <3>1. a \in DOMAIN r /\ b \in DOMAIN r /\ at[a] = at[b]
      BY <1>1, <2>1, <2>2, <2>4, <2>5
    <3> QED BY <1>0, <2>4, <3>1, Zenon
  <2> QED BY <2>1, <2>2, <2>4, <2>5, Zenon
<1>4. ASSUME NEW x, Queued(R, x)
      PROVE  Queued(Q, x) /\ x # Q[k][i]
  <2>1. PICK l \in Kinds : \E j \in DOMAIN R[l] : R[l][j] = x
    BY <1>4, Zenon DEF Queued
  <2>j. PICK j \in DOMAIN R[l] : R[l][j] = x
    BY <2>1, Zenon
  <2>2. PICK n \in DOMAIN Q[l] : /\ R[l][j] = Q[l][n]
                                 /\ l = k => n = at[j] /\ n # i
    BY <1>2, Zenon
  <2>3. x = Q[l][n]
    BY <2>j, <2>2
  <2>4. x # Q[k][i]
    BY <2>2, <2>3 DEF Distinct
  <2> QED BY <2>3, <2>4 DEF Queued
<1>5. ASSUME NEW x, Queued(Q, x), x # Q[k][i]
      PROVE  Queued(R, x)
  <2>0. PICK l \in Kinds : \E n \in DOMAIN Q[l] : Q[l][n] = x
    BY <1>5, Zenon DEF Queued
  <2>1. PICK n \in DOMAIN Q[l] : Q[l][n] = x
    BY <2>0, Zenon
  <2>2. CASE l = k
    <3>1. n \in DOMAIN Q[k] \ {i}
      BY <1>5, <2>1, <2>2
    <3>2. PICK j \in DOMAIN r : at[j] = n
      BY <1>0, <3>1, Zenon
    <3>3. j \in DOMAIN R[k] /\ R[k][j] = x
      BY <1>0, <1>1, <2>1, <2>2, <3>2
    <3> QED BY <3>3, Zenon DEF Queued
  <2>3. CASE l # k
    <3>1. n \in DOMAIN R[l] /\ R[l][n] = x
      BY <1>1, <2>1, <2>3
    <3> QED BY <3>1, Zenon DEF Queued
  <2> QED BY <2>2, <2>3, Zenon
<1> QED BY <1>1, <1>3, <1>4, <1>5, Zenon
-----------------------------------------------------------------------------
(* Permits.                                                                *)

LEMMA HeldFinite ==
  ASSUME NEW k
  PROVE  /\ IsFiniteSet(HeldAt(k)) /\ Cardinality(HeldAt(k)) \in Nat
         /\ IsFiniteSet(HeldAt(k)') /\ Cardinality(HeldAt(k)') \in Nat
<1>1. IsFiniteSet(Conns) /\ HeldAt(k) \subseteq Conns /\ HeldAt(k)' \subseteq Conns
  BY Slots, Zenon DEF HeldAt
<1> QED BY <1>1, FS_Subset, FS_CardinalityType, Zenon

LEMMA NoneIsNothing == none \notin Conns /\ none \notin Kinds
BY Slots, Zenon

LEMMA PermitTaken ==
  ASSUME slot \in [Conns -> Kinds \cup {none}], free \in [Kinds -> Nat], CountsInv,
         NEW c \in Conns, NEW k \in Kinds, slot[c] \notin Kinds, free[k] > 0,
         slot' = [slot EXCEPT ![c] = k], free' = [free EXCEPT ![k] = free[k] - 1]
  PROVE  /\ slot' \in [Conns -> Kinds \cup {none}] /\ free' \in [Kinds -> Nat]
         /\ CountsInv'
<1>1. slot' \in [Conns -> Kinds \cup {none}] /\ free' \in [Kinds -> Nat]
  OBVIOUS
<1>2. HeldAt(k)' = HeldAt(k) \cup {c} /\ c \notin HeldAt(k)
  BY Zenon DEF HeldAt
<1>3. Cardinality(HeldAt(k)') = Cardinality(HeldAt(k)) + 1
  BY <1>2, HeldFinite, FS_AddElement, Zenon
<1>4. \A l \in Kinds : l # k => HeldAt(l)' = HeldAt(l)
  BY Zenon DEF HeldAt
<1>5. \A l \in Kinds : l # k => free'[l] = free[l]
  OBVIOUS
<1>6. free'[k] = free[k] - 1 /\ free[k] \in Nat
  OBVIOUS
<1>7. free'[k] + Cardinality(HeldAt(k)') = free[k] + Cardinality(HeldAt(k))
  BY <1>3, <1>6, HeldFinite
<1>8. ASSUME NEW l \in Kinds PROVE free'[l] + Cardinality(HeldAt(l)') = max_permits(l)
  BY <1>4, <1>5, <1>7, Zenon DEF CountsInv
<1> QED BY <1>1, <1>8, Zenon DEF CountsInv

LEMMA PermitFreed ==
  ASSUME slot \in [Conns -> Kinds \cup {none}], free \in [Kinds -> Nat], CountsInv,
         none \notin Kinds, NEW c \in Conns, NEW k \in Kinds, slot[c] = k,
         \A x \in Conns : slot'[x] = IF x = c THEN none ELSE slot[x],
         free' = [free EXCEPT ![k] = free[k] + 1]
  PROVE  free' \in [Kinds -> Nat] /\ CountsInv'
<1>1. free' \in [Kinds -> Nat]
  OBVIOUS
<1>2. HeldAt(k)' = HeldAt(k) \ {c} /\ c \in HeldAt(k)
  BY Zenon DEF HeldAt
<1>3. Cardinality(HeldAt(k)') = Cardinality(HeldAt(k)) - 1
  BY <1>2, HeldFinite, FS_RemoveElement, ZenonT(40)
<1>4. \A l \in Kinds : l # k => HeldAt(l)' = HeldAt(l)
  BY Zenon DEF HeldAt
<1>5. \A l \in Kinds : l # k => free'[l] = free[l]
  OBVIOUS
<1>6. free'[k] = free[k] + 1 /\ free[k] \in Nat
  OBVIOUS
<1>7. free'[k] + Cardinality(HeldAt(k)') = free[k] + Cardinality(HeldAt(k))
  BY <1>3, <1>6, HeldFinite
<1>8. ASSUME NEW l \in Kinds PROVE free'[l] + Cardinality(HeldAt(l)') = max_permits(l)
  BY <1>4, <1>5, <1>7, Zenon DEF CountsInv
<1> QED BY <1>1, <1>8, Zenon DEF CountsInv

PassedOn(c, k, w) ==
  \A x \in Conns : slot'[x] = IF x = c THEN none ELSE IF x = w THEN k ELSE slot[x]

LEMMA PermitPassed ==
  ASSUME slot \in [Conns -> Kinds \cup {none}], CountsInv, none \notin Kinds,
         NEW c \in Conns, NEW k \in Kinds, slot[c] = k,
         NEW w \in Conns, slot[w] = none,
         PassedOn(c, k, w),
         free' = free
  PROVE  CountsInv'
<1>0. w # c
  OBVIOUS
<1>1. HeldAt(k)' = (HeldAt(k) \ {c}) \cup {w} /\ c \in HeldAt(k) /\ w \notin HeldAt(k) \ {c}
  BY <1>0, Zenon DEF HeldAt, PassedOn
<1>2. /\ IsFiniteSet(HeldAt(k) \ {c})
      /\ Cardinality(HeldAt(k) \ {c}) = Cardinality(HeldAt(k)) - 1
  BY <1>1, HeldFinite, FS_RemoveElement, Zenon
<1>3. Cardinality(HeldAt(k)') = Cardinality(HeldAt(k) \ {c}) + 1
  <2>1. PICK H : H = HeldAt(k) \ {c}
    BY Zenon
  <2>2. IsFiniteSet(H) /\ w \notin H /\ HeldAt(k)' = H \cup {w}
    BY <1>1, <1>2, <2>1
  <2>3. Cardinality(H \cup {w}) = Cardinality(H) + 1
    BY <2>2, FS_AddElement, Zenon
  <2> QED BY <2>1, <2>2, <2>3
<1>4. Cardinality(HeldAt(k)') = Cardinality(HeldAt(k))
  BY <1>2, <1>3, HeldFinite
<1>5. \A l \in Kinds : l # k => HeldAt(l)' = HeldAt(l)
  BY <1>0, Zenon DEF HeldAt, PassedOn
<1> QED BY <1>4, <1>5, Zenon DEF CountsInv

LEMMA PermitsSame ==
  ASSUME CountsInv, UNCHANGED <<slot, free>>
  PROVE  CountsInv'
<1>1. \A k : HeldAt(k)' = HeldAt(k)
  BY Zenon DEF HeldAt
<1> QED BY <1>1, Zenon DEF CountsInv
-----------------------------------------------------------------------------
(* The steps.                                                              *)

\* A connection that neither waits nor is open takes another stage.
LEMMA StageMoves ==
  ASSUME Types, QueuesInv, QuietInv, WaitsInv, AskedInv, NEW c \in Conns,
         stage[c] # "waits", stage[c] # "open", NEW st \in Stages, st # "waits",
         stage' = [stage EXCEPT ![c] = st],
         UNCHANGED <<queue, left, look, asked, activity>>
  PROVE  /\ stage' \in [Conns -> Stages]
         /\ QueuesInv' /\ QuietInv' /\ WaitsInv' /\ AskedInv'
<1>1. /\ stage' \in [Conns -> Stages] /\ stage'[c] = st
      /\ \A x \in Conns : x # c => stage'[x] = stage[x]
  BY Update, Zenon DEF Types
<1>2. \A x \in Conns : stage'[x] = "waits" <=> stage[x] = "waits"
  BY <1>1, Zenon
<1>3. QueuesInv'
  BY <1>2, Zenon DEF QueuesInv
<1>4. QuietInv'
  BY <1>1, Zenon DEF QuietInv
<1>5. WaitsInv'
  BY <1>2, Zenon DEF WaitsInv
<1>6. AskedInv'
  <2>1. \A x \in Conns : asked[x] # none => asked[x] \in Conns /\ asked[x] # c
    BY Zenon DEF Types, AskedInv
  <2> QED BY <1>1, <2>1, Zenon DEF AskedInv
<1> QED BY <1>1, <1>3, <1>4, <1>5, <1>6, Zenon

LEMMA NewIsActivity == NewActivity \in Activities
BY Durations DEF NewActivity, Activities

\* passthrough_slot, of a connection without a permit.
LEMMA PassthroughIs ==
  ASSUME Types, OwnersInv, CountsInv, FreeInv, NEW c \in Conns, slot[c] = none,
         Passthrough(c), \A k \in Kinds : queue'[k] # <<>> => queue[k] # <<>>
  PROVE  /\ \E st \in {"new", "tunnel"} : stage' = [stage EXCEPT ![c] = st]
         /\ slot' \in [Conns -> Kinds \cup {none}] /\ free' \in [Kinds -> Nat]
         /\ OwnersInv' /\ CountsInv' /\ FreeInv'
<1>0. /\ slot \in [Conns -> Kinds \cup {none}] /\ free \in [Kinds -> Nat]
      /\ stage \in [Conns -> Stages] /\ "passthrough" \in Kinds
      /\ "tunnel" \in Stages /\ "new" \in Stages
  BY Zenon DEF Types, Kinds, Stages
<1>1. CASE free["passthrough"] > 0
  <2>1. /\ free' = [free EXCEPT !["passthrough"] = free["passthrough"] - 1]
        /\ stage' = [stage EXCEPT ![c] = "tunnel"]
        /\ slot' = [slot EXCEPT ![c] = "passthrough"]
    BY <1>1, Zenon DEF Passthrough, TryAcquire, Holds
  <2>2. /\ slot' \in [Conns -> Kinds \cup {none}] /\ free' \in [Kinds -> Nat]
        /\ CountsInv'
    BY <1>0, <1>1, <2>1, NoneIsNothing, PermitTaken, Zenon
  <2>3. OwnersInv'
    <3>1. /\ stage'[c] = "tunnel"
          /\ \A x \in Conns : x # c => stage'[x] = stage[x] /\ slot'[x] = slot[x]
      BY <1>0, <2>1, Zenon
    <3> QED BY <3>1, Zenon DEF OwnersInv
  <2>4. FreeInv'
    <3>0. free["passthrough"] # 0
      BY <1>1
    <3>1. queue["passthrough"] = <<>>
      BY <1>0, <3>0, Zenon DEF FreeInv
    <3>2. \A k \in Kinds : k # "passthrough" => free'[k] = free[k]
      BY <1>0, <2>1, Zenon
    <3> QED BY <3>1, <3>2, Zenon DEF FreeInv
  <2> QED BY <2>1, <2>2, <2>3, <2>4, Zenon
<1>2. CASE ~(free["passthrough"] > 0)
  <2>1. stage' = [stage EXCEPT ![c] = "new"] /\ slot' = slot /\ free' = free
    BY <1>2, Zenon DEF Passthrough
  <2>2. OwnersInv'
    <3>1. \A x \in Conns : x # c => stage'[x] = stage[x]
      BY <1>0, <2>1, Zenon
    <3> QED BY <2>1, <3>1, Zenon DEF OwnersInv
  <2>3. CountsInv' /\ FreeInv'
    BY <2>1, PermitsSame, Zenon DEF FreeInv
  <2> QED BY <1>0, <2>1, <2>2, <2>3, Zenon
<1> QED BY <1>1, <1>2, Zenon

\* A task that takes a free permit for a handshake.
LEMMA AcquiresKeeps ==
  ASSUME Inv, NEW c \in Conns, stage[c] \in {"new", "hello"}, NEW k \in Kinds,
         TryAcquire(c, k, "handshake"), UNCHANGED <<queue, left, look, asked, activity>>
  PROVE  Inv'
<1>0. /\ Types /\ QueuesInv /\ QuietInv /\ WaitsInv
      /\ OwnersInv /\ CountsInv /\ FreeInv /\ AskedInv
      /\ slot \in [Conns -> Kinds \cup {none}] /\ free \in [Kinds -> Nat]
      /\ stage \in [Conns -> Stages] /\ "handshake" \in Stages
  BY Zenon DEF Inv, Types, Stages
<1>1. /\ free[k] > 0 /\ free' = [free EXCEPT ![k] = free[k] - 1]
      /\ stage' = [stage EXCEPT ![c] = "handshake"]
      /\ slot' = [slot EXCEPT ![c] = k]
  BY Zenon DEF TryAcquire, Holds
<1>2. slot[c] = none
  BY <1>0, Zenon DEF OwnersInv
<1>3. /\ slot' \in [Conns -> Kinds \cup {none}] /\ free' \in [Kinds -> Nat]
      /\ CountsInv'
  BY <1>0, <1>1, <1>2, NoneIsNothing, PermitTaken, Zenon
<1>4. /\ stage' \in [Conns -> Stages]
      /\ QueuesInv' /\ QuietInv' /\ WaitsInv' /\ AskedInv'
  BY <1>0, <1>1, StageMoves, Zenon
<1>5. OwnersInv'
  <2>1. /\ stage'[c] = "handshake"
        /\ \A x \in Conns : x # c => stage'[x] = stage[x] /\ slot'[x] = slot[x]
    BY <1>0, <1>1, Zenon
  <2> QED BY <1>0, <2>1, Zenon DEF OwnersInv
<1>6. FreeInv'
  <2>1. queue[k] = <<>>
    <3>1. free[k] # 0
      BY <1>1
    <3> QED BY <1>0, <3>1, Zenon DEF FreeInv
  <2>2. \A l \in Kinds : l # k => free'[l] = free[l]
    BY <1>0, <1>1, Zenon
  <2> QED BY <1>0, <2>1, <2>2, Zenon DEF FreeInv
<1>7. Types'
  BY <1>0, <1>3, <1>4, Zenon DEF Types
<1> QED BY <1>3, <1>4, <1>5, <1>6, <1>7, Zenon DEF Inv

\* passthrough_slot of a connection that has no place in a queue.
LEMMA TunnelKeeps ==
  ASSUME Inv, NEW c \in Conns, stage[c] \in {"new", "hello", "uncertified"},
         Passthrough(c), UNCHANGED <<queue, left, look, asked, activity>>
  PROVE  Inv'
<1>0. /\ Types /\ QueuesInv /\ QuietInv /\ WaitsInv
      /\ OwnersInv /\ CountsInv /\ FreeInv /\ AskedInv
  BY Zenon DEF Inv
<1>1. slot[c] = none
  BY <1>0, Zenon DEF OwnersInv
<1>2. /\ \E st \in {"new", "tunnel"} : stage' = [stage EXCEPT ![c] = st]
      /\ slot' \in [Conns -> Kinds \cup {none}] /\ free' \in [Kinds -> Nat]
      /\ OwnersInv' /\ CountsInv' /\ FreeInv'
  BY <1>0, <1>1, PassthroughIs, Zenon
<1>3. PICK st \in {"new", "tunnel"} : stage' = [stage EXCEPT ![c] = st]
  BY <1>2, Zenon
<1>4. st \in Stages /\ st # "waits"
  BY <1>3, Zenon DEF Stages
<1>5. /\ stage' \in [Conns -> Stages]
      /\ QueuesInv' /\ QuietInv' /\ WaitsInv' /\ AskedInv'
  BY <1>0, <1>3, <1>4, StageMoves, Zenon
<1>6. Types'
  BY <1>0, <1>2, <1>5, Zenon DEF Types
<1> QED BY <1>2, <1>5, <1>6, Zenon DEF Inv

(* Release(c, next): c goes on to next without its permit, and w, if there *)
(* is a w, gets it.  There is none when c has no permit (NoPermit) or      *)
(* nobody waits for it (Frees); otherwise it is the first that waits       *)
(* (Passes).                                                               *)

Moved(c, next, w) ==
  /\ stage' = [x \in Conns |-> IF x = c THEN next
                               ELSE IF x = w THEN "handshake" ELSE stage[x]]
  /\ slot' = [x \in Conns |-> IF x = c THEN none
                              ELSE IF x = w THEN slot[c] ELSE slot[x]]
  /\ asked' = [x \in Conns |-> IF x = w \/ asked[x] = c THEN none ELSE asked[x]]
  /\ activity' = [activity EXCEPT ![c] = NewActivity]

NoPermit(c, w) ==
  w = none /\ slot[c] = none /\ UNCHANGED <<queue, left, look, free>>

Frees(c, k, w) ==
  /\ w = none /\ slot[c] = k /\ queue[k] = <<>>
  /\ free' = [free EXCEPT ![k] = free[k] + 1]
  /\ UNCHANGED <<queue, left, look>>

Passes(c, k, w) ==
  /\ w \in Conns /\ slot[c] = k /\ stage[w] = "waits"
  /\ queue[k] # <<>> /\ w = Head(queue[k])
  /\ queue' = [queue EXCEPT ![k] = Tail(queue[k])]
  /\ left' = [left EXCEPT ![w] = 0]
  /\ look' = [look EXCEPT ![w] = FALSE]
  /\ free' = free

Handed(c, w) ==
  NoPermit(c, w) \/ \E k \in Kinds : Frees(c, k, w) \/ Passes(c, k, w)

LEMMA ReleaseIs ==
  ASSUME Types, QueuesInv, OwnersInv, NEW c \in Conns, stage[c] # "waits",
         NEW next, Release(c, next)
  PROVE  \E w \in Conns \cup {none} : Moved(c, next, w) /\ Handed(c, w)
<1> DEFINE k == slot[c]
           w == IF k = none \/ queue[k] = <<>> THEN none ELSE Head(queue[k])
<1>0. /\ k \in Kinds \cup {none} /\ queue \in [Kinds -> Seq(Conns)]
      /\ none \notin Conns
  BY NoneIsNothing, Zenon DEF Types
<1>1. /\ stage' = [x \in Conns |-> CASE x = c -> next
                                    [] x = w -> "handshake"
                                    [] OTHER -> stage[x]]
      /\ slot' = [x \in Conns |-> CASE x = c -> none
                                   [] x = w -> k
                                   [] OTHER -> slot[x]]
      /\ IF w = none
         THEN UNCHANGED <<queue, left, look>>
         ELSE /\ queue' = [queue EXCEPT ![k] = Tail(queue[k])]
              /\ left' = [left EXCEPT ![w] = 0]
              /\ look' = [look EXCEPT ![w] = FALSE]
      /\ free' = IF k = none \/ w # none THEN free ELSE [free EXCEPT ![k] = free[k] + 1]
      /\ asked' = [x \in Conns |-> IF x = w \/ asked[x] = c THEN none ELSE asked[x]]
      /\ activity' = [activity EXCEPT ![c] = NewActivity]
  BY Zenon DEF Release
<1>2. ASSUME k # none, queue[k] # <<>>
      PROVE  Head(queue[k]) \in Conns /\ stage[Head(queue[k])] = "waits"
  <2>1. k \in Kinds /\ queue[k] \in Seq(Conns)
    BY <1>0, <1>2, Zenon
  <2>2. 1 \in DOMAIN queue[k] /\ Head(queue[k]) = queue[k][1] /\ Head(queue[k]) \in Conns
    BY <1>2, <2>1, TailIs, Zenon
  <2>3. Queued(queue, Head(queue[k]))
    BY <2>1, <2>2 DEF Queued
  <2> QED BY <2>2, <2>3, Zenon DEF QueuesInv
<1>3. \/ w = none /\ (k = none \/ (k \in Kinds /\ queue[k] = <<>>))
      \/ /\ w \in Conns /\ k \in Kinds /\ queue[k] # <<>> /\ stage[w] = "waits"
         /\ w = Head(queue[k])
  BY <1>0, <1>2, Zenon
<1>c. w # c
  BY <1>0, <1>3, Zenon
<1> HIDE DEF w
<1>4. ASSUME NEW x \in Conns
      PROVE  /\ stage'[x] = IF x = c THEN next
                            ELSE IF x = w THEN "handshake" ELSE stage[x]
             /\ slot'[x] = IF x = c THEN none ELSE IF x = w THEN k ELSE slot[x]
  <2>1. CASE x = c
    BY <1>1, <1>c, <2>1
  <2>2. CASE x # c /\ x = w
    BY <1>1, <2>2
  <2>3. CASE x # c /\ x # w
    BY <1>1, <2>3
  <2> QED BY <2>1, <2>2, <2>3, Zenon
<1>5. Moved(c, next, w)
  <2>1. /\ stage' = [x \in Conns |-> stage'[x]]
        /\ slot' = [x \in Conns |-> slot'[x]]
    BY <1>1
  <2>2. stage' = [x \in Conns |-> IF x = c THEN next
                                  ELSE IF x = w THEN "handshake" ELSE stage[x]]
    BY <1>4, <2>1, Zenon
  <2>3. slot' = [x \in Conns |-> IF x = c THEN none ELSE IF x = w THEN k ELSE slot[x]]
    BY <1>4, <2>1, Zenon
  <2> QED BY <1>1, <2>2, <2>3, Zenon DEF Moved
<1>6. CASE w = none /\ k = none
  BY <1>1, <1>5, <1>6, Zenon DEF Handed, NoPermit
<1>7. CASE w = none /\ k \in Kinds /\ queue[k] = <<>>
  <2>1. Frees(c, k, w)
    <3>1. k # none
      BY <1>7, NoneIsNothing, Zenon
    <3> QED BY <1>1, <1>7, <3>1, Zenon DEF Frees
  <2> QED BY <1>5, <1>7, <2>1, Zenon DEF Handed
<1>8. CASE /\ w \in Conns /\ k \in Kinds /\ queue[k] # <<>> /\ stage[w] = "waits"
           /\ w = Head(queue[k])
  <2>1. Passes(c, k, w)
    <3>1. w # none
      BY <1>8, NoneIsNothing, Zenon
    <3> QED BY <1>1, <1>8, <3>1, Zenon DEF Passes
  <2> QED BY <1>5, <1>8, <2>1, Zenon DEF Handed
<1> QED BY <1>3, <1>6, <1>7, <1>8, Zenon

LEMMA HandedQueues ==
  ASSUME Types, QueuesInv, NEW c \in Conns, NEW w \in Conns \cup {none}, Handed(c, w)
  PROVE  /\ queue' \in [Kinds -> Seq(Conns)] /\ Distinct(queue')
         /\ \A x \in Conns : Queued(queue', x) <=> Queued(queue, x) /\ x # w
<1>0. queue \in [Kinds -> Seq(Conns)] /\ Distinct(queue) /\ none \notin Conns
  BY NoneIsNothing, Zenon DEF Types, QueuesInv
<1>1. CASE w = none /\ queue' = queue
  BY <1>0, <1>1, Zenon
<1>2. ASSUME NEW k \in Kinds, Passes(c, k, w)
      PROVE  /\ queue' \in [Kinds -> Seq(Conns)] /\ Distinct(queue')
             /\ \A x \in Conns : Queued(queue', x) <=> Queued(queue, x) /\ x # w
  <2>1. queue[k] \in Seq(Conns) /\ queue[k] # <<>> /\ w = Head(queue[k])
    BY <1>0, <1>2, Zenon DEF Passes
  <2>2. PICK r : r = Tail(queue[k])
    BY Zenon
  <2>3. /\ 1 \in DOMAIN queue[k] /\ w = queue[k][1]
        /\ r \in Seq(Conns) /\ Removed(queue[k], r, 1)
    BY <2>1, <2>2, TailIs, Zenon
  <2>4. queue' = [queue EXCEPT ![k] = r]
    BY <1>2, <2>2, Zenon DEF Passes
  <2>5. PICK Q, R : Q = queue /\ R = queue'
    BY Zenon
  <2>6. /\ R \in [Kinds -> Seq(Conns)] /\ Distinct(R)
        /\ \A x : Queued(R, x) <=> Queued(Q, x) /\ x # Q[k][1]
    <3>1. /\ Q \in [Kinds -> Seq(Conns)] /\ 1 \in DOMAIN Q[k] /\ Removed(Q[k], r, 1)
          /\ Distinct(Q) /\ R = [Q EXCEPT ![k] = r]
      BY <1>0, <2>3, <2>4, <2>5
    <3> QED BY <2>3, <3>1, Dequeued
  <2> QED BY <2>3, <2>5, <2>6
<1> QED BY <1>1, <1>2, Zenon DEF Handed, NoPermit, Frees

LEMMA HandedTimers ==
  ASSUME Types, NEW c \in Conns, NEW w \in Conns \cup {none}, Handed(c, w)
  PROVE  /\ left' \in [Conns -> Nat] /\ look' \in [Conns -> BOOLEAN]
         /\ \A x \in Conns : x # w => left'[x] = left[x] /\ look'[x] = look[x]
         /\ w # none => left'[w] = 0 /\ look'[w] = FALSE
<1>0. left \in [Conns -> Nat] /\ look \in [Conns -> BOOLEAN]
  BY Zenon DEF Types
<1>1. CASE w = none /\ left' = left /\ look' = look
  BY <1>0, <1>1, Zenon
<1>2. CASE /\ w \in Conns /\ left' = [left EXCEPT ![w] = 0]
           /\ look' = [look EXCEPT ![w] = FALSE]
  BY <1>0, <1>2
<1> QED BY <1>1, <1>2, Zenon DEF Handed, NoPermit, Frees, Passes

LEMMA HandedPermits ==
  ASSUME Types, OwnersInv, CountsInv, FreeInv, NEW c \in Conns, NEW next,
         NEW w \in Conns \cup {none}, Moved(c, next, w), Handed(c, w)
  PROVE  free' \in [Kinds -> Nat] /\ CountsInv' /\ FreeInv'
<1>0. /\ slot \in [Conns -> Kinds \cup {none}] /\ free \in [Kinds -> Nat]
      /\ queue \in [Kinds -> Seq(Conns)] /\ none \notin Conns /\ none \notin Kinds
  BY NoneIsNothing, Zenon DEF Types
<1>1. slot' = [x \in Conns |-> IF x = c THEN none
                              ELSE IF x = w THEN slot[c] ELSE slot[x]]
  BY Zenon DEF Moved
<1>2. CASE NoPermit(c, w)
  <2>1. slot[c] = none /\ w = none /\ free' = free /\ queue' = queue
    BY <1>2, Zenon DEF NoPermit
  <2>2. slot' = slot
    BY <1>0, <1>1, <2>1
  <2> QED BY <1>0, <2>1, <2>2, PermitsSame, Zenon DEF FreeInv
<1>3. ASSUME NEW k \in Kinds, Frees(c, k, w)
      PROVE  free' \in [Kinds -> Nat] /\ CountsInv' /\ FreeInv'
  <2>1. /\ w = none /\ slot[c] = k /\ queue[k] = <<>> /\ queue' = queue
        /\ free' = [free EXCEPT ![k] = free[k] + 1]
    BY <1>3, Zenon DEF Frees
  <2>2. \A x \in Conns : slot'[x] = IF x = c THEN none ELSE slot[x]
    BY <1>0, <1>1, <2>1, Zenon
  <2>3. free' \in [Kinds -> Nat] /\ CountsInv'
    BY <1>0, <2>1, <2>2, PermitFreed, Zenon
  <2>4. \A l \in Kinds : l # k => free'[l] = free[l]
    BY <1>0, <2>1, Zenon
  <2> QED BY <2>1, <2>3, <2>4, Zenon DEF FreeInv
<1>4. ASSUME NEW k \in Kinds, Passes(c, k, w)
      PROVE  free' \in [Kinds -> Nat] /\ CountsInv' /\ FreeInv'
  <2>1. /\ w \in Conns /\ slot[c] = k /\ stage[w] = "waits" /\ queue[k] # <<>>
        /\ queue' = [queue EXCEPT ![k] = Tail(queue[k])] /\ free' = free
    BY <1>4, Zenon DEF Passes
  <2>2. slot[w] = none
    BY <2>1, Zenon DEF OwnersInv
  <2>3. \A x \in Conns :
          slot'[x] = IF x = c THEN none ELSE IF x = w THEN k ELSE slot[x]
    BY <1>1, <2>1, Zenon
  <2>4. CountsInv'
    <3>1. PICK v \in Conns : v = w
      BY <2>1, Zenon
    <3>2. slot[v] = none
      BY <2>2, <3>1
    <3>3. PassedOn(c, k, v)
      BY <2>3, <3>1 DEF PassedOn
    <3> QED BY <1>0, <2>1, <3>2, <3>3, PermitPassed, Zenon
  <2>5. ASSUME NEW l \in Kinds, queue'[l] # <<>> PROVE free'[l] = 0
    <3>1. CASE l = k
      BY <2>1, <3>1, Zenon DEF FreeInv
    <3>2. CASE l # k
      BY <1>0, <2>1, <2>5, <3>2, Zenon DEF FreeInv
    <3> QED BY <3>1, <3>2, Zenon
  <2> QED BY <1>0, <2>1, <2>4, <2>5, Zenon DEF FreeInv
<1> QED BY <1>2, <1>3, <1>4, Zenon DEF Handed

\* The end of a connection, and of a handshake without a leaf.
LEMMA ReleaseKeeps ==
  ASSUME Inv, NEW c \in Conns, stage[c] \in {"hello", "handshake", "open", "tunnel"},
         NEW next \in {"new", "uncertified"}, Release(c, next)
  PROVE  Inv'
<1>0. /\ Types /\ QueuesInv /\ QuietInv /\ WaitsInv
      /\ OwnersInv /\ CountsInv /\ FreeInv /\ AskedInv /\ stage[c] # "waits"
  BY Zenon DEF Inv
<1>1. PICK w \in Conns \cup {none} : Moved(c, next, w) /\ Handed(c, w)
  BY <1>0, ReleaseIs, Zenon
<1>2. /\ queue' \in [Kinds -> Seq(Conns)] /\ Distinct(queue')
      /\ \A x \in Conns : Queued(queue', x) <=> Queued(queue, x) /\ x # w
  BY <1>0, <1>1, HandedQueues, Zenon
<1>3. /\ left' \in [Conns -> Nat] /\ look' \in [Conns -> BOOLEAN]
      /\ \A x \in Conns : x # w => left'[x] = left[x] /\ look'[x] = look[x]
      /\ w # none => left'[w] = 0 /\ look'[w] = FALSE
  BY <1>0, <1>1, HandedTimers, Zenon
<1>4. free' \in [Kinds -> Nat] /\ CountsInv' /\ FreeInv'
  BY <1>0, <1>1, HandedPermits, Zenon
<1>5. w # none => w \in Conns /\ stage[w] = "waits" /\ w # c
  BY <1>0, <1>1, Zenon DEF Handed, NoPermit, Frees, Passes
<1>6. ASSUME NEW x \in Conns
      PROVE  /\ stage'[x] = IF x = c THEN next
                            ELSE IF x = w THEN "handshake" ELSE stage[x]
             /\ slot'[x] = IF x = c THEN none ELSE IF x = w THEN slot[c] ELSE slot[x]
             /\ asked'[x] = IF x = w \/ asked[x] = c THEN none ELSE asked[x]
  BY <1>1, Zenon DEF Moved
<1>7. /\ activity' \in [Conns -> Activities] /\ activity'[c] = NewActivity
      /\ \A x \in Conns : x # c => activity'[x] = activity[x]
  <2>1. NewActivity \in Activities
    BY NewIsActivity, Zenon
  <2> QED BY <1>0, <1>1, <2>1, Update, ZenonT(40) DEF Moved, Types
<1>8. Types'
  <2>1. ASSUME NEW x \in Conns
        PROVE  /\ stage'[x] \in Stages /\ slot'[x] \in Kinds \cup {none}
               /\ asked'[x] \in Conns \cup {none}
    <3>1. /\ stage[x] \in Stages /\ slot[x] \in Kinds \cup {none}
          /\ slot[c] \in Kinds \cup {none} /\ asked[x] \in Conns \cup {none}
          /\ "handshake" \in Stages /\ next \in Stages
      BY <1>0, Zenon DEF Types, Stages
    <3> QED BY <1>6, <3>1, Zenon
  <2>2. /\ DOMAIN stage' = Conns /\ stage' = [x \in Conns |-> stage'[x]]
        /\ DOMAIN slot' = Conns /\ slot' = [x \in Conns |-> slot'[x]]
        /\ DOMAIN asked' = Conns /\ asked' = [x \in Conns |-> asked'[x]]
    BY <1>1 DEF Moved
  <2>3. stage' \in [Conns -> Stages]
    BY <2>1, <2>2, Zenon
  <2>4. slot' \in [Conns -> Kinds \cup {none}]
    BY <2>1, <2>2, Zenon
  <2>5. asked' \in [Conns -> Conns \cup {none}]
    BY <2>1, <2>2, Zenon
  <2> QED BY <1>2, <1>3, <1>4, <1>7, <2>3, <2>4, <2>5, Zenon DEF Types
<1>9. QueuesInv'
  <2>1. ASSUME NEW x \in Conns PROVE Queued(queue', x) <=> stage'[x] = "waits"
    <3>1. CASE x = c
      BY <1>0, <1>2, <1>6, <3>1, Zenon DEF QueuesInv
    <3>2. CASE x # c
      BY <1>0, <1>2, <1>6, <3>2, Zenon DEF QueuesInv
    <3> QED BY <3>1, <3>2, Zenon
  <2> QED BY <1>2, <2>1, Zenon DEF QueuesInv
<1>10. QuietInv'
  <2>1. ASSUME NEW x \in Conns, stage'[x] # "open" PROVE activity'[x] = NewActivity
    <3>1. CASE x = c
      BY <1>7, <3>1, Zenon
    <3>2. CASE x # c /\ x = w
      <4>1. stage[x] # "open"
        BY <1>5, <3>2, NoneIsNothing, Zenon
      <4> QED BY <1>0, <1>7, <3>2, <4>1, Zenon DEF QuietInv
    <3>3. CASE x # c /\ x # w
      BY <1>0, <1>6, <1>7, <2>1, <3>3, Zenon DEF QuietInv
    <3> QED BY <3>1, <3>2, <3>3, Zenon
  <2> QED BY <2>1, Zenon DEF QuietInv
<1>11. WaitsInv'
  <2> SUFFICES ASSUME NEW x \in Conns
               PROVE  /\ stage'[x] # "waits" =>
                           asked'[x] = none /\ left'[x] = 0 /\ ~look'[x]
                      /\ look'[x] => left'[x] > 0
    BY Zenon DEF WaitsInv
  <2>1. CASE x = w
    <3>1. w # none
      BY <2>1, NoneIsNothing, Zenon
    <3> QED BY <1>3, <1>6, <2>1, <3>1, Zenon
  <2>2. CASE x # w
    <3>1. left'[x] = left[x] /\ look'[x] = look[x]
      BY <1>3, <2>2, Zenon
    <3>2. stage'[x] # "waits" => stage[x] # "waits"
      BY <1>0, <1>6, <2>2, Zenon
    <3>3. asked[x] = none => asked'[x] = none
      BY <1>6, Zenon
    <3>4. /\ stage[x] # "waits" => asked[x] = none /\ left[x] = 0 /\ ~look[x]
          /\ look[x] => left[x] > 0
      BY <1>0, Zenon DEF WaitsInv
    <3> QED BY <3>1, <3>2, <3>3, <3>4
  <2> QED BY <2>1, <2>2, Zenon
<1>12. OwnersInv'
  <2>1. ASSUME NEW x \in Conns, slot'[x] # none
        PROVE  stage'[x] \in {"handshake", "open", "tunnel"}
    <3>1. x # c
      BY <1>6, <2>1, Zenon
    <3>2. CASE x = w
      BY <1>6, <3>1, <3>2, Zenon
    <3>3. CASE x # w
      BY <1>0, <1>6, <2>1, <3>1, <3>3, Zenon DEF OwnersInv
    <3> QED BY <3>2, <3>3, Zenon
  <2> QED BY <2>1, Zenon DEF OwnersInv
<1>13. AskedInv'
  <2>1. ASSUME NEW x \in Conns, asked'[x] # none
        PROVE  asked'[x] = asked[x] /\ asked[x] # none /\ asked[x] # c
    BY <1>6, <2>1, Zenon
  <2>2. ASSUME NEW x \in Conns, asked'[x] # none
        PROVE  stage'[asked'[x]] = "open" /\ activity'[asked'[x]].close_requested
    <3>1. PICK d : d = asked[x]
      BY Zenon
    <3>2. d = asked'[x] /\ d # none /\ d # c
      BY <2>1, <2>2, <3>1
    <3>3. d \in Conns /\ stage[d] = "open" /\ activity[d].close_requested
      BY <1>0, <3>1, <3>2 DEF Types, AskedInv
    <3>4. d # w
      BY <1>5, <3>2, <3>3
    <3>5. stage'[d] = "open" /\ activity'[d] = activity[d]
      BY <1>6, <1>7, <3>2, <3>3, <3>4, Zenon
    <3> QED BY <3>2, <3>3, <3>5
  <2>3. ASSUME NEW x \in Conns, NEW y \in Conns, asked'[x] # none, asked'[x] = asked'[y]
        PROVE  x = y
    <3>1. asked'[x] = asked[x] /\ asked'[y] = asked[y]
      BY <2>1, <2>3
    <3>2. asked[x] # none /\ asked[x] = asked[y]
      BY <2>3, <3>1
    <3> QED BY <1>0, <3>2, Zenon DEF AskedInv
  <2> QED BY <2>2, <2>3, Zenon DEF AskedInv
<1> QED BY <1>4, <1>8, <1>9, <1>10, <1>11, <1>12, <1>13, Zenon DEF Inv

\* request_reclaim, or nothing: c may ask a connection that nobody has asked.
Asks(c) ==
  \/ UNCHANGED <<activity, asked>>
  \/ asked[c] = none /\ \E k \in Kinds : \E d \in IdleSince(k) : Reclaim(c, d)

LEMMA ReclaimedIs ==
  ASSUME NEW a \in Activities
  PROVE  Reclaimed(a) \in Activities /\ Reclaimed(a).close_requested
BY Bounds DEF Activities, Reclaimed, Closed

LEMMA AsksKeeps ==
  ASSUME Types, QuietInv, AskedInv, NEW c \in Conns, Asks(c),
         \A x \in Conns : stage'[x] = "open" <=> stage[x] = "open"
  PROVE  /\ activity' \in [Conns -> Activities]
         /\ asked' \in [Conns -> Conns \cup {none}]
         /\ \A x \in Conns : x # c => asked'[x] = asked[x]
         /\ QuietInv' /\ AskedInv'
<1>0. /\ activity \in [Conns -> Activities] /\ asked \in [Conns -> Conns \cup {none}]
      /\ none \notin Conns
  BY NoneIsNothing, Zenon DEF Types
<1>1. CASE UNCHANGED <<activity, asked>>
  <2>1. QuietInv'
    BY <1>1, Zenon DEF QuietInv
  <2>2. AskedInv'
    <3>1. \A x \in Conns : asked[x] # none => stage'[asked[x]] = "open"
      BY <1>0, Zenon DEF AskedInv
    <3> QED BY <1>1, <3>1, Zenon DEF AskedInv
  <2> QED BY <1>0, <1>1, <2>1, <2>2, Zenon
<1>2. ASSUME NEW k \in Kinds, NEW d \in IdleSince(k), Reclaim(c, d), asked[c] = none
      PROVE  /\ activity' \in [Conns -> Activities]
             /\ asked' \in [Conns -> Conns \cup {none}]
             /\ \A x \in Conns : x # c => asked'[x] = asked[x]
             /\ QuietInv' /\ AskedInv'
  <2>1. d \in Conns /\ stage[d] = "open" /\ ~activity[d].close_requested
    BY <1>2, Zenon DEF IdleSince
  <2>2. activity[d] \in Activities
    BY <1>0, <2>1, Zenon
  <2>3. Reclaimed(activity[d]) \in Activities /\ Reclaimed(activity[d]).close_requested
    BY <2>2, ReclaimedIs, Zenon
  <2>4. /\ activity' = [activity EXCEPT ![d] = Reclaimed(activity[d])]
        /\ asked' = [asked EXCEPT ![c] = d]
    BY <1>2, Zenon DEF Reclaim
  <2>5. /\ activity' \in [Conns -> Activities]
        /\ activity'[d] = Reclaimed(activity[d])
        /\ \A x \in Conns : x # d => activity'[x] = activity[x]
    BY <1>0, <2>1, <2>3, <2>4, Update, Zenon
  <2>6. /\ asked' \in [Conns -> Conns \cup {none}] /\ asked'[c] = d
        /\ \A x \in Conns : x # c => asked'[x] = asked[x]
    BY <1>0, <2>1, <2>4, Update, Zenon
  <2>7. QuietInv'
    BY <2>1, <2>5, Zenon DEF QuietInv
  <2>8. \A x \in Conns : asked[x] # d
    BY <1>0, <2>1 DEF AskedInv
  <2>9. \A x \in Conns : asked'[x] # none =>
          stage'[asked'[x]] = "open" /\ activity'[asked'[x]].close_requested
    <3> SUFFICES ASSUME NEW x \in Conns, asked'[x] # none
                 PROVE  stage'[asked'[x]] = "open" /\ activity'[asked'[x]].close_requested
      BY Zenon
    <3>1. CASE x = c
      BY <2>1, <2>3, <2>5, <2>6, <3>1
    <3>2. CASE x # c
      <4>1. PICK e : e = asked[x]
        BY Zenon
      <4>2. asked'[x] = e /\ e # none /\ e \in Conns /\ e # d
        BY <1>0, <2>6, <2>8, <3>2, <4>1
      <4>3. stage[e] = "open" /\ activity[e].close_requested
        BY <4>1, <4>2 DEF AskedInv
      <4>4. stage'[e] = "open" /\ activity'[e] = activity[e]
        BY <2>5, <4>2, <4>3, Zenon
      <4> QED BY <4>2, <4>3, <4>4
    <3> QED BY <3>1, <3>2, Zenon
  <2>10. ASSUME NEW x \in Conns, NEW y \in Conns, asked'[x] # none, asked'[x] = asked'[y]
         PROVE  x = y
    <3>1. CASE x = c /\ y # c
      BY <2>6, <2>8, <2>10, <3>1
    <3>2. CASE x # c /\ y = c
      BY <2>6, <2>8, <2>10, <3>2
    <3>3. CASE x # c /\ y # c
      <4>1. asked'[x] = asked[x] /\ asked'[y] = asked[y]
        BY <2>6, <3>3, Zenon
      <4>2. asked[x] # none /\ asked[x] = asked[y]
        BY <2>10, <4>1
      <4> QED BY <4>2, Zenon DEF AskedInv
    <3> QED BY <3>1, <3>2, <3>3, Zenon
  <2>11. AskedInv'
    BY <2>9, <2>10, Zenon DEF AskedInv
  <2> QED BY <2>5, <2>6, <2>7, <2>11, Zenon
<1> QED BY <1>1, <1>2, Zenon DEF Asks

LEMMA AskAnotherAsks ==
  ASSUME NEW c \in Conns, AskAnother(c)
  PROVE  Asks(c)
<1>1. "blocked" \in Kinds
  BY Zenon DEF Kinds
<1> QED BY <1>1, Zenon DEF Asks, AskAnother, LongestIdle

\* A task that waits in a semaphore's queue, whose permits are all taken.
LEMMA EnqueueKeeps ==
  ASSUME Inv, NEW c \in Conns, stage[c] \in {"new", "hello"}, NEW k \in Kinds,
         ~(free[k] > 0), Enqueue(c, k), Asks(c), UNCHANGED <<slot, free, look>>
  PROVE  Inv'
<1>0. /\ Types /\ QueuesInv /\ QuietInv /\ WaitsInv
      /\ OwnersInv /\ CountsInv /\ FreeInv /\ AskedInv
      /\ queue \in [Kinds -> Seq(Conns)] /\ left \in [Conns -> Nat]
      /\ stage \in [Conns -> Stages] /\ free \in [Kinds -> Nat]
      /\ "waits" \in Stages /\ stage[c] # "waits" /\ stage[c] # "open"
  BY Zenon DEF Inv, Types, Stages
<1>1. /\ stage' \in [Conns -> Stages] /\ stage'[c] = "waits"
      /\ \A x \in Conns : x # c => stage'[x] = stage[x]
  BY <1>0, Update, Zenon DEF Enqueue
<1>2. WaitFor(k) \in Nat
  BY Durations DEF WaitFor
<1>3. /\ left' \in [Conns -> Nat] /\ \A x \in Conns : x # c => left'[x] = left[x]
  BY <1>0, <1>2, Update, Zenon DEF Enqueue
<1>4. /\ queue' \in [Kinds -> Seq(Conns)] /\ Distinct(queue')
      /\ \A x : Queued(queue', x) <=> Queued(queue, x) \/ x = c
  <2>1. PICK Q, R : Q = queue /\ R = queue'
    BY Zenon
  <2>2. PICK q : q = Append(Q[k], c)
    BY Zenon
  <2>3. Q \in [Kinds -> Seq(Conns)] /\ Distinct(Q) /\ ~Queued(Q, c)
    BY <1>0, <2>1, Zenon DEF QueuesInv
  <2>4. R = [Q EXCEPT ![k] = q]
    BY <2>1, <2>2, Zenon DEF Enqueue
  <2>5. /\ R \in [Kinds -> Seq(Conns)] /\ Distinct(R)
        /\ \A x : Queued(R, x) <=> Queued(Q, x) \/ x = c
    BY <2>2, <2>3, <2>4, Enqueued, ZenonT(40)
  <2> QED BY <2>1, <2>5
<1>5. /\ activity' \in [Conns -> Activities]
      /\ asked' \in [Conns -> Conns \cup {none}]
      /\ \A x \in Conns : x # c => asked'[x] = asked[x]
      /\ QuietInv' /\ AskedInv'
  <2>1. \A x \in Conns : stage'[x] = "open" <=> stage[x] = "open"
    BY <1>0, <1>1, Zenon
  <2> QED BY <1>0, <2>1, AsksKeeps, Zenon
<1>6. QueuesInv'
  BY <1>0, <1>1, <1>4, Zenon DEF QueuesInv
<1>7. WaitsInv'
  <2>1. ~look'[c]
    BY <1>0, Zenon DEF WaitsInv
  <2>2. \A x \in Conns : x # c => /\ stage'[x] = stage[x] /\ asked'[x] = asked[x]
                                  /\ left'[x] = left[x] /\ look'[x] = look[x]
    BY <1>1, <1>3, <1>5, Zenon
  <2> QED BY <1>0, <1>1, <2>1, <2>2, Zenon DEF WaitsInv
<1>8. OwnersInv'
  BY <1>0, <1>1, Zenon DEF OwnersInv
<1>9. CountsInv'
  BY <1>0, PermitsSame, Zenon
<1>10. FreeInv'
  <2>1. free[k] = 0
    BY <1>0
  <2>2. \A l \in Kinds : l # k => queue'[l] = queue[l]
    BY <1>0, Zenon DEF Enqueue
  <2> QED BY <1>0, <2>1, <2>2, Zenon DEF FreeInv
<1>11. Types'
  BY <1>0, <1>1, <1>3, <1>4, <1>5, Zenon DEF Types
<1> QED BY <1>5, <1>6, <1>7, <1>8, <1>9, <1>10, <1>11, Zenon DEF Inv

\* A task that leaves the queue at its deadline.
LEMMA StopQueues ==
  ASSUME Types, QueuesInv, NEW c \in Conns, NEW k \in Kinds, StopWaiting(c, k)
  PROVE  /\ queue' \in [Kinds -> Seq(Conns)] /\ Distinct(queue')
         /\ \A x : Queued(queue', x) <=> Queued(queue, x) /\ x # c
         /\ \A l \in Kinds : queue'[l] # <<>> => queue[l] # <<>>
<1>0. queue \in [Kinds -> Seq(Conns)] /\ Distinct(queue)
  BY Zenon DEF Types, QueuesInv
<1>1. PICK i \in DOMAIN queue[k] :
        queue[k][i] = c /\ queue' = [queue EXCEPT ![k] = Without(queue[k], i)]
  BY Zenon DEF StopWaiting
<1>2. PICK Q, R : Q = queue /\ R = queue'
  BY Zenon
<1>3. PICK r : r = Without(Q[k], i)
  BY Zenon
<1>4. /\ Q \in [Kinds -> Seq(Conns)] /\ Distinct(Q) /\ i \in DOMAIN Q[k]
      /\ Q[k][i] = c /\ R = [Q EXCEPT ![k] = r] /\ Q[k] \in Seq(Conns)
  BY <1>0, <1>1, <1>2, <1>3
<1>5. r \in Seq(Conns) /\ Removed(Q[k], r, i)
  BY <1>3, <1>4, WithoutIs, Zenon
<1>6. /\ R \in [Kinds -> Seq(Conns)] /\ Distinct(R)
      /\ \A x : Queued(R, x) <=> Queued(Q, x) /\ x # Q[k][i]
  BY <1>4, <1>5, Dequeued
<1>7. \A l \in Kinds : R[l] # <<>> => Q[l] # <<>>
  <2>1. Q[k] # <<>>
    BY <1>4
  <2> QED BY <1>4, <2>1, Zenon
<1> QED BY <1>2, <1>4, <1>6, <1>7

\* A task whose time is up has no retry timer that fired.
LEMMA DueAsWas ==
  ASSUME WaitsInv, NEW c \in Conns, left[c] = 0, UNCHANGED <<left, look>>
  PROVE  /\ left'[c] = 0 /\ ~look'[c]
         /\ \A x \in Conns : x # c => left'[x] = left[x] /\ look'[x] = look[x]
<1>1. look[c] => left[c] > 0
  BY Zenon DEF WaitsInv
<1>2. ~look[c]
  BY <1>1
<1> QED BY <1>2, Zenon

LEMMA StopKeeps ==
  ASSUME Types, QueuesInv, QuietInv, WaitsInv, AskedInv, NEW c \in Conns,
         NEW k \in Kinds, stage[c] = "waits", StopWaiting(c, k),
         NEW st \in {"new", "tunnel"}, stage' = [stage EXCEPT ![c] = st],
         left'[c] = 0, ~look'[c],
         \A x \in Conns : x # c => left'[x] = left[x] /\ look'[x] = look[x],
         UNCHANGED activity
  PROVE  /\ stage' \in [Conns -> Stages] /\ asked' \in [Conns -> Conns \cup {none}]
         /\ QueuesInv' /\ QuietInv' /\ WaitsInv' /\ AskedInv'
<1>0. /\ stage \in [Conns -> Stages] /\ asked \in [Conns -> Conns \cup {none}]
      /\ st \in Stages /\ st # "waits" /\ st # "open"
  BY Zenon DEF Types, Stages
<1>1. /\ stage' \in [Conns -> Stages] /\ stage'[c] = st
      /\ \A x \in Conns : x # c => stage'[x] = stage[x]
  BY <1>0, Update, Zenon
<1>2. /\ asked' \in [Conns -> Conns \cup {none}] /\ asked'[c] = none
      /\ \A x \in Conns : x # c => asked'[x] = asked[x]
  <2>1. asked' = [asked EXCEPT ![c] = none]
    BY Zenon DEF StopWaiting
  <2> QED BY <1>0, <2>1, Update, Zenon
<1>3. QueuesInv'
  <2>1. Distinct(queue') /\ \A x : Queued(queue', x) <=> Queued(queue, x) /\ x # c
    BY StopQueues, Zenon
  <2> QED BY <1>0, <1>1, <2>1, Zenon DEF QueuesInv
<1>4. QuietInv'
  BY <1>1, Zenon DEF QuietInv
<1>5. WaitsInv'
  <2> SUFFICES ASSUME NEW x \in Conns
               PROVE  /\ stage'[x] # "waits" => asked'[x] = none /\ left'[x] = 0 /\ ~look'[x]
                      /\ look'[x] => left'[x] > 0
    BY Zenon DEF WaitsInv
  <2>1. CASE x = c
    BY <1>1, <1>2, <2>1, Zenon
  <2>2. CASE x # c
    <3>1. /\ stage'[x] = stage[x] /\ asked'[x] = asked[x]
          /\ left'[x] = left[x] /\ look'[x] = look[x]
      BY <1>1, <1>2, <2>2, Zenon
    <3> QED BY <3>1, Zenon DEF WaitsInv
  <2> QED BY <2>1, <2>2, Zenon
<1>6. AskedInv'
  <2>1. \A x \in Conns : asked'[x] # none =>
          stage'[asked'[x]] = "open" /\ activity'[asked'[x]].close_requested
    <3> SUFFICES ASSUME NEW x \in Conns, asked'[x] # none
                 PROVE  stage'[asked'[x]] = "open" /\ activity'[asked'[x]].close_requested
      BY Zenon
    <3>1. PICK e : e = asked[x]
      BY Zenon
    <3>2. x # c /\ asked'[x] = e /\ e # none /\ e \in Conns
      BY <1>0, <1>2, <3>1
    <3>3. stage[e] = "open" /\ activity[e].close_requested
      BY <3>1, <3>2 DEF AskedInv
    <3>4. stage'[e] = "open"
      BY <1>1, <3>2, <3>3
    <3> QED BY <3>2, <3>3, <3>4
  <2>2. \A x, y \in Conns : asked'[x] # none /\ asked'[x] = asked'[y] => x = y
    BY <1>2 DEF AskedInv
  <2> QED BY <2>1, <2>2, Zenon DEF AskedInv
<1> QED BY <1>1, <1>2, <1>3, <1>4, <1>5, <1>6, Zenon

\* InterceptTimeout: the host is tunnelled instead, or closed.
LEMMA InterceptTimeoutKeeps ==
  ASSUME Inv, NEW c \in Conns, InterceptTimeout(c)
  PROVE  Inv'
<1>0. /\ Types /\ QueuesInv /\ QuietInv /\ WaitsInv
      /\ OwnersInv /\ CountsInv /\ FreeInv /\ AskedInv /\ "intercept" \in Kinds
  BY Zenon DEF Inv, Kinds
<1>1. /\ stage[c] = "waits" /\ left[c] = 0 /\ StopWaiting(c, "intercept")
      /\ Passthrough(c) /\ UNCHANGED <<left, look, activity>>
  BY Zenon DEF InterceptTimeout
<1>2. /\ queue' \in [Kinds -> Seq(Conns)]
      /\ \A l \in Kinds : queue'[l] # <<>> => queue[l] # <<>>
  BY <1>0, <1>1, StopQueues, Zenon
<1>3. slot[c] = none
  BY <1>0, <1>1, Zenon DEF OwnersInv
<1>4. /\ \E st \in {"new", "tunnel"} : stage' = [stage EXCEPT ![c] = st]
      /\ slot' \in [Conns -> Kinds \cup {none}] /\ free' \in [Kinds -> Nat]
      /\ OwnersInv' /\ CountsInv' /\ FreeInv'
  BY <1>0, <1>1, <1>2, <1>3, PassthroughIs, Zenon
<1>5. PICK st \in {"new", "tunnel"} : stage' = [stage EXCEPT ![c] = st]
  BY <1>4, Zenon
<1>6. /\ stage' \in [Conns -> Stages] /\ asked' \in [Conns -> Conns \cup {none}]
      /\ QueuesInv' /\ QuietInv' /\ WaitsInv' /\ AskedInv'
  BY <1>0, <1>1, <1>5, DueAsWas, StopKeeps, Zenon
<1>7. Types'
  BY <1>0, <1>1, <1>2, <1>4, <1>6, Zenon DEF Types
<1> QED BY <1>4, <1>6, <1>7, Zenon DEF Inv

\* BlockedTimeout: the host is refused.
LEMMA BlockedTimeoutKeeps ==
  ASSUME Inv, NEW c \in Conns, BlockedTimeout(c)
  PROVE  Inv'
<1>0. /\ Types /\ QueuesInv /\ QuietInv /\ WaitsInv
      /\ OwnersInv /\ CountsInv /\ FreeInv /\ AskedInv /\ "blocked" \in Kinds
  BY Zenon DEF Inv, Kinds
<1>1. /\ stage[c] = "waits" /\ left[c] = 0 /\ StopWaiting(c, "blocked")
      /\ stage' = [stage EXCEPT ![c] = "new"] /\ UNCHANGED <<slot, free>>
      /\ UNCHANGED <<left, look, activity>>
  BY Zenon DEF BlockedTimeout
<1>2. /\ queue' \in [Kinds -> Seq(Conns)]
      /\ \A l \in Kinds : queue'[l] # <<>> => queue[l] # <<>>
  BY <1>0, <1>1, StopQueues, Zenon
<1>3. /\ stage' \in [Conns -> Stages] /\ asked' \in [Conns -> Conns \cup {none}]
      /\ QueuesInv' /\ QuietInv' /\ WaitsInv' /\ AskedInv'
  BY <1>0, <1>1, DueAsWas, StopKeeps, Zenon
<1>4. OwnersInv'
  <2>1. \A x \in Conns : x # c => stage'[x] = stage[x]
    BY <1>0, <1>1, Zenon DEF Types
  <2>2. slot[c] = none
    BY <1>0, <1>1, Zenon DEF OwnersInv
  <2> QED BY <1>0, <1>1, <2>1, <2>2, Zenon DEF OwnersInv
<1>5. CountsInv' /\ FreeInv'
  BY <1>0, <1>1, <1>2, PermitsSame, Zenon DEF FreeInv
<1>6. Types'
  BY <1>0, <1>1, <1>2, <1>3, Zenon DEF Types
<1> QED BY <1>3, <1>4, <1>5, <1>6, Zenon DEF Inv

\* HangsUp: the client of a blocked host that waits goes away.
LEMMA HangsUpKeeps ==
  ASSUME Inv, NEW c \in Conns, HangsUp(c)
  PROVE  Inv'
<1>0. /\ Types /\ QueuesInv /\ QuietInv /\ WaitsInv
      /\ OwnersInv /\ CountsInv /\ FreeInv /\ AskedInv /\ "blocked" \in Kinds
  BY Zenon DEF Inv, Kinds
<1>1. /\ stage[c] = "waits" /\ StopWaiting(c, "blocked")
      /\ stage' = [stage EXCEPT ![c] = "new"] /\ UNCHANGED <<slot, free>>
      /\ left' = [left EXCEPT ![c] = 0] /\ look' = [look EXCEPT ![c] = FALSE]
      /\ UNCHANGED activity
  BY Zenon DEF HangsUp
<1>2. /\ queue' \in [Kinds -> Seq(Conns)]
      /\ \A l \in Kinds : queue'[l] # <<>> => queue[l] # <<>>
  BY <1>0, <1>1, StopQueues, Zenon
<1>3. /\ left' \in [Conns -> Nat] /\ left'[c] = 0
      /\ \A x \in Conns : x # c => left'[x] = left[x]
  <2>1. 0 \in Nat /\ left \in [Conns -> Nat]
    BY <1>0 DEF Types
  <2> QED BY <1>1, <2>1, Update, Zenon
<1>4. /\ look' \in [Conns -> BOOLEAN] /\ ~look'[c]
      /\ \A x \in Conns : x # c => look'[x] = look[x]
  <2>1. look \in [Conns -> BOOLEAN] /\ FALSE \in BOOLEAN
    BY <1>0, Zenon DEF Types
  <2>2. /\ look' \in [Conns -> BOOLEAN] /\ look'[c] = FALSE
        /\ \A x \in Conns : x # c => look'[x] = look[x]
    BY <1>1, <2>1, Update, Zenon
  <2> QED BY <2>2, Zenon
<1>5. /\ stage' \in [Conns -> Stages] /\ asked' \in [Conns -> Conns \cup {none}]
      /\ QueuesInv' /\ QuietInv' /\ WaitsInv' /\ AskedInv'
  BY <1>0, <1>1, <1>3, <1>4, StopKeeps, Zenon
<1>6. OwnersInv'
  <2>1. \A x \in Conns : x # c => stage'[x] = stage[x]
    BY <1>0, <1>1, Zenon DEF Types
  <2>2. slot[c] = none
    BY <1>0, <1>1, Zenon DEF OwnersInv
  <2> QED BY <1>0, <1>1, <2>1, <2>2, Zenon DEF OwnersInv
<1>7. CountsInv' /\ FreeInv'
  BY <1>0, <1>1, <1>2, PermitsSame, Zenon DEF FreeInv
<1>8. Types'
  BY <1>0, <1>1, <1>2, <1>3, <1>4, <1>5, Zenon DEF Types
<1> QED BY <1>5, <1>6, <1>7, <1>8, Zenon DEF Inv

\* LookAgain: a blocked host's task asks again, if the one it asked is gone.
LEMMA LookAgainKeeps ==
  ASSUME Inv, NEW c \in Conns, LookAgain(c)
  PROVE  Inv'
<1>0. /\ Types /\ QueuesInv /\ QuietInv /\ WaitsInv
      /\ OwnersInv /\ CountsInv /\ FreeInv /\ AskedInv
  BY Zenon DEF Inv
<1>1. /\ look[c] /\ look' = [look EXCEPT ![c] = FALSE] /\ AskAnother(c)
      /\ UNCHANGED <<stage, slot, free, queue, left>>
  BY Zenon DEF LookAgain
<1>2. Asks(c)
  BY <1>1, AskAnotherAsks, Zenon
<1>3. /\ activity' \in [Conns -> Activities]
      /\ asked' \in [Conns -> Conns \cup {none}]
      /\ \A x \in Conns : x # c => asked'[x] = asked[x]
      /\ QuietInv' /\ AskedInv'
  BY <1>0, <1>1, <1>2, AsksKeeps, Zenon
<1>4. /\ look' \in [Conns -> BOOLEAN] /\ look'[c] = FALSE
      /\ \A x \in Conns : x # c => look'[x] = look[x]
  <2>1. look \in [Conns -> BOOLEAN] /\ FALSE \in BOOLEAN
    BY <1>0, Zenon DEF Types
  <2> QED BY <1>1, <2>1, Update, Zenon
<1>5. stage[c] = "waits"
  BY <1>0, <1>1, Zenon DEF WaitsInv
<1>6. WaitsInv'
  BY <1>0, <1>1, <1>3, <1>4, <1>5, Zenon DEF WaitsInv
<1>7. QueuesInv' /\ OwnersInv' /\ CountsInv' /\ FreeInv'
  BY <1>0, <1>1, PermitsSame, Zenon DEF QueuesInv, OwnersInv, FreeInv
<1>8. Types'
  BY <1>0, <1>1, <1>3, <1>4, Zenon DEF Types
<1> QED BY <1>3, <1>6, <1>7, <1>8, Zenon DEF Inv

\* blocked_slot, of a connection that is not yet in a queue.
LEMMA BlockedSlotKeeps ==
  ASSUME Inv, NEW c \in Conns, stage[c] \in {"new", "hello"}, BlockedSlot(c), look' = look
  PROVE  Inv'
<1>0. "blocked" \in Kinds
  BY Zenon DEF Kinds
<1>1. CASE free["blocked"] > 0
  <2>1. /\ TryAcquire(c, "blocked", "handshake")
        /\ UNCHANGED <<queue, left, look, asked, activity>>
    BY <1>1, Zenon DEF BlockedSlot
  <2> QED BY <1>0, <2>1, AcquiresKeeps, Zenon
<1>2. CASE ~(free["blocked"] > 0)
  <2>1. /\ Enqueue(c, "blocked") /\ AskAnother(c) /\ UNCHANGED <<slot, free, look>>
    BY <1>2, Zenon DEF BlockedSlot
  <2>2. Asks(c)
    BY <2>1, AskAnotherAsks, Zenon
  <2> QED BY <1>0, <1>2, <2>1, <2>2, EnqueueKeeps, Zenon
<1> QED BY <1>1, <1>2, Zenon

\* plan, with intercept_slot.
LEMMA PlanInterceptKeeps ==
  ASSUME Inv, NEW c \in Conns, PlanIntercept(c)
  PROVE  Inv'
<1>0. "intercept" \in Kinds /\ stage[c] = "hello" /\ asked[c] = none
  BY Zenon DEF Kinds, PlanIntercept, Inv, WaitsInv
<1> DEFINE idle == LongestIdle("intercept", MIN_IDLE_TO_RECLAIM)
<1>1. CASE free["intercept"] > 0
  <2>1. /\ TryAcquire(c, "intercept", "handshake")
        /\ UNCHANGED <<queue, left, look, asked, activity>>
    BY <1>1, Zenon DEF PlanIntercept
  <2> QED BY <1>0, <2>1, AcquiresKeeps, Zenon
<1>2. CASE ~(free["intercept"] > 0) /\ idle # {}
  <2>1. /\ Enqueue(c, "intercept") /\ \E d \in idle : Reclaim(c, d)
        /\ UNCHANGED <<slot, free, look>>
    BY <1>2, Zenon DEF PlanIntercept
  <2>2. Asks(c)
    BY <1>0, <2>1, Zenon DEF Asks, LongestIdle
  <2> QED BY <1>0, <1>2, <2>1, <2>2, EnqueueKeeps, Zenon
<1>3. CASE ~(free["intercept"] > 0) /\ idle = {}
  <2>1. Passthrough(c) /\ UNCHANGED <<queue, left, look, asked, activity>>
    BY <1>3, Zenon DEF PlanIntercept
  <2> QED BY <1>0, <2>1, TunnelKeeps, Zenon
<1> QED BY <1>1, <1>2, <1>3, Zenon

\* A step of an open connection, or of the task that serves it, that
\* changes only its Activity and takes back no request to close.
LEMMA ActivityKeeps ==
  ASSUME Inv, NEW c \in Conns, stage[c] = "open", NEW a \in Activities,
         activity[c].close_requested => a.close_requested,
         activity' = [activity EXCEPT ![c] = a], Unchanged
  PROVE  Inv'
<1>0. /\ Types /\ QueuesInv /\ QuietInv /\ WaitsInv
      /\ OwnersInv /\ CountsInv /\ FreeInv /\ AskedInv
  BY Zenon DEF Inv
<1>1. UNCHANGED <<stage, slot, free, queue, left, look, asked>>
  BY Zenon DEF Unchanged
<1>2. /\ activity' \in [Conns -> Activities] /\ activity'[c] = a
      /\ \A x \in Conns : x # c => activity'[x] = activity[x]
  BY <1>0, Update, ZenonT(40) DEF Types
<1>3. Types'
  BY <1>0, <1>1, <1>2, Zenon DEF Types
<1>4. QueuesInv' /\ WaitsInv' /\ OwnersInv' /\ CountsInv' /\ FreeInv'
  BY <1>0, <1>1, PermitsSame, Zenon DEF QueuesInv, WaitsInv, OwnersInv, FreeInv
<1>5. QuietInv'
  BY <1>0, <1>1, <1>2, Zenon DEF QuietInv
<1>6. AskedInv'
  <2>1. \A x \in Conns : activity[x].close_requested => activity'[x].close_requested
    BY <1>2
  <2>2. \A x \in Conns : asked[x] # none => asked[x] \in Conns
    BY <1>0, Zenon DEF Types
  <2> QED BY <1>0, <1>1, <2>1, <2>2, Zenon DEF AskedInv
<1> QED BY <1>3, <1>4, <1>5, <1>6, Zenon DEF Inv

LEMMA OpenActivity ==
  ASSUME Inv, NEW c \in Conns
  PROVE  /\ activity[c] \in Activities
         /\ activity[c].notified \/ activity[c].closing => stage[c] = "open"
<1>1. activity[c] \in Activities /\ (stage[c] # "open" => activity[c] = NewActivity)
  BY Zenon DEF Inv, Types, QuietInv
<1>2. ~NewActivity.notified /\ ~NewActivity.closing
  BY DEF NewActivity
<1> QED BY <1>1, <1>2

LEMMA ShutdownIs ==
  ASSUME NEW a \in Activities
  PROVE  /\ grace(a) \in 0..CLOSE_GRACE
         /\ Shutdown(a) \in Activities
         /\ Shutdown(a).close_requested = a.close_requested
<1>1. grace(a) \in 0..CLOSE_GRACE
  BY Durations DEF grace
<1> QED BY <1>1 DEF Activities, Shutdown

LEMMA CountedIs ==
  ASSUME NEW a \in Activities, a.closing => a.late < MaxLate
  PROVE  /\ Counted(a) \in Activities
         /\ Counted(a).close_requested = a.close_requested
<1>1. PICK n : n = IF a.closing THEN a.late + 1 ELSE 0
  BY Zenon
<1>2. n \in 0..MaxLate
  <2>1. a.late \in 0..MaxLate
    BY DEF Activities
  <2> QED BY <1>1, <2>1, Bounds
<1>3. Counted(a) = [a EXCEPT !.late = n]
  BY <1>1, Zenon DEF Counted
<1> QED BY <1>2, <1>3 DEF Activities

LEMMA BusyIs ==
  ASSUME NEW a \in Activities, NEW n \in 0..1,
         NEW e, e = [a EXCEPT !.in_flight = n, !.idle = 0]
  PROVE  e \in Activities /\ e.close_requested = a.close_requested
<1>1. PICK b : b = [a EXCEPT !.idle = 0]
  BY Zenon
<1>2. b \in Activities /\ b.close_requested = a.close_requested
  BY <1>1, Bounds DEF Activities
<1>3. PICK d : d = [b EXCEPT !.in_flight = n]
  BY Zenon
<1>4. d \in Activities /\ d.close_requested = b.close_requested
  BY <1>2, <1>3 DEF Activities
<1>5. d = e
  BY <1>1, <1>3 DEF Activities
<1> QED BY <1>2, <1>4, <1>5

LEMMA RequestStartsKeeps ==
  ASSUME Inv, NEW c \in Conns, RequestStarts(c)
  PROVE  Inv'
<1>1. activity[c] \in Activities /\ stage[c] = "open" /\ Unchanged
  BY OpenActivity, Zenon DEF RequestStarts, MaySend
<1>2. PICK a : a = [Counted(activity[c]) EXCEPT !.in_flight = 1, !.idle = 0]
  BY Zenon
<1>3. a \in Activities /\ a.close_requested = activity[c].close_requested
  <2>1. activity[c].closing => activity[c].late < MaxLate
    BY Zenon DEF RequestStarts, MaySend
  <2>2. /\ Counted(activity[c]) \in Activities
        /\ Counted(activity[c]).close_requested = activity[c].close_requested
    BY <1>1, <2>1, CountedIs, Zenon
  <2>3. 1 \in 0..1
    OBVIOUS
  <2>4. /\ a \in Activities
        /\ a.close_requested = Counted(activity[c]).close_requested
    BY <1>2, <2>2, <2>3, BusyIs, Zenon
  <2> QED BY <2>2, <2>4
<1>4. activity' = [activity EXCEPT ![c] = a]
  BY <1>2, Zenon DEF RequestStarts
<1> QED BY <1>1, <1>3, <1>4, ActivityKeeps, Zenon

LEMMA RequestClosesKeeps ==
  ASSUME Inv, NEW c \in Conns, RequestCloses(c)
  PROVE  Inv'
<1>1. activity[c] \in Activities /\ stage[c] = "open" /\ Unchanged
  BY OpenActivity, Zenon DEF RequestCloses
<1>2. PICK a : a = Closed(activity[c])
  BY Zenon
<1>3. a \in Activities /\ a.close_requested
  BY <1>1, <1>2, Bounds DEF Activities, Closed
<1>4. activity' = [activity EXCEPT ![c] = a]
  BY <1>2, Zenon DEF RequestCloses
<1> QED BY <1>1, <1>3, <1>4, ActivityKeeps, Zenon

LEMMA RequestEndsKeeps ==
  ASSUME Inv, NEW c \in Conns, RequestEnds(c)
  PROVE  Inv'
<1>1. /\ activity[c] \in Activities /\ stage[c] = "open" /\ Unchanged
      /\ activity \in [Conns -> Activities]
  BY OpenActivity, Zenon DEF RequestEnds, Inv, Types
<1>2. PICK a : a = [activity[c] EXCEPT !.in_flight = 0, !.idle = 0]
  BY Zenon
<1>3. a \in Activities /\ a.close_requested = activity[c].close_requested
  <2>1. 0 \in 0..1
    OBVIOUS
  <2> QED BY <1>1, <1>2, <2>1, BusyIs, Zenon
<1>4. activity' = [activity EXCEPT ![c] = a]
  BY <1>1, <1>2 DEF RequestEnds
<1> QED BY <1>1, <1>3, <1>4, ActivityKeeps, Zenon

LEMMA BlockedRequestKeeps ==
  ASSUME Inv, NEW c \in Conns, BlockedRequest(c)
  PROVE  Inv'
<1>1. activity[c] \in Activities /\ stage[c] = "open" /\ Unchanged
  BY OpenActivity, Zenon DEF BlockedRequest, MaySend
<1>2. PICK a : a = [Counted(activity[c]) EXCEPT !.idle = 0]
  BY Zenon
<1>3. a \in Activities /\ a.close_requested = activity[c].close_requested
  <2>1. activity[c].closing => activity[c].late < MaxLate
    BY Zenon DEF BlockedRequest, MaySend
  <2>2. /\ Counted(activity[c]) \in Activities
        /\ Counted(activity[c]).close_requested = activity[c].close_requested
    BY <1>1, <2>1, CountedIs, Zenon
  <2> QED BY <1>2, <2>2, Bounds DEF Activities
<1>4. Closed(a) \in Activities /\ Closed(a).close_requested
  BY <1>3, Bounds DEF Activities, Closed
<1>5. \E b \in {a, Closed(a)} : activity' = [activity EXCEPT ![c] = b]
  BY <1>2, Zenon DEF BlockedRequest
<1>6. PICK b \in {a, Closed(a)} : activity' = [activity EXCEPT ![c] = b]
  BY <1>5, Zenon
<1>7. b \in Activities /\ (activity[c].close_requested => b.close_requested)
  BY <1>3, <1>4, <1>6
<1> QED BY <1>1, <1>6, <1>7, ActivityKeeps, Zenon

LEMMA NotifiedKeeps ==
  ASSUME Inv, NEW c \in Conns, Notified(c)
  PROVE  Inv'
<1>1. activity[c] \in Activities /\ stage[c] = "open" /\ Unchanged
  BY OpenActivity, Zenon DEF Notified
<1>2. PICK a : a = [activity[c] EXCEPT !.notified = FALSE]
  BY Zenon
<1>3. a \in Activities /\ a.close_requested = activity[c].close_requested
  BY <1>1, <1>2 DEF Activities
<1>4. PICK b : b = [a EXCEPT !.drop_in = IF grace(a) < a.drop_in THEN grace(a)
                                         ELSE a.drop_in]
  BY Zenon
<1>5. b \in Activities /\ b.close_requested = a.close_requested
  <2>1. grace(a) \in 0..CLOSE_GRACE
    BY <1>3, ShutdownIs, Zenon
  <2> QED BY <1>3, <1>4, <2>1 DEF Activities
<1>6. PICK d \in {b, Shutdown(a)} : activity' = [activity EXCEPT ![c] = d]
  BY <1>2, <1>4, Zenon DEF Notified
<1>7. d \in Activities /\ (activity[c].close_requested => d.close_requested)
  BY <1>3, <1>5, <1>6, ShutdownIs
<1> QED BY <1>1, <1>6, <1>7, ActivityKeeps, Zenon

LEMMA IdleShutdownKeeps ==
  ASSUME Inv, NEW c \in Conns, IdleShutdown(c)
  PROVE  Inv'
<1>1. activity[c] \in Activities /\ stage[c] = "open" /\ Unchanged
  BY OpenActivity, Zenon DEF IdleShutdown, IdleDue
<1>2. PICK a : a = Shutdown(activity[c])
  BY Zenon
<1>3. a \in Activities /\ a.close_requested = activity[c].close_requested
  BY <1>1, <1>2, ShutdownIs
<1>4. activity' = [activity EXCEPT ![c] = a]
  BY <1>2, Zenon DEF IdleShutdown
<1> QED BY <1>1, <1>3, <1>4, ActivityKeeps, Zenon

LEMMA PutOffKeeps ==
  ASSUME Inv, NEW c \in Conns, PutOff(c)
  PROVE  Inv'
<1>1. /\ activity[c] \in Activities /\ stage[c] = "open" /\ Unchanged
      /\ activity \in [Conns -> Activities]
  BY OpenActivity, Zenon DEF PutOff, DropDue, Inv, Types
<1>2. PICK a : a = [activity[c] EXCEPT !.drop_in = grace(activity[c]), !.extended = TRUE]
  BY Zenon
<1>3. a \in Activities /\ a.close_requested = activity[c].close_requested
  <2>1. grace(activity[c]) \in 0..CLOSE_GRACE
    BY <1>1, ShutdownIs, Zenon
  <2> QED BY <1>1, <1>2, <2>1 DEF Activities
<1>4. activity' = [activity EXCEPT ![c] = a]
  BY <1>1, <1>2 DEF PutOff
<1> QED BY <1>1, <1>3, <1>4, ActivityKeeps, Zenon

\* The clock: nothing is due, so no timer goes below zero.
LEMMA OlderIs ==
  ASSUME Inv, ~Urgent, NEW c \in Conns
  PROVE  /\ Older(c) \in Activities
         /\ Older(c).close_requested = activity[c].close_requested
         /\ stage[c] # "open" => Older(c) = NewActivity
<1>1. activity[c] \in Activities
  BY OpenActivity, Zenon
<1>2. PICK a : a = activity[c]
  BY Zenon
<1>3. PICK i : i = IF /\ stage[c] = "open" /\ a.in_flight = 0
                      /\ ~a.close_requested /\ a.idle < idle_timeout
                   THEN a.idle + 1 ELSE a.idle
  BY Zenon
<1>4. PICK d : d = IF a.closing THEN a.drop_in - 1 ELSE a.drop_in
  BY Zenon
<1>5. a \in Activities /\ a.idle \in 0..idle_timeout /\ a.drop_in \in 0..CLOSE_GRACE
  BY <1>1, <1>2 DEF Activities
<1>6. i \in 0..idle_timeout
  BY <1>3, <1>5, Bounds
<1>7. d \in 0..CLOSE_GRACE
  <2>1. a.closing => a.drop_in # 0
    BY <1>2 DEF Urgent, DropDue
  <2> QED BY <1>4, <1>5, <2>1, Bounds
<1>8. Older(c) = [a EXCEPT !.idle = i, !.drop_in = d]
  BY <1>2, <1>3, <1>4 DEF Older
<1>9. Older(c) \in Activities /\ Older(c).close_requested = a.close_requested
  BY <1>5, <1>6, <1>7, <1>8 DEF Activities
<1>10. ASSUME stage[c] # "open" PROVE Older(c) = NewActivity
  <2>1. a = NewActivity
    BY <1>2, <1>10, Zenon DEF Inv, QuietInv
  <2>2. i = a.idle /\ d = a.drop_in
    BY <1>3, <1>4, <1>10, <2>1 DEF NewActivity
  <2> QED BY <1>8, <2>1, <2>2 DEF NewActivity
<1> QED BY <1>2, <1>9, <1>10

LEMMA TickKeeps ==
  ASSUME Inv, Tick
  PROVE  Inv'
<1>0. /\ Types /\ QueuesInv /\ QuietInv /\ WaitsInv
      /\ OwnersInv /\ CountsInv /\ FreeInv /\ AskedInv
  BY Zenon DEF Inv
<1>1. /\ ~Urgent /\ activity' = [c \in Conns |-> Older(c)]
      /\ left' = [c \in Conns |-> IF stage[c] = "waits" THEN left[c] - 1 ELSE 0]
      /\ look' = [c \in Conns |-> c \in Range(queue["blocked"]) /\ left[c] > 1]
      /\ UNCHANGED <<stage, slot, free, queue, asked>>
  BY Zenon DEF Tick
<1>2. \A c \in Conns : /\ Older(c) \in Activities
                       /\ Older(c).close_requested = activity[c].close_requested
                       /\ stage[c] # "open" => Older(c) = NewActivity
  BY <1>1, OlderIs, Zenon
<1>3. activity' \in [Conns -> Activities] /\ \A c \in Conns : activity'[c] = Older(c)
  BY <1>1, <1>2, Zenon
<1>4. ASSUME NEW c \in Conns
      PROVE  /\ left'[c] \in Nat
             /\ stage[c] # "waits" => left'[c] = 0 /\ ~look'[c]
             /\ look'[c] => left'[c] > 0
             /\ look'[c] \in BOOLEAN
  <2>1. left'[c] = IF stage[c] = "waits" THEN left[c] - 1 ELSE 0
    BY <1>1, Zenon
  <2>2. look'[c] <=> c \in Range(queue["blocked"]) /\ left[c] > 1
    BY <1>1, Zenon
  <2>3. c \in Range(queue["blocked"]) => stage[c] = "waits"
    BY <1>0, Zenon DEF Range, QueuesInv, Queued, Kinds
  <2>4. left[c] \in Nat
    BY <1>0, Zenon DEF Types
  <2>5. stage[c] = "waits" => left[c] # 0
    BY <1>1, Zenon DEF Urgent
  <2>6. left'[c] \in Nat
    BY <2>1, <2>4, <2>5
  <2>7. left[c] > 1 => left[c] - 1 > 0
    BY <2>4
  <2>8. look'[c] => left'[c] > 0
    BY <2>1, <2>2, <2>3, <2>7, Zenon
  <2>9. look'[c] \in BOOLEAN
    BY <1>1, Zenon
  <2> QED BY <2>1, <2>2, <2>3, <2>6, <2>8, <2>9, Zenon
<1>5. left' \in [Conns -> Nat] /\ look' \in [Conns -> BOOLEAN]
  <2>1. left' = [c \in Conns |-> left'[c]] /\ look' = [c \in Conns |-> look'[c]]
    BY <1>1, Zenon
  <2> QED BY <1>4, <2>1, Zenon
<1>6. Types'
  BY <1>0, <1>1, <1>3, <1>5, Zenon DEF Types
<1>7. QuietInv'
  BY <1>1, <1>2, <1>3, Zenon DEF QuietInv
<1>8. WaitsInv'
  BY <1>0, <1>1, <1>4, Zenon DEF WaitsInv
<1>9. QueuesInv' /\ OwnersInv' /\ CountsInv' /\ FreeInv'
  BY <1>0, <1>1, PermitsSame, Zenon DEF QueuesInv, OwnersInv, FreeInv
<1>10. AskedInv'
  <2>1. \A c \in Conns : activity[c].close_requested => activity'[c].close_requested
    BY <1>2, <1>3
  <2>2. \A c \in Conns : asked[c] # none => asked[c] \in Conns
    BY <1>0, Zenon DEF Types
  <2> QED BY <1>0, <1>1, <2>1, <2>2, Zenon DEF AskedInv
<1> QED BY <1>6, <1>7, <1>8, <1>9, <1>10, Zenon DEF Inv

\* A step that changes only the stage of a connection without a place in a
\* queue or an Activity.
LEMMA StageKeeps ==
  ASSUME Inv, NEW c \in Conns, NEW st \in Stages,
         \/ stage[c] = "new" /\ st = "hello"
         \/ stage[c] = "handshake" /\ st = "open",
         stage' = [stage EXCEPT ![c] = st],
         UNCHANGED <<slot, free, queue, left, look, asked, activity>>
  PROVE  Inv'
<1>0. /\ Types /\ QueuesInv /\ QuietInv /\ WaitsInv
      /\ OwnersInv /\ CountsInv /\ FreeInv /\ AskedInv
      /\ stage[c] # "waits" /\ stage[c] # "open" /\ st # "waits"
  BY Zenon DEF Inv
<1>1. /\ stage' \in [Conns -> Stages]
      /\ QueuesInv' /\ QuietInv' /\ WaitsInv' /\ AskedInv'
  BY <1>0, StageMoves, Zenon
<1>2. stage'[c] = st /\ \A x \in Conns : x # c => stage'[x] = stage[x]
  BY <1>0, Update, Zenon DEF Types
<1>3. OwnersInv'
  BY <1>0, <1>2, Zenon DEF OwnersInv
<1>4. CountsInv' /\ FreeInv'
  BY <1>0, PermitsSame, Zenon DEF FreeInv
<1>5. Types'
  BY <1>0, <1>1, Zenon DEF Types
<1> QED BY <1>1, <1>3, <1>4, <1>5, Zenon DEF Inv
-----------------------------------------------------------------------------
(* The theorem.                                                            *)

LEMMA InvInit ==
  ASSUME Init
  PROVE  Inv
<1>0. none \notin Kinds /\ none \notin Conns
  BY NoneIsNothing, Zenon
<1>1. /\ \A c \in Conns : /\ stage[c] = "new" /\ slot[c] = none /\ left[c] = 0
                          /\ look[c] = FALSE /\ asked[c] = none
                          /\ activity[c] = NewActivity
      /\ \A k \in Kinds : free[k] = max_permits(k) /\ queue[k] = <<>>
  BY Zenon DEF Init
<1>2. \A k \in Kinds : max_permits(k) \in Nat
  BY Slots DEF max_permits
<1>3. Types
  <2>1. "new" \in Stages /\ none \in Kinds \cup {none} /\ none \in Conns \cup {none}
    BY Zenon DEF Stages
  <2>2. /\ stage \in [Conns -> Stages] /\ slot \in [Conns -> Kinds \cup {none}]
        /\ asked \in [Conns -> Conns \cup {none}] /\ look \in [Conns -> BOOLEAN]
        /\ activity \in [Conns -> Activities]
    BY <2>1, NewIsActivity, Zenon DEF Init
  <2>3. free \in [Kinds -> Nat]
    BY <1>2, Zenon DEF Init
  <2>4. left \in [Conns -> Nat] /\ queue \in [Kinds -> Seq(Conns)]
    BY DEF Init
  <2> QED BY <2>2, <2>3, <2>4, Zenon DEF Types
<1>4. \A k \in Kinds : DOMAIN queue[k] = {}
  BY <1>1
<1>5. QueuesInv
  BY <1>1, <1>4, Zenon DEF QueuesInv, Distinct, Queued
<1>6. QuietInv /\ WaitsInv /\ OwnersInv /\ AskedInv
  BY <1>1, Zenon DEF QuietInv, WaitsInv, OwnersInv, AskedInv
<1>7. CountsInv /\ FreeInv
  <2>1. ASSUME NEW k \in Kinds PROVE free[k] + Cardinality(HeldAt(k)) = max_permits(k)
    <3>1. HeldAt(k) = {}
      BY <1>0, <1>1, Zenon DEF HeldAt
    <3>2. Cardinality(HeldAt(k)) = 0
      BY <3>1, FS_EmptySet, Zenon
    <3> QED BY <1>1, <1>2, <3>2
  <2> QED BY <1>1, <2>1, Zenon DEF CountsInv, FreeInv
<1> QED BY <1>3, <1>5, <1>6, <1>7, Zenon DEF Inv

LEMMA InvStep ==
  ASSUME Inv, [Next]_vars
  PROVE  Inv'
<1>1. CASE UNCHANGED vars
  <2>1. \A k : HeldAt(k)' = HeldAt(k)
    BY <1>1, Zenon DEF HeldAt, vars
  <2> QED BY <1>1, <2>1, Zenon DEF Inv, Types, QueuesInv, QuietInv, WaitsInv,
          OwnersInv, CountsInv, FreeInv, AskedInv, vars
<1>2. CASE Tick
  BY <1>2, TickKeeps, Zenon
<1>3. ASSUME NEW c \in Conns, Due(c) PROVE Inv'
  <2>1. ASSUME Drop(c) PROVE Inv'
    <3>1. stage[c] = "open"
      BY <2>1, OpenActivity, Zenon DEF Drop, DropDue
    <3>2. Release(c, "new")
      BY <2>1, Zenon DEF Drop, End
    <3> QED BY <3>1, <3>2, ReleaseKeeps, Zenon
  <2> QED BY <1>3, <2>1, InterceptTimeoutKeeps, BlockedTimeoutKeeps, LookAgainKeeps,
          NotifiedKeeps, IdleShutdownKeeps, PutOffKeeps, Zenon DEF Due
<1>4. ASSUME NEW c \in Conns, Client(c) PROVE Inv'
  <2>1. CASE ConnectBlocked(c) \/ PlanSink(c)
    BY <2>1, BlockedSlotKeeps, Zenon DEF ConnectBlocked, PlanSink
  <2>2. CASE ConnectPassthrough(c) \/ PlanTunnel(c)
    BY <2>2, TunnelKeeps, Zenon DEF ConnectPassthrough, PlanTunnel
  <2>3. CASE ConnectInspect(c)
    <3>1. "hello" \in Stages
      BY Zenon DEF Stages
    <3> QED BY <2>3, <3>1, StageKeeps, Zenon DEF ConnectInspect
  <2>4. CASE Handshaken(c)
    <3>1. "open" \in Stages
      BY Zenon DEF Stages
    <3> QED BY <2>4, <3>1, StageKeeps, Zenon DEF Handshaken
  <2>5. CASE GivesUp(c) \/ ConnEnds(c)
    BY <2>5, ReleaseKeeps, Zenon DEF GivesUp, ConnEnds, End
  <2>6. CASE NoLeaf(c)
    BY <2>6, ReleaseKeeps, Zenon DEF NoLeaf
  <2>7. CASE PlanIntercept(c)
    BY <2>7, PlanInterceptKeeps, Zenon
  <2>8. CASE RequestStarts(c) \/ RequestCloses(c) \/ BlockedRequest(c)
    BY <2>8, RequestStartsKeeps, RequestClosesKeeps, BlockedRequestKeeps, Zenon
  <2>9. CASE HangsUp(c)
    BY <2>9, HangsUpKeeps, Zenon
  <2> QED BY <1>4, <2>1, <2>2, <2>3, <2>4, <2>5, <2>6, <2>7, <2>8, <2>9, Zenon DEF Client
<1>5. ASSUME NEW c \in Conns, RequestEnds(c) PROVE Inv'
  BY <1>5, RequestEndsKeeps, Zenon
<1> QED BY <1>1, <1>2, <1>3, <1>4, <1>5, Zenon DEF Next

(* No path of CONNECT (connect.rs), of a handshake, of idle::serve or of a *)
(* timeout leaks a permit or returns one twice; none is free while a host  *)
(* waits for it; and no two waiting hosts count on the same connection to  *)
(* close (reclaim_longest_idle, proxy.rs): for every number of             *)
(* connections, all limits and all durations in the order the code asserts.*)
THEOREM SlotsAccountedHolds == Spec => []SlotsAccounted
<1>1. Init => Inv
  BY InvInit
<1>2. Inv /\ [Next]_vars => Inv'
  BY InvStep
<1>3. Inv => SlotsAccounted
  BY InvImplies
<1> QED BY <1>1, <1>2, <1>3, PTL DEF Spec
=============================================================================
