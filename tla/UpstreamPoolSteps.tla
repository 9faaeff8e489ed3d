------------------------- MODULE UpstreamPoolSteps --------------------------
(***************************************************************************)
(* Every step of UpstreamPool is of one of the kinds that UpstreamPoolInv  *)
(* names (StepIs): what it does to one request or connection, to the pools *)
(* and to the permits.                                                     *)
(***************************************************************************)
EXTENDS UpstreamPoolInv, TLAPS

-----------------------------------------------------------------------------
(* The table of origins, its entries and the locals of a request. *)

\* What the constants are (PoolAssumption).
LEMMA Constants ==
  /\ None \notin Requests /\ IsFiniteSet(Requests)
  /\ MAX_CONNECTIONS \in Nat /\ MAX_H1_PER_HOST \in Nat \ {0}
  /\ MaxResets \in Nat /\ None \notin Nat
  /\ PlainHosts \subseteq Hosts /\ Replayables \subseteq Requests
BY PoolAssumption

\* A list is a part of itself.
LEMMA SubRefl ==
  ASSUME NEW q \in Seq(Requests)
  PROVE  Sub(q, q)
<1> DEFINE f == [i \in DOMAIN q |-> i]
<1>1. f \in [DOMAIN q -> DOMAIN q]
  BY Zenon
<1>2. \A i, j \in DOMAIN q : f[i] = f[j] => i = j
  BY Zenon
<1>3. \A i \in DOMAIN q : q[i] = q[f[i]]
  BY Zenon
<1>4. Len(q) <= Len(q)
  OBVIOUS
<1> HIDE DEF f
<1> QED  BY <1>1, <1>2, <1>3, <1>4, Zenon DEF Sub

\* A part of a part is a part.
LEMMA SubTrans ==
  ASSUME NEW o \in Seq(Requests), NEW q \in Seq(Requests), NEW p \in Seq(Requests),
         Sub(o, q), Sub(q, p)
  PROVE  Sub(o, p)
<1>1. PICK f \in [DOMAIN o -> DOMAIN q] :
        /\ \A i, j \in DOMAIN o : f[i] = f[j] => i = j
        /\ \A i \in DOMAIN o : o[i] = q[f[i]]
  BY Zenon DEF Sub
<1>2. PICK g \in [DOMAIN q -> DOMAIN p] :
        /\ \A i, j \in DOMAIN q : g[i] = g[j] => i = j
        /\ \A i \in DOMAIN q : q[i] = p[g[i]]
  BY Zenon DEF Sub
<1> DEFINE e == [i \in DOMAIN o |-> g[f[i]]]
<1>3. e \in [DOMAIN o -> DOMAIN p]
  BY <1>1, <1>2
<1>4. \A i, j \in DOMAIN o : e[i] = e[j] => i = j
  BY <1>1, <1>2
<1>5. \A i \in DOMAIN o : o[i] = p[e[i]]
  BY <1>1, <1>2
<1>6. Len(o) <= Len(p)
  <2>1. Len(o) <= Len(q) /\ Len(q) <= Len(p)
    BY Zenon DEF Sub
  <2> QED  BY <2>1
<1> HIDE DEF e
<1> QED  BY <1>3, <1>4, <1>5, <1>6, Zenon DEF Sub

\* The empty list is a part of any.
LEMMA SubEmpty ==
  ASSUME NEW p \in Seq(Requests)
  PROVE  Sub(<<>>, p) /\ <<>> \in Seq(Requests)
<1> DEFINE f == [i \in {} |-> i]
<1>1. DOMAIN <<>> = {} /\ Len(<<>>) <= Len(p) /\ <<>> \in Seq(Requests)
  OBVIOUS
<1>2. f \in [{} -> DOMAIN p]
  OBVIOUS
<1> HIDE DEF f
<1> QED  BY <1>1, <1>2, Zenon DEF Sub

\* The fields of an entry.
LEMMA HostFields ==
  ASSUME NEW e \in HostType
  PROVE  /\ e.protocol \in Protocols \union {"unknown"} /\ e.h2 \in Opt(Requests)
         /\ e.idle \in Seq(Requests) /\ e.ready \in Nat /\ e.dials \in Nat
         /\ e.last_dial \in Opt(0..MaxResets) /\ e.active \in SUBSET Requests
BY DEF HostType

LEMMA NewHostIs ==
  ASSUME NEW h \in Hosts
  PROVE  /\ NewHost(h) \in HostType /\ NewHost(h).idle = <<>> /\ NewHost(h).h2 = None
         /\ NewHost(h).ready = 0
         /\ NewHost(h).protocol = IF h \in PlainHosts THEN "h1" ELSE "unknown"
BY DEF NewHost, HostType, Protocols, Opt

LEMMA ClearIs ==
  ASSUME NEW e \in HostType
  PROVE  /\ Clear(e) \in HostType /\ Clear(e).h2 = None /\ Clear(e).idle = <<>>
         /\ Clear(e).protocol = e.protocol /\ Clear(e).ready = e.ready
<1>1. None \in Opt(Requests) /\ None \in Opt(0..MaxResets)
  BY Zenon DEF Opt
<1>2. <<>> \in Seq(Requests)
  OBVIOUS
<1> QED  BY <1>1, <1>2 DEF HostType, Clear

\* Entries of a table.
LEMMA AtIs ==
  ASSUME NEW T, Table(T), NEW h \in Hosts
  PROVE  At(T, h) \in HostType
BY NewHostIs, Zenon DEF Table, At

LEMMA KeepsRefl ==
  ASSUME NEW e \in HostType
  PROVE  Keeps(e, e)
<1>1. Sub(e.idle, e.idle)
  BY HostFields, SubRefl, Zenon
<1> QED  BY <1>1, Zenon DEF Keeps, Narrows

LEMMA NarrowsTrans ==
  ASSUME NEW a, NEW b, NEW e \in HostType, Narrows(a, b), Narrows(b, e)
  PROVE  Narrows(a, e)
<1>1. a \in HostType /\ b \in HostType
  BY Zenon DEF Narrows
<1>2. a.idle \in Seq(Requests) /\ b.idle \in Seq(Requests) /\ e.idle \in Seq(Requests)
  BY <1>1, HostFields, Zenon
<1>3. Sub(a.idle, e.idle)
  BY <1>2, SubTrans, Zenon DEF Narrows
<1> QED  BY <1>1, <1>3, Zenon DEF Narrows

LEMMA NarrowAllTrans ==
  ASSUME NEW T, Table(T), NEW U, NEW V, NarrowAll(V, U), NarrowAll(U, T)
  PROVE  NarrowAll(V, T)
BY AtIs, NarrowsTrans, Zenon DEF NarrowAll

LEMMA KeepAllNarrows ==
  ASSUME NEW T, NEW U, KeepAll(U, T)
  PROVE  NarrowAll(U, T)
BY Zenon DEF KeepAll, NarrowAll, Keeps

LEMMA KeepAllRefl ==
  ASSUME NEW T, Table(T)
  PROVE  KeepAll(T, T)
BY AtIs, KeepsRefl, Zenon DEF KeepAll

\* hosts() drops what was pooled before a reset, and nothing else.
LEMMA SeenKeeps ==
  ASSUME Table(hosts)
  PROVE  /\ Table(SeenHosts) /\ DOMAIN SeenHosts = DOMAIN hosts
         /\ KeepAll(SeenHosts, hosts)
<1>1. CASE resets = resets_seen
  BY <1>1, KeepAllRefl, Zenon DEF SeenHosts
<1>2. CASE resets # resets_seen
  <2>1. SeenHosts = [h \in DOMAIN hosts |-> Clear(hosts[h])]
    BY <1>2, Zenon DEF SeenHosts
  <2>2. DOMAIN SeenHosts = DOMAIN hosts /\ \A h \in DOMAIN hosts : SeenHosts[h] = Clear(hosts[h])
    BY <2>1, Zenon
  <2>3. Table(SeenHosts)
    BY <2>2, ClearIs, Zenon DEF Table
  <2>4. ASSUME NEW h \in Hosts
        PROVE  Keeps(At(SeenHosts, h), At(hosts, h))
    <3>1. CASE h \in DOMAIN hosts
      <4> DEFINE e == hosts[h]
      <4>1. e \in HostType /\ At(hosts, h) = e /\ At(SeenHosts, h) = Clear(e)
        BY <2>2, <3>1, Zenon DEF At, Table
      <4> HIDE DEF e
      <4>2. Sub(<<>>, e.idle)
        BY <4>1, HostFields, SubEmpty, Zenon
      <4>3. Keeps(Clear(e), e)
        BY <4>1, <4>2, ClearIs, Zenon DEF Keeps, Narrows
      <4> QED  BY <4>1, <4>3, Zenon
    <3>2. CASE h \notin DOMAIN hosts
      <4>1. At(SeenHosts, h) = NewHost(h) /\ At(hosts, h) = NewHost(h)
        BY <2>2, <3>2, Zenon DEF At
      <4> QED  BY <4>1, NewHostIs, KeepsRefl, Zenon
    <3> QED  BY <3>1, <3>2, Zenon
  <2> QED  BY <2>2, <2>3, <2>4, Zenon DEF KeepAll
<1> QED  BY <1>1, <1>2, Zenon

\* After a reset, nothing is pooled.
LEMMA SeenEmpty ==
  ASSUME Table(hosts), resets # resets_seen, NEW h \in Hosts
  PROVE  At(SeenHosts, h).idle = <<>> /\ At(SeenHosts, h).h2 = None
<1>1. SeenHosts = [k \in DOMAIN hosts |-> Clear(hosts[k])]
  BY Zenon DEF SeenHosts
<1>2. CASE h \in DOMAIN hosts
  <2>1. At(SeenHosts, h) = Clear(hosts[h]) /\ hosts[h] \in HostType
    BY <1>1, <1>2, Zenon DEF At, Table
  <2> QED  BY <2>1, ClearIs, Zenon
<1>3. CASE h \notin DOMAIN hosts
  <2>1. At(SeenHosts, h) = NewHost(h)
    BY <1>1, <1>3, Zenon DEF At
  <2> QED  BY <2>1, NewHostIs, Zenon
<1> QED  BY <1>2, <1>3, Zenon

LEMMA NarrowMember ==
  ASSUME NEW U, NEW T, NarrowAll(U, T), NEW h \in Hosts, NEW i \in DOMAIN At(U, h).idle
  PROVE  \E j \in DOMAIN At(T, h).idle : At(U, h).idle[i] = At(T, h).idle[j]
<1>1. Sub(At(U, h).idle, At(T, h).idle)
  BY Zenon DEF NarrowAll, Narrows
<1>2. PICK f \in [DOMAIN At(U, h).idle -> DOMAIN At(T, h).idle] :
        \A n \in DOMAIN At(U, h).idle : At(U, h).idle[n] = At(T, h).idle[f[n]]
  BY <1>1, Zenon DEF Sub
<1>3. f[i] \in DOMAIN At(T, h).idle /\ At(U, h).idle[i] = At(T, h).idle[f[i]]
  BY <1>2, Zenon
<1> QED  BY <1>3, Zenon

LEMMA NarrowShared ==
  ASSUME NEW U, NEW T, NarrowAll(U, T), NEW h \in Hosts
  PROVE  At(U, h).h2 # None => At(U, h).h2 = At(T, h).h2
BY Zenon DEF NarrowAll, Narrows

LEMMA NarrowFresh ==
  ASSUME NEW U, NEW T, NarrowAll(U, T), NEW n, PoolsFresh(T, n)
  PROVE  PoolsFresh(U, n)
<1>1. ASSUME NEW h \in Hosts, At(U, h).h2 # None, Open(At(U, h).h2)
      PROVE  pooled_at[At(U, h).h2] = n
  <2>1. At(U, h).h2 = At(T, h).h2
    BY <1>1, NarrowShared, Zenon
  <2> QED  BY <1>1, <2>1, Zenon DEF PoolsFresh
<1>2. ASSUME NEW h \in Hosts, NEW i \in DOMAIN At(U, h).idle, Open(At(U, h).idle[i])
      PROVE  pooled_at[At(U, h).idle[i]] = n
  <2>1. PICK j \in DOMAIN At(T, h).idle : At(U, h).idle[i] = At(T, h).idle[j]
    BY NarrowMember
  <2> QED  BY <1>2, <2>1, Zenon DEF PoolsFresh
<1> QED  BY <1>1, <1>2, Zenon DEF PoolsFresh

LEMMA NarrowDialed ==
  ASSUME NEW U, NEW T, NarrowAll(U, T), PoolsDialed(T)
  PROVE  PoolsDialed(U)
<1>1. ASSUME NEW h \in Hosts, At(U, h).h2 # None
      PROVE  Dialed(At(U, h).h2) /\ conn[At(U, h).h2] # "h1"
  <2>1. At(U, h).h2 = At(T, h).h2
    BY <1>1, NarrowShared, Zenon
  <2> QED  BY <1>1, <2>1, Zenon DEF PoolsDialed
<1>2. ASSUME NEW h \in Hosts, NEW i \in DOMAIN At(U, h).idle
      PROVE  Dialed(At(U, h).idle[i])
  <2>1. PICK j \in DOMAIN At(T, h).idle : At(U, h).idle[i] = At(T, h).idle[j]
    BY NarrowMember
  <2> QED  BY <2>1, Zenon DEF PoolsDialed
<1> QED  BY <1>1, <1>2, Zenon DEF PoolsDialed

LEMMA NarrowNotIdle ==
  ASSUME NEW U, NEW T, NarrowAll(U, T), NEW c, NotIdle(c, T)
  PROVE  NotIdle(c, U)
<1> SUFFICES ASSUME NEW h \in Hosts, NEW i \in DOMAIN At(U, h).idle
             PROVE  At(U, h).idle[i] # c
  BY Zenon DEF NotIdle
<1>1. PICK j \in DOMAIN At(T, h).idle : At(U, h).idle[i] = At(T, h).idle[j]
  BY NarrowMember
<1> QED  BY <1>1, Zenon DEF NotIdle

LEMMA NarrowOnce ==
  ASSUME NEW U, NEW T, NarrowAll(U, T), IdleOnce(T)
  PROVE  IdleOnce(U)
<1> SUFFICES ASSUME NEW c \in Requests, conn[c] = "h1", NEW h \in Hosts, NEW k \in Hosts,
                    NEW i \in DOMAIN At(U, h).idle, NEW j \in DOMAIN At(U, k).idle,
                    At(U, h).idle[i] = c, At(U, k).idle[j] = c
             PROVE  h = k /\ i = j
  BY DEF IdleOnce
<1>1. PICK m \in DOMAIN At(T, h).idle : At(U, h).idle[i] = At(T, h).idle[m]
  BY NarrowMember
<1>2. PICK n \in DOMAIN At(T, k).idle : At(U, k).idle[j] = At(T, k).idle[n]
  BY NarrowMember
<1>3. h = k
  BY <1>1, <1>2 DEF IdleOnce
<1>4. Sub(At(U, h).idle, At(T, h).idle)
  BY Zenon DEF NarrowAll, Narrows
<1>5. PICK f \in [DOMAIN At(U, h).idle -> DOMAIN At(T, h).idle] :
        /\ \A a, b \in DOMAIN At(U, h).idle : f[a] = f[b] => a = b
        /\ \A a \in DOMAIN At(U, h).idle : At(U, h).idle[a] = At(T, h).idle[f[a]]
  BY <1>4, Zenon DEF Sub
<1>6. j \in DOMAIN At(U, h).idle /\ At(U, h).idle[j] = c
  BY <1>3, Zenon
<1>7. /\ f[i] \in DOMAIN At(T, h).idle /\ At(T, h).idle[f[i]] = c
      /\ f[j] \in DOMAIN At(T, h).idle /\ At(T, h).idle[f[j]] = c
  BY <1>5, <1>6, Zenon
<1>8. f[i] = f[j]
  BY <1>7 DEF IdleOnce
<1> QED  BY <1>3, <1>5, <1>6, <1>8, Zenon

LEMMA SeenFresh ==
  ASSUME Table(hosts), PoolsFresh(hosts, resets_seen)
  PROVE  PoolsFresh(SeenHosts, resets)
<1>1. CASE resets = resets_seen
  BY <1>1, Zenon DEF SeenHosts
<1>2. CASE resets # resets_seen
  <2>1. \A h \in Hosts : At(SeenHosts, h).idle = <<>> /\ At(SeenHosts, h).h2 = None
    BY <1>2, SeenEmpty, Zenon
  <2>2. DOMAIN <<>> = {}
    OBVIOUS
  <2> QED  BY <2>1, <2>2, Zenon DEF PoolsFresh
<1> QED  BY <1>1, <1>2, Zenon

LEMMA KeptStays ==
  ASSUME Kept, NEW h
  PROVE  StaysBut(h)
BY Zenon DEF Kept, StaysBut, KeepAll, Keeps

LEMMA TaskFields ==
  ASSUME NEW t \in TaskType
  PROVE  /\ t.fresh_only \in BOOLEAN /\ t.replay \in BOOLEAN /\ t.pooled \in BOOLEAN
         /\ t.protocol \in Protocols \union {"unknown"} /\ t.before \in Opt(Nat)
         /\ t.using \in Opt(Requests) /\ t.begun \in Opt(0..MaxResets)
         /\ t.dialed \in Opt(0..MaxResets)
BY DEF TaskType

LEMMA NewTaskIs ==
  ASSUME NEW r \in Requests
  PROVE  /\ NewTask(r) \in TaskType /\ NewTask(r).fresh_only = FALSE
         /\ NewTask(r).replay = (r \in Replayables) /\ NewTask(r).pooled = FALSE
         /\ NewTask(r).using = None /\ NewTask(r).protocol = "unknown"
<1>1. /\ None \in Opt(Requests) /\ None \in Opt(0..MaxResets) /\ None \in Opt(Nat)
      /\ "unknown" \in Protocols \union {"unknown"}
  BY Zenon DEF Opt
<1> QED  BY <1>1 DEF NewTask, TaskType

LEMMA UseTaskIs ==
  ASSUME NEW r \in Requests, NEW t \in TaskType, NEW c \in Requests, NEW p \in BOOLEAN
  PROVE  /\ UseTask(r, t, c, p) \in TaskType
         /\ UseTask(r, t, c, p).fresh_only = t.fresh_only
         /\ UseTask(r, t, c, p).replay = t.replay
         /\ UseTask(r, t, c, p).using = c /\ UseTask(r, t, c, p).pooled = p
<1>1. /\ NewTask(r) \in TaskType /\ t.fresh_only \in BOOLEAN /\ t.replay \in BOOLEAN
      /\ c \in Opt(Requests)
  BY NewTaskIs, TaskFields, Zenon DEF Opt
<1>2. PICK n \in TaskType : n = NewTask(r)
  BY <1>1, Zenon
<1>3. PICK a \in BOOLEAN : a = t.fresh_only
  BY <1>1, Zenon
<1>4. PICK b \in BOOLEAN : b = t.replay
  BY <1>1, Zenon
<1>5. UseTask(r, t, c, p) = WithUse(n, a, b, c, p)
  BY <1>2, <1>3, <1>4, Zenon DEF UseTask, WithUse
<1>6. /\ WithUse(n, a, b, c, p) \in TaskType
      /\ WithUse(n, a, b, c, p).fresh_only = a /\ WithUse(n, a, b, c, p).replay = b
      /\ WithUse(n, a, b, c, p).using = c /\ WithUse(n, a, b, c, p).pooled = p
  BY <1>1, ZenonT(40) DEF TaskType, WithUse
<1> QED  BY <1>3, <1>4, <1>5, <1>6, Zenon

LEMMA Stays ==
  ASSUME Types, NEW r \in Requests, pc' = pc, task' = task
  PROVE  Goes(r, pc[r], task[r])
BY Zenon DEF Goes, Moves, Types

LEMMA TargetIn ==
  ASSUME Types, NEW r \in DOMAIN target
  PROVE  r \in Requests /\ target[r] \in Hosts
<1>1. PICK made \in SUBSET Requests : target \in [made -> Hosts]
  BY Zenon DEF Types
<1> QED  BY <1>1, Zenon

-----------------------------------------------------------------------------
(* Every step is of one of the kinds.  The steps before those of the actions *)
(* say what the operators they are made of do.                               *)

\* Every step is of one of the kinds.
LEMMA StepIs ==
  ASSUME Counts, Inv, [Next]_vars
  PROVE  Kinds
\* A prefix of a list, as Host::reuse leaves it.
<1>SubPrefix. ASSUME NEW p \in Seq(Requests), NEW n \in 1..Len(p)
              PROVE  /\ SubSeq(p, 1, n - 1) \in Seq(Requests)
                     /\ DOMAIN SubSeq(p, 1, n - 1) = 1..(n - 1)
                     /\ \A i \in 1..(n - 1) : SubSeq(p, 1, n - 1)[i] = p[i]
                     /\ Sub(SubSeq(p, 1, n - 1), p)
  <2> USE <1>SubPrefix
  <2> DEFINE q == SubSeq(p, 1, n - 1)
             f == [i \in 1..(n - 1) |-> i]
  <2>1. /\ q \in Seq(Requests) /\ Len(q) = n - 1
        /\ DOMAIN q = 1..(n - 1)
        /\ \A i \in 1..(n - 1) : q[i] = p[i]
    OBVIOUS
  <2> HIDE DEF q
  <2>2. f \in [DOMAIN q -> DOMAIN p]
    BY <2>1
  <2>3. \A i \in DOMAIN q : f[i] = i /\ q[i] = p[f[i]]
    BY <2>1
  <2>4. Len(q) <= Len(p)
    BY <2>1
  <2> HIDE DEF f
  <2>a. \A i, j \in DOMAIN q : f[i] = f[j] => i = j
    BY <2>3, Zenon
  <2>5. Sub(q, p)
    BY <2>2, <2>3, <2>a, <2>4, Zenon DEF Sub
  <2> QED  BY <2>1, <2>5, Zenon DEF q
\* What is left of a list without its head, which Pool::evict_one closes.
<1>SubTail. ASSUME NEW p \in Seq(Requests), p # <<>>
            PROVE  Tail(p) \in Seq(Requests) /\ Sub(Tail(p), p)
  <2> USE <1>SubTail
  <2> DEFINE q == Tail(p)
             f == [i \in DOMAIN q |-> i + 1]
  <2>1. /\ q \in Seq(Requests) /\ Len(q) = Len(p) - 1 /\ Len(q) \in Nat
        /\ DOMAIN q = 1..Len(q) /\ DOMAIN p = 1..Len(p)
        /\ \A i \in DOMAIN q : q[i] = p[i + 1]
    OBVIOUS
  <2> HIDE DEF q
  <2>2. f \in [DOMAIN q -> DOMAIN p]
    BY <2>1
  <2>3. \A i, j \in DOMAIN q : f[i] = f[j] => i = j
    BY <2>1
  <2>4. \A i \in DOMAIN q : q[i] = p[f[i]]
    BY <2>1
  <2>5. Len(q) <= Len(p)
    BY <2>1
  <2> HIDE DEF f
  <2>6. Sub(q, p)
    BY <2>2, <2>3, <2>4, <2>5, Zenon DEF Sub
  <2> QED  BY <2>1, <2>6, Zenon DEF q
\* LastUsable is the last place with a usable connection, or 0 if there is none.
<1>LastUsableIs. ASSUME NEW q \in Seq(Requests)
                 PROVE  \/ LastUsable(q) = 0
                        \/ LastUsable(q) \in 1..Len(q) /\ Usable(q[LastUsable(q)])
  <2> USE <1>LastUsableIs
  <2> DEFINE G == Good(q)
  <2>1. DOMAIN q = 1..Len(q) /\ Len(q) \in Nat
    OBVIOUS
  <2>2. G \subseteq 1..Len(q)
    BY <2>1, Zenon DEF Good
  <2>3. CASE G = {}
    BY <2>3, Zenon DEF LastUsable, Good
  <2>4. CASE G # {}
    <3> HIDE DEF G
    <3>1. \E i \in G : \A j \in G : j <= i
      BY <2>1, <2>2, <2>4, Zenon DEF Counts
    <3>2. LastUsable(q) = CHOOSE x \in G : \A j \in G : j <= x
      BY <2>4, Zenon DEF LastUsable, G, Good
    <3>3. LastUsable(q) \in G
      BY <3>1, <3>2, Zenon
    <3> QED  BY <2>2, <3>3, Zenon DEF G, Good
  <2> QED  BY <2>3, <2>4, Zenon
\* What Pool::reap leaves of an idle list is a part of it.
<1>RetainedIs. ASSUME NEW p \in Seq(Requests)
               PROVE  Retained(p) \in Seq(Requests) /\ Sub(Retained(p), p)
  <2> USE <1>RetainedIs
  <2> DEFINE G == Good(p)
             C == Cardinality(G)
             nth(n) == CHOOSE i \in G : Cardinality({j \in G : j <= i}) = n
             f == [n \in 1..C |-> nth(n)]
             q == [n \in 1..C |-> p[nth(n)]]
  <2>1. DOMAIN p = 1..Len(p) /\ Len(p) \in Nat /\ \A i \in DOMAIN p : p[i] \in Requests
    OBVIOUS
  <2>2. G \subseteq 1..Len(p)
    BY <2>1, Zenon DEF Good
  <2>3. Retained(p) = q
    BY Zenon DEF Retained, Good
  <2> HIDE DEF G
  <2>4. C \in Nat /\ C <= Len(p) /\ \A n \in 1..C : \E i \in G : Cardinality({j \in G : j <= i}) = n
    <3>1. Len(p) \in Nat /\ G \in SUBSET (1..Len(p))
      BY <2>1, <2>2, Zenon
    <3>2. \A m \in Nat : \A g \in SUBSET (1..m) :
            /\ Cardinality(g) \in Nat /\ Cardinality(g) <= m
            /\ \A n \in 1..Cardinality(g) : \E i \in g : Cardinality({j \in g : j <= i}) = n
            /\ g # {} => \E i \in g : \A j \in g : j <= i
      BY DEF Counts
    <3> QED  BY <3>1, <3>2, Zenon
  <2> HIDE DEF C
  <2>5. \A n \in 1..C : nth(n) \in G /\ Cardinality({j \in G : j <= nth(n)}) = n
    BY <2>4, Zenon
  <2> HIDE DEF nth
  <2>6. \A n \in 1..C : nth(n) \in DOMAIN p
    BY <2>1, <2>2, <2>5, Zenon
  <2>7. q \in [1..C -> Requests]
    BY <2>1, <2>6, Zenon
  <2>8. q \in Seq(Requests) /\ Len(q) = C /\ DOMAIN q = 1..C
    <3> HIDE DEF q
    <3> QED  BY <2>4, <2>7
  <2>9. f \in [DOMAIN q -> DOMAIN p]
    <3>1. f \in [1..C -> DOMAIN p]
      BY <2>6, Zenon
    <3> HIDE DEF f, q
    <3> QED  BY <2>8, <3>1, Zenon
  <2>10. \A m, n \in 1..C : f[m] = f[n] => m = n
    <3>1. \A m, n \in 1..C : nth(m) = nth(n) => m = n
      BY <2>5, Zenon
    <3> QED  BY <3>1, Zenon
  <2>11. \A n \in 1..C : q[n] = p[f[n]]
    BY Zenon
  <2> HIDE DEF f, q
  <2>12. Sub(q, p)
    <3>1. Len(q) <= Len(p)
      BY <2>4, <2>8, Zenon
    <3>2. \A m, n \in DOMAIN q : f[m] = f[n] => m = n
      BY <2>8, <2>10, Zenon
    <3>3. \A n \in DOMAIN q : q[n] = p[f[n]]
      BY <2>8, <2>11, Zenon
    <3> QED  BY <2>9, <3>1, <3>2, <3>3, Zenon DEF Sub
  <2> QED  BY <2>3, <2>8, <2>12, Zenon
<1>OtherPool. ASSUME NEW e \in HostType, NEW c \in Opt(Requests), NEW q \in Seq(Requests)
              PROVE  /\ WithPool(e, c, q) \in HostType /\ WithPool(e, c, q).h2 = c /\ WithPool(e, c, q).idle = q
                     /\ WithPool(e, c, q).protocol = e.protocol /\ WithPool(e, c, q).ready = e.ready /\ WithPool(e, c, q).dials = e.dials
                     /\ WithPool(e, c, q).active = e.active /\ WithPool(e, c, q).last_dial = e.last_dial
  BY <1>OtherPool DEF HostType, WithPool
<1>OtherDial. ASSUME NEW e \in HostType, NEW n \in Nat, NEW d \in Opt(0..MaxResets)
              PROVE  /\ WithDial(e, n, d) \in HostType /\ WithDial(e, n, d).h2 = e.h2 /\ WithDial(e, n, d).idle = e.idle
                     /\ WithDial(e, n, d).protocol = e.protocol /\ WithDial(e, n, d).ready = e.ready
  BY <1>OtherDial DEF HostType, WithDial
<1>OtherReady. ASSUME NEW e \in HostType, NEW n \in Nat
               PROVE  /\ WithReady(e, n) \in HostType /\ WithReady(e, n).h2 = e.h2 /\ WithReady(e, n).idle = e.idle
                      /\ WithReady(e, n).protocol = e.protocol /\ WithReady(e, n).ready = n
  BY <1>OtherReady DEF HostType, WithReady
<1>OtherActive. ASSUME NEW e \in HostType, NEW S \in SUBSET Requests
                PROVE  /\ WithActive(e, S) \in HostType /\ WithActive(e, S).h2 = e.h2 /\ WithActive(e, S).idle = e.idle
                       /\ WithActive(e, S).protocol = e.protocol /\ WithActive(e, S).ready = e.ready
  BY <1>OtherActive DEF HostType, WithActive
<1>OtherProtocol. ASSUME NEW e \in HostType, NEW p \in Protocols
                  PROVE  /\ WithProtocol(e, p) \in HostType /\ WithProtocol(e, p).h2 = e.h2 /\ WithProtocol(e, p).idle = e.idle
                         /\ WithProtocol(e, p).protocol = p /\ WithProtocol(e, p).ready = e.ready /\ WithProtocol(e, p).dials = e.dials
  BY <1>OtherProtocol DEF HostType, WithProtocol
<1>OtherH2. ASSUME NEW e \in HostType, NEW c \in Opt(Requests)
            PROVE  /\ WithH2(e, c) \in HostType /\ WithH2(e, c).h2 = c /\ WithH2(e, c).idle = e.idle
                   /\ WithH2(e, c).protocol = e.protocol /\ WithH2(e, c).ready = e.ready /\ WithH2(e, c).dials = e.dials
  BY <1>OtherH2 DEF HostType, WithH2
<1>OtherIdle. ASSUME NEW e \in HostType, NEW q \in Seq(Requests)
              PROVE  /\ WithIdle(e, q) \in HostType /\ WithIdle(e, q).h2 = e.h2 /\ WithIdle(e, q).idle = q
                     /\ WithIdle(e, q).protocol = e.protocol /\ WithIdle(e, q).ready = e.ready
  BY <1>OtherIdle DEF HostType, WithIdle
<1>KeepsTrans. ASSUME NEW a, NEW b, NEW e \in HostType, Keeps(a, b), Keeps(b, e)
               PROVE  Keeps(a, e)
  BY <1>KeepsTrans, NarrowsTrans, Zenon DEF Keeps
<1>KeepAllTrans. ASSUME NEW T, Table(T), NEW U, NEW V, KeepAll(V, U), KeepAll(U, T)
                 PROVE  KeepAll(V, T)
  BY <1>KeepAllTrans, AtIs, <1>KeepsTrans, Zenon DEF KeepAll
<1>OneEntry. ASSUME NEW T, Table(T), NEW h \in DOMAIN T, NEW e \in HostType
             PROVE  /\ Table(Put(T, h, e)) /\ DOMAIN Put(T, h, e) = DOMAIN T /\ h \in Hosts
                    /\ At(Put(T, h, e), h) = e /\ At(T, h) = T[h]
                    /\ OnlyAt(Put(T, h, e), T, h)
  <2> USE <1>OneEntry
  <2> DEFINE U == Put(T, h, e)
  <2>1. h \in Hosts
    BY Zenon DEF Table
  <2>2. DOMAIN U = DOMAIN T /\ U[h] = e /\ \A k \in DOMAIN T : k # h => U[k] = T[k]
    BY Zenon DEF Put
  <2> HIDE DEF U
  <2>3. Table(U)
    BY <2>2, Zenon DEF Table
  <2>4. At(U, h) = e /\ At(T, h) = T[h] /\ OnlyAt(U, T, h)
    BY <2>1, <2>2, Zenon DEF At, OnlyAt
  <2> QED  BY <2>1, <2>2, <2>3, <2>4, Zenon DEF U
<1>OneEntryKeeps. ASSUME NEW T, Table(T), NEW h \in DOMAIN T, NEW e, Keeps(e, T[h]), NEW U,
                         U = Put(T, h, e)
                  PROVE  Table(U) /\ DOMAIN U = DOMAIN T /\ KeepAll(U, T)
  <2> USE <1>OneEntryKeeps
  <2>1. e \in HostType
    BY Zenon DEF Keeps, Narrows
  <2>2. /\ Table(U) /\ DOMAIN U = DOMAIN T /\ At(U, h) = e /\ At(T, h) = T[h]
        /\ \A k \in Hosts : k # h => At(U, k) = At(T, k)
    <3>1. /\ Table(Put(T, h, e)) /\ DOMAIN Put(T, h, e) = DOMAIN T
          /\ At(Put(T, h, e), h) = e /\ At(T, h) = T[h] /\ OnlyAt(Put(T, h, e), T, h)
      BY <2>1, <1>OneEntry, Zenon
    <3> QED  BY <3>1, Zenon DEF OnlyAt
  <2> SUFFICES ASSUME NEW k \in Hosts
               PROVE  Keeps(At(U, k), At(T, k))
    BY <2>2, Zenon DEF KeepAll
  <2>3. CASE k = h
    BY <2>2, <2>3, Zenon
  <2>4. CASE k # h
    BY <2>2, <2>4, AtIs, KeepsRefl, Zenon
  <2> QED  BY <2>3, <2>4, Zenon
\* An origin looked up for the first time gets an entry.
<1>WithEntryKeeps. ASSUME NEW T, Table(T), NEW h \in Hosts
                   PROVE  /\ Table(WithEntry(T, h)) /\ DOMAIN WithEntry(T, h) = DOMAIN T \union {h}
                          /\ \A k \in Hosts : At(WithEntry(T, h), k) = At(T, k)
                          /\ WithEntry(T, h)[h] = At(T, h)
  <2> USE <1>WithEntryKeeps
  <2>1. DOMAIN WithEntry(T, h) = DOMAIN T \union {h}
    BY Zenon DEF WithEntry
  <2>2. \A k \in DOMAIN T \union {h} : WithEntry(T, h)[k] = At(T, k)
    BY Zenon DEF WithEntry, At
  <2>3. \A k \in Hosts : At(WithEntry(T, h), k) = At(T, k)
    BY <2>1, <2>2, Zenon DEF At
  <2>4. Table(WithEntry(T, h))
    BY <2>1, <2>2, AtIs, Zenon DEF Table
  <2> QED  BY <2>1, <2>2, <2>3, <2>4, Zenon
\* Host::reuse takes the shared connection or one of the idle ones, or leaves
\* the origin with none.
<1>ReuseIs. ASSUME NEW e \in HostType
            PROVE  /\ Keeps(Reuse(e), e)
                   /\ Reused(e) = None => Reuse(e).idle = <<>>
                   /\ Reused(e) # None =>
                        /\ Reused(e) \in Requests /\ Usable(Reused(e))
                        /\ Reused(e) = e.h2 \/ Popped(Reuse(e), e, Reused(e))
  <2> USE <1>ReuseIs
  <2>1. e.idle \in Seq(Requests) /\ e.h2 \in Opt(Requests) /\ None \notin Requests
    BY HostFields, Constants, Zenon
  <2>2. CASE Shareable(e)
    <3>1. Reused(e) = e.h2 /\ Reuse(e) = e /\ e.h2 # None /\ Usable(e.h2)
      BY <2>2, Zenon DEF Reused, Reuse, Shareable
    <3>2. e.h2 \in Requests
      BY <2>1, <3>1, Zenon DEF Opt
    <3> QED  BY <3>1, <3>2, KeepsRefl, Zenon
  <2>3. CASE ~Shareable(e) /\ LastUsable(e.idle) = 0
    <3>1. Reused(e) = None /\ Reuse(e) = WithPool(e, None, <<>>)
      BY <2>3, Zenon DEF Reused, Reuse, IdleLeft, WithPool
    <3>2. None \in Opt(Requests) /\ <<>> \in Seq(Requests) /\ Sub(<<>>, e.idle)
      BY <2>1, SubEmpty, Zenon DEF Opt
    <3>3. /\ Reuse(e) \in HostType /\ Reuse(e).h2 = None /\ Reuse(e).idle = <<>>
          /\ Reuse(e).protocol = e.protocol /\ Reuse(e).ready = e.ready
      <4> DEFINE q == <<>>
      <4>1. q \in Seq(Requests) /\ Reuse(e) = WithPool(e, None, q)
        BY <3>1, <3>2, Zenon
      <4> HIDE DEF q
      <4>2. /\ Reuse(e) \in HostType /\ Reuse(e).h2 = None /\ Reuse(e).idle = q
            /\ Reuse(e).protocol = e.protocol /\ Reuse(e).ready = e.ready
        BY <3>2, <4>1, <1>OtherPool
      <4> QED  BY <4>2, Zenon DEF q
    <3> QED  BY <3>1, <3>2, <3>3, Zenon DEF Keeps, Narrows
  <2>4. CASE ~Shareable(e) /\ LastUsable(e.idle) # 0
    <3> DEFINE n == LastUsable(e.idle)
               q == SubSeq(e.idle, 1, n - 1)
    <3>1. n \in 1..Len(e.idle) /\ Usable(e.idle[n])
      BY <2>1, <2>4, <1>LastUsableIs, Zenon
    <3>2. Reused(e) = e.idle[n] /\ Reuse(e) = WithPool(e, None, q)
      BY <2>4, Zenon DEF Reused, Reuse, IdleLeft, WithPool
    <3> HIDE DEF n
    <3>3. e.idle[n] \in Requests /\ n \in DOMAIN e.idle
      BY <2>1, <3>1
    <3>4. /\ q \in Seq(Requests) /\ DOMAIN q = 1..(n - 1) /\ Sub(q, e.idle)
          /\ \A i \in 1..(n - 1) : q[i] = e.idle[i]
      BY <2>1, <3>1, <1>SubPrefix
    <3>5. Len(q) < Len(e.idle)
      BY <2>1, <3>1
    <3> HIDE DEF q
    <3>6. None \in Opt(Requests)
      BY Zenon DEF Opt
    <3>7. /\ Reuse(e) \in HostType /\ Reuse(e).h2 = None /\ Reuse(e).idle = q
          /\ Reuse(e).protocol = e.protocol /\ Reuse(e).ready = e.ready
      BY <3>2, <3>4, <3>6, <1>OtherPool
    <3>8. Keeps(Reuse(e), e)
      BY <3>4, <3>7, Zenon DEF Keeps, Narrows
    <3>9. Popped(Reuse(e), e, Reused(e))
      BY <3>2, <3>3, <3>4, <3>5, <3>7, Zenon DEF Popped
    <3>10. Reused(e) # None /\ Reused(e) \in Requests /\ Usable(Reused(e))
      BY <2>1, <3>1, <3>2, <3>3, Zenon
    <3> QED  BY <3>8, <3>9, <3>10, Zenon
  <2> QED  BY <2>2, <2>3, <2>4, Zenon
<1>SearchIs. ASSUME NEW T, Table(T), NEW h \in Hosts, NEW t
             PROVE  /\ Took(t, h, LeftBy(t, T, h), T, Candidate(t, At(T, h)))
                    /\ WithEntry(T, h)[h] = At(T, h)
                    /\ At(LeftBy(t, T, h), h) = Searched(t, At(T, h))
  <2> USE <1>SearchIs
  <2> DEFINE W == WithEntry(T, h)
             e == At(T, h)
             c == Candidate(t, e)
             u == Searched(t, e)
             U == LeftBy(t, T, h)
  <2>1. /\ Table(W) /\ DOMAIN W = DOMAIN T \union {h} /\ W[h] = At(T, h)
        /\ \A k \in Hosts : At(W, k) = At(T, k)
    BY <1>WithEntryKeeps, Zenon
  <2>2. e = At(T, h) /\ e = W[h] /\ h \in DOMAIN W
    BY <2>1, Zenon
  <2>3. e \in HostType
    BY <2>2, AtIs, Zenon
  <2>4. Keeps(u, e)
    BY <2>3, <1>ReuseIs, KeepsRefl, Zenon DEF Searched
  <2>5. u \in HostType
    BY <2>4, Zenon DEF Keeps, Narrows
  <2>6. U = Put(W, h, u)
    BY <2>2, Zenon DEF Put, LeftBy
  <2>7. c = None => t.fresh_only \/ u.idle = <<>>
    BY <2>3, <1>ReuseIs, Zenon DEF Searched, Candidate
  <2>8. c # None => /\ ~t.fresh_only /\ c \in Requests /\ Usable(c)
                    /\ c = e.h2 \/ Popped(u, e, c)
    BY <2>3, <1>ReuseIs, Zenon DEF Searched, Candidate
  <2> HIDE DEF W, u, U, c, e
  <2>0. Table(W) /\ h \in DOMAIN W
    BY <2>1, <2>2, Zenon
  <2>9. /\ Table(U) /\ DOMAIN U = DOMAIN W /\ At(U, h) = u
        /\ OnlyAt(U, W, h)
    <3>1. /\ Table(Put(W, h, u)) /\ DOMAIN Put(W, h, u) = DOMAIN W
          /\ At(Put(W, h, u), h) = u /\ OnlyAt(Put(W, h, u), W, h)
      BY <2>0, <2>5, <1>OneEntry, Zenon
    <3> QED  BY <2>6, <3>1, Zenon
  <2>10. KeepAll(U, W)
    BY <2>1, <2>2, <2>4, <2>6, <1>OneEntryKeeps, Zenon
  <2>11. KeepAll(U, T)
    BY <2>1, <2>10, Zenon DEF KeepAll
  <2>13. OnlyAt(U, T, h)
    BY <2>1, <2>9, Zenon DEF OnlyAt
  <2>12. Took(t, h, U, T, c)
    BY <2>1, <2>2, <2>7, <2>8, <2>9, <2>11, <2>13, Zenon DEF Took
  <2> QED  BY <2>2, <2>9, <2>12, Zenon DEF u, U, c, e, W
\* What is taken from an idle list is in none.
<1>TakenOut. ASSUME NEW T, NEW U, NEW h \in Hosts, NEW c \in Requests, conn[c] = "h1", IdleOnce(T),
                    Table(T), Popped(At(U, h), At(T, h), c),
                    OnlyAt(U, T, h)
             PROVE  NotIdle(c, U) /\ ~NotIdle(c, T)
  <2> USE <1>TakenOut
  <2>1. PICK n \in DOMAIN At(T, h).idle :
          /\ At(T, h).idle[n] = c
          /\ DOMAIN At(U, h).idle = 1..(n - 1)
          /\ \A i \in 1..(n - 1) : At(U, h).idle[i] = At(T, h).idle[i]
    BY Zenon DEF Popped
  <2>2. At(T, h).idle \in Seq(Requests)
    BY AtIs, HostFields, Zenon
  <2>3. n \in 1..Len(At(T, h).idle) /\ DOMAIN At(T, h).idle = 1..Len(At(T, h).idle)
    BY <2>2
  <2>4. \A i \in 1..(n - 1) : i \in DOMAIN At(T, h).idle /\ i # n
    BY <2>2, <2>3
  <2>5. ASSUME NEW k \in Hosts, NEW i \in DOMAIN At(U, k).idle, At(U, k).idle[i] = c
        PROVE  FALSE
    <3>1. CASE k = h
      <4>1. i \in 1..(n - 1)
        BY <2>1, <2>5, <3>1, Zenon
      <4>2. i \in DOMAIN At(T, h).idle /\ i # n /\ At(T, h).idle[i] = c
        BY <2>1, <2>4, <2>5, <3>1, <4>1, Zenon
      <4> QED  BY <2>1, <4>2 DEF IdleOnce
    <3>2. CASE k # h
      <4>1. At(U, k) = At(T, k)
        BY <3>2, Zenon DEF OnlyAt
      <4>2. i \in DOMAIN At(T, k).idle /\ At(T, k).idle[i] = c
        BY <2>5, <4>1, Zenon
      <4> QED  BY <2>1, <3>2, <4>2 DEF IdleOnce
    <3> QED  BY <3>1, <3>2, Zenon
  <2> QED  BY <2>1, <2>5, Zenon DEF NotIdle
<1>BasedIs. ASSUME Types, PoolsInv, NEW T, Based(T)
            PROVE  /\ Table(T) /\ DOMAIN T = DOMAIN hosts /\ KeepAll(T, hosts) /\ NarrowAll(T, hosts)
                   /\ PoolsFresh(T, resets_seen') /\ resets_seen' \in 0..resets
  <2> USE <1>BasedIs
  <2>1. Table(hosts) /\ resets \in 0..MaxResets /\ resets_seen \in 0..resets
    BY Zenon DEF Types
  <2>2. CASE T = hosts /\ resets_seen' = resets_seen
    BY <2>1, <2>2, KeepAllRefl, KeepAllNarrows, Zenon DEF PoolsInv
  <2>3. CASE T = SeenHosts /\ resets_seen' = resets
    <3>1. resets \in 0..resets
      BY <2>1
    <3>2. PoolsFresh(SeenHosts, resets)
      BY <2>1, SeenFresh, Zenon DEF PoolsInv
    <3> QED  BY <2>1, <2>3, <3>1, <3>2, SeenKeeps, KeepAllNarrows, Zenon
  <2> QED  BY <2>2, <2>3, Zenon DEF Based
<1>ShrinksBy. ASSUME Types, PoolsInv, NEW T, Based(T), Table(hosts'), NarrowAll(hosts', T)
              PROVE  Shrinks
  <2> USE <1>ShrinksBy
  <2>1. /\ Table(T) /\ NarrowAll(T, hosts)
        /\ PoolsFresh(T, resets_seen') /\ resets_seen' \in 0..resets
    BY <1>BasedIs, Zenon
  <2>2. NarrowAll(hosts', hosts)
    BY <2>1, NarrowAllTrans, Zenon DEF Types
  <2>3. PoolsFresh(hosts', resets_seen')
    BY <2>1, NarrowFresh, Zenon
  <2> QED  BY <2>1, <2>2, <2>3, Zenon DEF Shrinks
<1>KeptBy. ASSUME Types, PoolsInv, NEW T, Based(T), Table(hosts'), KeepAll(hosts', T),
                  DOMAIN T \subseteq DOMAIN hosts'
           PROVE  Kept
  <2> USE <1>KeptBy
  <2>1. Table(T) /\ DOMAIN T = DOMAIN hosts /\ KeepAll(T, hosts)
    BY <1>BasedIs, Zenon
  <2>2. KeepAll(hosts', hosts)
    BY <2>1, <1>KeepAllTrans, Zenon DEF Types
  <2>3. Shrinks
    BY KeepAllNarrows, <1>ShrinksBy, Zenon
  <2> QED  BY <2>1, <2>2, <2>3, Zenon DEF Kept
<1>WithBeforeIs. ASSUME NEW t \in TaskType, NEW p \in Protocols \union {"unknown"}, NEW b \in Opt(Nat)
                 PROVE  /\ WithBefore(t, p, b) \in TaskType /\ WithBefore(t, p, b).protocol = p
                        /\ WithBefore(t, p, b).fresh_only = t.fresh_only
                        /\ WithBefore(t, p, b).replay = t.replay /\ WithBefore(t, p, b).pooled = t.pooled
  BY <1>WithBeforeIs DEF TaskType, WithBefore
<1>WithH1Is. ASSUME NEW t \in TaskType
             PROVE  /\ WithH1(t) \in TaskType /\ WithH1(t).protocol = "h1"
                    /\ WithH1(t).fresh_only = t.fresh_only /\ WithH1(t).replay = t.replay
                    /\ WithH1(t).pooled = t.pooled
  BY <1>WithH1Is DEF TaskType, WithH1, Protocols
<1>AgainIs. ASSUME NEW t \in TaskType
            PROVE  /\ Again(t) \in TaskType /\ Again(t).fresh_only = TRUE
                   /\ Again(t).replay = t.replay
  <2> USE <1>AgainIs
  <2>1. None \in Opt(Requests) /\ None \in Opt(Nat)
    BY Zenon DEF Opt
  <2> QED  BY <2>1 DEF TaskType, Again
<1>NoReplayIs. ASSUME NEW t \in TaskType
               PROVE  /\ NoReplay(t) \in TaskType /\ NoReplay(t).fresh_only = t.fresh_only
                      /\ NoReplay(t).replay = FALSE
  BY <1>NoReplayIs DEF TaskType, NoReplay
<1>WithBegunIs. ASSUME NEW t \in TaskType, NEW n \in Opt(0..MaxResets)
                PROVE  /\ WithBegun(t, n) \in TaskType /\ WithBegun(t, n).fresh_only = t.fresh_only
                       /\ WithBegun(t, n).replay = t.replay
  BY <1>WithBegunIs DEF TaskType, WithBegun
<1>WithDialedIs. ASSUME NEW t \in TaskType, NEW n \in Opt(0..MaxResets)
                 PROVE  /\ WithDialed(t, n) \in TaskType /\ WithDialed(t, n).fresh_only = t.fresh_only
                        /\ WithDialed(t, n).replay = t.replay
  BY <1>WithDialedIs DEF TaskType, WithDialed
<1>GoesBy. ASSUME Types, NEW r \in Requests, NEW w \in Where, NEW v \in TaskType,
                  pc' = [pc EXCEPT ![r] = w], task' = [task EXCEPT ![r] = v]
           PROVE  Goes(r, w, v)
  <2> USE <1>GoesBy
  <2>1. pc \in [Requests -> Where] /\ task \in [Requests -> TaskType]
    BY Zenon DEF Types
  <2>2. pc' \in [Requests -> Where] /\ pc'[r] = w /\ \A s \in Requests : s # r => pc'[s] = pc[s]
    BY <2>1, Zenon
  <2>3. /\ task' \in [Requests -> TaskType] /\ task'[r] = v
        /\ \A s \in Requests : s # r => task'[s] = task[s]
    BY <2>1, Zenon
  <2> QED  BY <2>2, <2>3, Zenon DEF Goes, Moves
<1>GoesOn. ASSUME Types, NEW r \in Requests, NEW w \in Where,
                  pc' = [pc EXCEPT ![r] = w], task' = task
           PROVE  Goes(r, w, task[r])
  <2> USE <1>GoesOn
  <2>1. pc \in [Requests -> Where] /\ task \in [Requests -> TaskType]
    BY Zenon DEF Types
  <2>2. pc' \in [Requests -> Where] /\ pc'[r] = w /\ \A s \in Requests : s # r => pc'[s] = pc[s]
    BY <2>1, Zenon
  <2> QED  BY <2>1, <2>2, Zenon DEF Goes, Moves
<1>EndsIs. ASSUME Types, NEW r \in Requests, Ends(r)
           PROVE  Goes(r, "done", NewTask(r))
  <2> USE <1>EndsIs
  <2>1. "done" \in Where
    BY Zenon DEF Where
  <2> QED  BY <2>1, NewTaskIs, <1>GoesBy, Zenon DEF Ends
<1>UsesIs. ASSUME Types, NEW r \in Requests, NEW t \in TaskType, NEW c \in Requests,
                  NEW p \in BOOLEAN, Uses(r, t, c, p)
           PROVE  Goes(r, "send", UseTask(r, t, c, p))
  <2> USE <1>UsesIs
  <2>1. "send" \in Where
    BY Zenon DEF Where
  <2>2. UseTask(r, t, c, p) \in TaskType
    BY UseTaskIs, Zenon
  <2>3. pc' = [pc EXCEPT ![r] = "send"] /\ task' = [task EXCEPT ![r] = UseTask(r, t, c, p)]
    BY Zenon DEF Uses, UseTask
  <2> QED  BY <2>1, <2>2, <2>3, <1>GoesBy, Zenon
<1>WaitsIs. ASSUME Types, NEW r \in Requests, NEW t \in TaskType, NEW e \in HostType,
                   Waits(r, t, e)
            PROVE  \E v : /\ Goes(r, IF e.protocol = "h1" THEN "h1_wait" ELSE "dial_wait", v)
                          /\ WaitTask(v, t, e.protocol)
  <2> USE <1>WaitsIs
  <2>1. "h1_wait" \in Where /\ "dial_wait" \in Where
    BY Zenon DEF Where
  <2>2. CASE e.protocol = "h1"
    <3>1. pc' = [pc EXCEPT ![r] = "h1_wait"] /\ task' = [task EXCEPT ![r] = WithH1(t)]
      BY <2>2, Zenon DEF Waits, WithH1
    <3>2. Goes(r, "h1_wait", WithH1(t))
      BY <2>1, <3>1, <1>WithH1Is, <1>GoesBy, Zenon
    <3>3. WaitTask(WithH1(t), t, e.protocol)
      BY <2>2, <1>WithH1Is, Zenon DEF WaitTask, Like
    <3> QED  BY <2>2, <3>2, <3>3, Zenon
  <2>3. CASE e.protocol # "h1"
    <3> DEFINE b == IF t.before = None THEN e.dials ELSE t.before
    <3>1. b \in Opt(Nat) /\ e.protocol \in Protocols \union {"unknown"}
      BY HostFields, TaskFields, Zenon DEF Opt
    <3>2. /\ pc' = [pc EXCEPT ![r] = "dial_wait"]
          /\ task' = [task EXCEPT ![r] = WithBefore(t, e.protocol, b)]
      BY <2>3, Zenon DEF Waits, WithBefore
    <3> HIDE DEF b
    <3>3. Goes(r, "dial_wait", WithBefore(t, e.protocol, b))
      BY <2>1, <3>1, <3>2, <1>WithBeforeIs, <1>GoesBy, Zenon
    <3>4. WaitTask(WithBefore(t, e.protocol, b), t, e.protocol)
      BY <3>1, <1>WithBeforeIs, Zenon DEF WaitTask, Like
    <3> QED  BY <2>3, <3>3, <3>4, Zenon
  <2> QED  BY <2>2, <2>3, Zenon
\* Who waits is for an origin of the table and has no connection.
<1>WaitingIs. ASSUME NEW r \in Requests, pc[r] \in Waiting
              PROVE  /\ r \in DOMAIN target /\ target[r] \in Hosts /\ target[r] \in DOMAIN hosts
                     /\ ~Dialed(r) /\ ~Open(r)
  <2> USE <1>WaitingIs
  <2>1. RequestAt(r) /\ Types
    BY Zenon DEF Inv, RequestsInv
  <2>2. pc[r] # "new" /\ pc[r] \notin {"body", "return", "done"} /\ pc[r] # "send"
    BY Zenon DEF Waiting
  <2>3. r \in DOMAIN target /\ target[r] \in DOMAIN hosts
    BY <2>1, <2>2, Zenon DEF RequestAt
  <2>4. ~Dialed(r)
    BY <2>2, Zenon DEF Dialed
  <2> QED  BY <2>1, <2>3, <2>4, TargetIn, Zenon DEF RequestAt
<1>TookPools. ASSUME NEW r \in DOMAIN target, NEW w, NEW t, NEW T, From(T, r, w), NEW c,
                     Took(t, target[r], hosts', T, c), resets_seen' = resets
              PROVE  TurnsPools(r, w) /\ At(hosts', target[r]).protocol = At(hosts, target[r]).protocol
  <2> USE <1>TookPools
  <2>1. Types /\ target[r] \in Hosts /\ Table(hosts)
    BY TargetIn, Zenon DEF Inv, Types
  <2>2. /\ Table(hosts') /\ KeepAll(hosts', T) /\ DOMAIN hosts' = DOMAIN T \union {target[r]}
        /\ NarrowAll(hosts', T)
    BY KeepAllNarrows, Zenon DEF Took
  <2>3. resets_seen' \in 0..resets
    <3>1. resets \in 0..MaxResets
      BY <2>1, Zenon DEF Types
    <3> QED  BY <3>1
  <2>4. NarrowAll(hosts', hosts)
    BY <2>1, <2>2, NarrowAllTrans, Zenon DEF From
  <2>5. PoolsFresh(hosts', resets_seen')
    BY <2>2, NarrowFresh, Zenon DEF From
  <2>6. Shrinks
    BY <2>2, <2>3, <2>4, <2>5, Zenon DEF Shrinks
  <2>7. \A k \in Hosts : At(hosts', k).protocol = At(hosts, k).protocol
    BY <2>2, Zenon DEF KeepAll, Keeps, From
  <2>8. ASSUME NEW k \in Hosts, k # target[r]
        PROVE  Keeps(At(hosts', k), At(hosts, k))
    <3>1. Keeps(At(hosts', k), At(T, k)) /\ Keeps(At(T, k), At(hosts, k))
      BY <2>2, <2>8, Zenon DEF KeepAll, From
    <3> QED  BY <2>1, <3>1, AtIs, <1>KeepsTrans, Zenon
  <2>9. StaysBut(target[r])
    BY <2>2, <2>7, <2>8, Zenon DEF StaysBut, From
  <2>10. At(hosts', target[r]).ready = At(hosts, target[r]).ready - w
    BY <2>1, <2>2, Zenon DEF KeepAll, Keeps, From
  <2> QED  BY <2>1, <2>2, <2>6, <2>7, <2>9, <2>10, Zenon DEF TurnsPools
<1>TookFinds. ASSUME NEW r \in DOMAIN target, NEW w, NEW t \in TaskType, NEW T, From(T, r, w), NEW c,
                     c # None, Took(t, target[r], hosts', T, c), Uses(r, t, c, TRUE)
              PROVE  Finds(r, t)
  <2> USE <1>TookFinds
  <2> DEFINE h == target[r]
  <2>1. Types /\ h \in Hosts /\ r \in Requests
    BY TargetIn, Zenon DEF Inv
  <2>2. /\ ~t.fresh_only /\ c \in Requests /\ Usable(c)
        /\ At(T, h).h2 = c \/ Popped(At(hosts', h), At(T, h), c)
    BY Zenon DEF Took
  <2>3. Goes(r, "send", UseTask(r, t, c, TRUE))
    BY <2>1, <2>2, <1>UsesIs, Zenon
  <2>4. PoolsDialed(T) /\ PoolsFresh(T, resets) /\ IdleOnce(T) /\ Table(T)
    BY NarrowDialed, NarrowOnce, Zenon DEF Inv, PoolsInv, OnceInv, From
  <2>5. Open(c)
    BY <2>2, Zenon DEF Usable
  <2> HIDE DEF h
  <2>6. CASE At(T, h).h2 = c
    <3>1. Dialed(c) /\ conn[c] # "h1" /\ pooled_at[c] = resets
      BY <2>1, <2>4, <2>5, <2>6, Zenon DEF PoolsDialed, PoolsFresh
    <3>2. At(hosts, h).h2 # None
      <4>1. At(T, h).h2 = At(hosts, h).h2
        BY <2>1, <2>6, NarrowShared, Zenon DEF From
      <4> QED  BY <2>6, <4>1, Zenon
    <3> QED  BY <2>2, <2>3, <3>1, <3>2, Zenon DEF Finds, h
  <2>7. CASE Popped(At(hosts', h), At(T, h), c)
    <3>1. PICK n \in DOMAIN At(T, h).idle :
            At(T, h).idle[n] = c /\ Len(At(hosts', h).idle) < Len(At(T, h).idle)
      BY <2>7, Zenon DEF Popped
    <3>2. Dialed(c) /\ pooled_at[c] = resets
      BY <2>1, <2>4, <2>5, <3>1, Zenon DEF PoolsDialed, PoolsFresh
    <3>3. ASSUME conn[c] = "h1"
          PROVE  NotIdle(c, hosts') /\ ~NotIdle(c, hosts)
      <4>1. NotIdle(c, hosts') /\ ~NotIdle(c, T)
        BY <2>1, <2>2, <2>4, <2>7, <3>3, <1>TakenOut, Zenon DEF Took, h
      <4>2. ~NotIdle(c, hosts)
        BY <4>1, NarrowNotIdle, Zenon DEF From
      <4> QED  BY <4>1, <4>2, Zenon
    <3>4. Len(At(hosts', h).idle) < Len(At(hosts, h).idle)
      <4>1. Len(At(T, h).idle) <= Len(At(hosts, h).idle)
        BY <2>1, Zenon DEF From, NarrowAll, Narrows, Sub
      <4>2. At(T, h) \in HostType /\ At(hosts, h) \in HostType /\ At(hosts', h) \in HostType
        BY <2>1, <2>4, AtIs, Zenon DEF Types, Took
      <4>3. /\ At(T, h).idle \in Seq(Requests) /\ At(hosts, h).idle \in Seq(Requests)
            /\ At(hosts', h).idle \in Seq(Requests)
        BY <4>2, HostFields, Zenon
      <4> QED  BY <3>1, <4>1, <4>3
    <3> QED  BY <2>2, <2>3, <3>2, <3>3, <3>4, Zenon DEF Finds, h
  <2> QED  BY <2>2, <2>6, <2>7, Zenon DEF h
<1>TookParks. ASSUME NEW r \in DOMAIN target, NEW w, NEW t \in TaskType, NEW T, From(T, r, w),
                     Took(t, target[r], hosts', T, None), Waits(r, t, At(T, target[r]))
              PROVE  Parks(r, t)
  <2> USE <1>TookParks
  <2> DEFINE e == At(T, target[r])
  <2>1. Types /\ target[r] \in Hosts /\ r \in Requests /\ Table(T)
    BY TargetIn, Zenon DEF Inv, From
  <2>2. e \in HostType /\ e.protocol = At(hosts, target[r]).protocol
    BY <2>1, AtIs, Zenon DEF From
  <2> HIDE DEF e
  <2>3. PICK v : /\ Goes(r, IF e.protocol = "h1" THEN "h1_wait" ELSE "dial_wait", v)
                 /\ WaitTask(v, t, e.protocol)
    BY <2>1, <2>2, <1>WaitsIs, Zenon DEF e
  <2>4. t.fresh_only \/ At(hosts', target[r]).idle = <<>>
    BY Zenon DEF Took
  <2> QED  BY <2>2, <2>3, <2>4, Zenon DEF Parks
\* One turn of the loop.
<1>LooksIs. ASSUME NEW r \in DOMAIN target, NEW w, NEW t \in TaskType, NEW T, NEW P,
                   From(T, r, w), Looks(r, t, T, P)
            PROVE  /\ TurnsPools(r, w)
                   /\ (Finds(r, t) /\ global' = P \ {r}) \/ (Parks(r, t) /\ global' = P)
  <2> USE <1>LooksIs
  <2> DEFINE h == target[r]
             e == At(T, h)
             c == Candidate(t, e)
  <2>1. Types /\ h \in Hosts /\ Table(T)
    BY TargetIn, Zenon DEF Inv, From
  <2>2. /\ hosts' = LeftBy(t, T, h) /\ resets_seen' = resets
        /\ IF c # None THEN Uses(r, t, c, TRUE) /\ global' = P \ {r}
                       ELSE Waits(r, t, e) /\ global' = P
    <3>1. WithEntry(T, h)[h] = e
      BY <2>1, <1>SearchIs, Zenon
    <3> QED  BY <3>1, Zenon DEF Looks, LeftBy
  <2>3. Took(t, h, hosts', T, c)
    <3>1. Took(t, h, LeftBy(t, T, h), T, c)
      BY <2>1, <1>SearchIs, Zenon
    <3> QED  BY <2>2, <3>1, Zenon
  <2> HIDE DEF e, c
  <2>4. TurnsPools(r, w)
    BY <2>2, <2>3, <1>TookPools, Zenon
  <2>5. CASE c # None
    BY <2>2, <2>3, <2>4, <2>5, <1>TookFinds, Zenon
  <2>6. CASE c = None
    <3>1. Took(t, h, hosts', T, None) /\ Waits(r, t, At(T, target[r])) /\ global' = P
      BY <2>2, <2>3, <2>6, Zenon DEF e
    <3> QED  BY <2>4, <3>1, <1>TookParks, Zenon
  <2> QED  BY <2>5, <2>6, Zenon
<1>FromSeen. ASSUME NEW r \in DOMAIN target
             PROVE  From(SeenHosts, r, 0)
  <2> USE <1>FromSeen
  <2>1. Table(hosts) /\ PoolsFresh(hosts, resets_seen) /\ target[r] \in Hosts
    BY TargetIn, Zenon DEF Inv, Types, PoolsInv
  <2>2. /\ Table(SeenHosts) /\ DOMAIN SeenHosts = DOMAIN hosts /\ KeepAll(SeenHosts, hosts)
        /\ PoolsFresh(SeenHosts, resets)
    BY <2>1, SeenKeeps, SeenFresh, Zenon
  <2>3. At(SeenHosts, target[r]).ready = At(hosts, target[r]).ready - 0
    <3>1. At(SeenHosts, target[r]).ready = At(hosts, target[r]).ready
      BY <2>1, <2>2, Zenon DEF KeepAll, Keeps
    <3>2. At(hosts, target[r]).ready \in Nat
      BY <2>1, AtIs, HostFields, Zenon
    <3> QED  BY <3>1, <3>2
  <2>4. \A k \in Hosts : At(SeenHosts, k).protocol = At(hosts, k).protocol
    BY <2>2, Zenon DEF KeepAll, Keeps
  <2> QED  BY <2>2, <2>3, <2>4, KeepAllNarrows, Zenon DEF From, KeepAll
<1>SearchingBy. ASSUME NEW r, NEW t, NEW P, NEW w, NEW T, Turn(r, t, P, w), From(T, r, w),
                       Looks(r, t, T, P)
                PROVE  Searching(r, t, P, w)
  BY <1>SearchingBy, <1>LooksIs, Zenon DEF Searching, Turn
\* Who has not dialled has no connection, and a slot only to connect.
<1>NoSlot. ASSUME NEW r \in Requests, ~Dialed(r)
           PROVE  ~Open(r) /\ (pc[r] \notin {"permit_wait", "connect"} => r \notin slots)
  <2> USE <1>NoSlot
  <2>1. RequestAt(r) /\ PermitAt(r)
    BY Zenon DEF Inv, RequestsInv, PermitsInv
  <2>2. ~Open(r)
    BY <2>1, Zenon DEF RequestAt
  <2>3. conn[r] # "h1"
    BY <2>2, Zenon DEF Open, Protocols
  <2> QED  BY <2>1, <2>2, <2>3, Zenon DEF PermitAt
\* What a request that waits, begins or tries again has sent.
<1>UnsentIs. ASSUME NEW r \in Requests, pc[r] \in Waiting \union {"new", "send"}
             PROVE  /\ Unsent(r, task[r], sent[r]) /\ sent \in [Requests -> Nat]
                    /\ task[r] \in TaskType
  BY <1>UnsentIs, Zenon DEF Inv, SentInv, SentAt, Types
<1>UnsentLike. ASSUME NEW r, NEW t, NEW v, NEW n, Unsent(r, t, n), Like(v, t)
               PROVE  Unsent(r, v, n)
  BY <1>UnsentLike, Zenon DEF Unsent, Like
<1>StartIs. ASSUME NEW r \in Requests, Start(r)
            PROVE  Kinds
  <2> USE <1>StartIs
  <2> DEFINE t == WithBegun(task[r], resets)
  <2>1. pc[r] = "new" /\ r \in DOMAIN target /\ Looks(r, t, SeenHosts, global)
    BY Zenon DEF Start, WithBegun
  <2>2. UNCHANGED <<target, resets, dialing, slots, conn, worn, sent, pooled_at>>
    BY Zenon DEF Start
  <2>3. resets \in Opt(0..MaxResets)
    BY Zenon DEF Inv, Types, Opt
  <2>4. Unsent(r, task[r], sent[r]) /\ sent \in [Requests -> Nat] /\ task[r] \in TaskType
    BY <2>1, <1>UnsentIs, Zenon
  <2>5. Like(t, task[r])
    BY <2>3, <2>4, <1>WithBegunIs, Zenon DEF Like
  <2> HIDE DEF t
  <2>6. ~Dialed(r) /\ r \notin slots
    BY <2>1, <1>NoSlot, Zenon DEF Dialed
  <2>7. Unsent(r, t, sent'[r]) /\ t \in TaskType
    <3>1. Unsent(r, t, sent[r])
      BY <2>4, <2>5, <1>UnsentLike, Zenon
    <3> QED  BY <2>2, <2>5, <3>1, Zenon DEF Like
  <2>8. Turn(r, t, global, 0)
    BY <2>1, <2>2, <2>4, <2>6, <2>7, Zenon DEF Turn
  <2>9. Searching(r, t, global, 0)
    BY <2>1, <2>8, <1>FromSeen, <1>SearchingBy, Zenon
  <2> QED  BY <2>9, Zenon DEF Kinds
<1>FromReady. ASSUME NEW r \in DOMAIN target, target[r] \in DOMAIN hosts,
                     hosts[target[r]].ready > 0
              PROVE  From([SeenHosts EXCEPT ![target[r]].ready = @ - 1], r, 1)
  <2> USE <1>FromReady
  <2> DEFINE h == target[r]
             e == SeenHosts[h]
             d == WithReady(e, e.ready - 1)
             T == Put(SeenHosts, h, d)
  <2>1. From(SeenHosts, r, 0) /\ h \in Hosts /\ Table(hosts)
    BY <1>FromSeen, TargetIn, Zenon DEF Inv, Types
  <2>2. Table(SeenHosts) /\ h \in DOMAIN SeenHosts /\ e \in HostType /\ At(SeenHosts, h) = e
    BY <2>1, Zenon DEF From, Table, At
  <2>3. e.ready = At(hosts, h).ready - 0 /\ At(hosts, h) = hosts[h]
    BY <2>1, <2>2, Zenon DEF From, At
  <2>4. At(hosts, h).ready \in Nat
    BY <2>1, AtIs, HostFields, Zenon
  <2>5. e.ready - 1 \in Nat /\ e.ready - 1 = At(hosts, h).ready - 1
    BY <2>3, <2>4
  <2>6. /\ d \in HostType /\ d.h2 = e.h2 /\ d.idle = e.idle /\ d.protocol = e.protocol
        /\ d.ready = e.ready - 1
    BY <2>2, <2>5, <1>OtherReady, Zenon
  <2>7. [SeenHosts EXCEPT ![target[r]].ready = @ - 1] = T
    BY Zenon DEF Put, WithReady
  <2> HIDE DEF d, e
  <2>8. /\ Table(T) /\ DOMAIN T = DOMAIN SeenHosts /\ At(T, h) = d /\ OnlyAt(T, SeenHosts, h)
    <3>1. Table(SeenHosts) /\ h \in DOMAIN SeenHosts /\ d \in HostType
      BY <2>2, <2>6, Zenon
    <3> HIDE DEF h
    <3> QED  BY <3>1, <1>OneEntry, Zenon
  <2> HIDE DEF T
  <2>9. Narrows(d, e)
    <3>1. Sub(e.idle, e.idle)
      BY <2>2, HostFields, SubRefl, Zenon
    <3> QED  BY <2>6, <3>1, Zenon DEF Narrows
  <2>10. NarrowAll(T, SeenHosts)
    <3> SUFFICES ASSUME NEW k \in Hosts
                 PROVE  Narrows(At(T, k), At(SeenHosts, k))
      BY Zenon DEF NarrowAll
    <3>1. CASE k = h
      BY <2>2, <2>8, <2>9, <3>1, Zenon
    <3>2. CASE k # h
      BY <2>2, <2>8, <3>2, AtIs, KeepsRefl, Zenon DEF OnlyAt, Keeps
    <3> QED  BY <3>1, <3>2, Zenon
  <2>11. NarrowAll(T, hosts) /\ PoolsFresh(T, resets)
    BY <2>1, <2>10, NarrowAllTrans, NarrowFresh, Zenon DEF From
  <2>12. \A k \in Hosts : At(T, k).protocol = At(hosts, k).protocol
    <3> TAKE k \in Hosts
    <3>1. At(SeenHosts, k).protocol = At(hosts, k).protocol
      BY <2>1, Zenon DEF From
    <3>2. At(T, k).protocol = At(SeenHosts, k).protocol
      BY <2>2, <2>6, <2>8, Zenon DEF OnlyAt
    <3> QED  BY <3>1, <3>2, Zenon
  <2>13. \A k \in Hosts : k # h => Keeps(At(T, k), At(hosts, k))
    BY <2>1, <2>8, Zenon DEF From, OnlyAt
  <2>14. At(T, h).ready = At(hosts, h).ready - 1
    BY <2>5, <2>6, <2>8, Zenon
  <2>15. DOMAIN hosts \subseteq DOMAIN T
    BY <2>1, <2>8, Zenon DEF From
  <2>16. From(T, r, 1)
    BY <2>8, <2>11, <2>12, <2>13, <2>14, <2>15, Zenon DEF From
  <2> QED  BY <2>7, <2>16, Zenon
<1>WakeReadyIs. ASSUME NEW r \in Requests, WakeReady(r)
                PROVE  Kinds
  <2> USE <1>WakeReadyIs
  <2> DEFINE t == task[r]
             T == [SeenHosts EXCEPT ![target[r]].ready = @ - 1]
  <2>1. /\ pc[r] = "h1_wait" /\ ~t.fresh_only /\ hosts[target[r]].ready > 0
        /\ Looks(r, t, T, global)
        /\ UNCHANGED <<target, resets, dialing, slots, conn, worn, sent, pooled_at>>
    BY Zenon DEF WakeReady
  <2>2. pc[r] \in Waiting
    BY <2>1, Zenon DEF Waiting
  <2>3. r \in DOMAIN target /\ target[r] \in DOMAIN hosts /\ ~Dialed(r)
    BY <2>2, <1>WaitingIs, Zenon
  <2>4. From(T, r, 1)
    BY <2>1, <2>3, <1>FromReady, Zenon
  <2> HIDE DEF T
  <2>5. r \notin slots
    BY <2>1, <2>3, <1>NoSlot, Zenon
  <2>6. Unsent(r, t, sent[r]) /\ sent \in [Requests -> Nat] /\ t \in TaskType
    BY <2>2, <1>UnsentIs, Zenon
  <2>7. r \in Listening(target[r])
    BY <2>1, Zenon DEF Listening
  <2>8. Turn(r, t, global, 1)
    BY <2>1, <2>3, <2>5, <2>6, <2>7, Zenon DEF Turn
  <2>9. Searching(r, t, global, 1)
    BY <2>1, <2>4, <2>8, <1>SearchingBy, Zenon
  <2> QED  BY <2>9, Zenon DEF Kinds
<1>RetryUnsentIs. ASSUME NEW r \in Requests, RetryUnsent(r)
                  PROVE  Kinds
  <2> USE <1>RetryUnsentIs
  <2> DEFINE t == Again(task[r])
  <2>1. /\ pc[r] = "send" /\ task[r].pooled /\ Looks(r, t, SeenHosts, global)
        /\ UNCHANGED <<target, resets, dialing, slots, conn, worn, sent, pooled_at>>
    BY Zenon DEF RetryUnsent
  <2>2. ~Dialed(r) /\ r \in DOMAIN target
    BY <2>1, Zenon DEF Dialed, Inv, RequestsInv, RequestAt
  <2>3. r \notin slots
    BY <2>1, <2>2, <1>NoSlot, Zenon
  <2>4. Unsent(r, task[r], sent[r]) /\ sent \in [Requests -> Nat] /\ task[r] \in TaskType
    BY <2>1, <1>UnsentIs, Zenon
  <2>5. t \in TaskType /\ t.fresh_only = TRUE /\ t.replay = task[r].replay
    BY <2>4, <1>AgainIs, Zenon
  <2> HIDE DEF t
  <2>6. Unsent(r, t, sent[r])
    BY <2>4, <2>5, Zenon DEF Unsent
  <2>7. Turn(r, t, global, 0)
    BY <2>1, <2>2, <2>3, <2>4, <2>5, <2>6, Zenon DEF Turn
  <2>8. Searching(r, t, global, 0)
    BY <2>1, <2>2, <2>7, <1>FromSeen, <1>SearchingBy, Zenon
  <2> QED  BY <2>8, Zenon DEF Kinds
<1>ReplayIs. ASSUME NEW r \in Requests, Replay(r)
             PROVE  Kinds
  <2> USE <1>ReplayIs
  <2> DEFINE t == NoReplay(Again(task[r]))
  <2>1. /\ pc[r] = "send" /\ task[r].pooled /\ task[r].replay
        /\ Looks(r, t, SeenHosts, global) /\ sent' = [sent EXCEPT ![r] = @ + 1]
        /\ UNCHANGED <<target, resets, dialing, slots, conn, worn, pooled_at>>
    BY Zenon DEF Replay, MayReplay, NoReplay
  <2>2. ~Dialed(r) /\ r \in DOMAIN target
    BY <2>1, Zenon DEF Dialed, Inv, RequestsInv, RequestAt
  <2>3. r \notin slots
    BY <2>1, <2>2, <1>NoSlot, Zenon
  <2>4. Unsent(r, task[r], sent[r]) /\ sent \in [Requests -> Nat] /\ task[r] \in TaskType
    BY <2>1, <1>UnsentIs, Zenon
  <2>5. t \in TaskType /\ t.fresh_only = TRUE /\ t.replay = FALSE
    BY <2>4, <1>AgainIs, <1>NoReplayIs, Zenon
  <2> HIDE DEF t
  <2>6. sent[r] = 0 /\ r \in Replayables
    BY <2>1, <2>4, Zenon DEF Unsent
  <2>7. /\ sent' \in [Requests -> Nat] /\ sent'[r] = 1
        /\ \A s \in Requests : s # r => sent'[s] = sent[s]
    BY <2>1, <2>4, <2>6
  <2>8. Unsent(r, t, sent'[r])
    BY <2>5, <2>6, <2>7, Zenon DEF Unsent
  <2>9. Turn(r, t, global, 0)
    BY <2>1, <2>2, <2>3, <2>5, <2>7, <2>8, Zenon DEF Turn
  <2>10. Searching(r, t, global, 0)
    BY <2>1, <2>2, <2>9, <1>FromSeen, <1>SearchingBy, Zenon
  <2> QED  BY <2>10, Zenon DEF Kinds
<1>GetPermitIs. ASSUME NEW r \in Requests, GetPermit(r)
                PROVE  Kinds
  <2> USE <1>GetPermitIs
  <2>1. /\ pc[r] = "permit_wait" /\ PermitLeft
        /\ UNCHANGED <<target, resets, dialing, slots, conn, worn, sent, pooled_at>>
    BY Zenon DEF GetPermit
  <2>2. pc[r] \in Waiting
    BY <2>1, Zenon DEF Waiting
  <2>3. r \in DOMAIN target /\ ~Dialed(r) /\ Types /\ PoolsInv /\ task[r] \in TaskType
    BY <2>2, <1>WaitingIs, <1>UnsentIs, Zenon DEF Inv
  <2>4. CASE r \in slots
    <3> DEFINE v == WithDialed(task[r], resets)
    <3>1. /\ global' = global \union {r} /\ UNCHANGED <<hosts, resets_seen>>
          /\ pc' = [pc EXCEPT ![r] = "connect"] /\ task' = [task EXCEPT ![r] = v]
      BY <2>4, Zenon DEF GetPermit, WithDialed
    <3>2. Like(v, task[r])
      BY <2>3, <1>WithDialedIs, Zenon DEF Like, Types, Opt
    <3> HIDE DEF v
    <3>3. Goes(r, "connect", v)
      BY <2>3, <3>1, <3>2, <1>GoesBy, Zenon DEF Like, Where
    <3>4. Kept
      <4>1. Based(hosts) /\ Table(hosts') /\ KeepAll(hosts', hosts) /\ DOMAIN hosts \subseteq DOMAIN hosts'
        BY <2>3, <3>1, KeepAllRefl, Zenon DEF Based, Types
      <4> QED  BY <2>3, <4>1, <1>KeptBy, Zenon
    <3>5. GetsPermit(r)
      BY <2>1, <2>4, <3>1, <3>2, <3>3, <3>4, Zenon DEF GetsPermit, Alone
    <3> QED  BY <3>5, Zenon DEF Kinds
  <2>5. CASE r \notin slots
    <3> DEFINE t == task[r]
               P == global \union {r}
    <3>1. Looks(r, t, SeenHosts, P)
      BY <2>5, Zenon DEF GetPermit
    <3>2. Unsent(r, t, sent[r]) /\ sent \in [Requests -> Nat]
      BY <2>2, <1>UnsentIs, Zenon
    <3>3. Turn(r, t, P, 0)
      BY <2>1, <2>3, <2>5, <3>2, Zenon DEF Turn
    <3>4. Searching(r, t, P, 0)
      BY <2>3, <3>1, <3>3, <1>FromSeen, <1>SearchingBy, Zenon
    <3> QED  BY <3>4, Zenon DEF Kinds
  <2> QED  BY <2>4, <2>5, Zenon
<1>FromKept. ASSUME NEW r \in DOMAIN target, target[r] \in Hosts, Table(hosts), NEW T, NEW U,
                    From(T, r, 0), Table(U), KeepAll(U, T), DOMAIN T \subseteq DOMAIN U
             PROVE  From(U, r, 0)
  <2> USE <1>FromKept
  <2>1. NarrowAll(U, hosts) /\ PoolsFresh(U, resets)
    BY KeepAllNarrows, NarrowAllTrans, NarrowFresh, Zenon DEF From
  <2>2. \A k \in Hosts : At(U, k).protocol = At(hosts, k).protocol
    BY Zenon DEF From, KeepAll, Keeps
  <2>3. ASSUME NEW k \in Hosts, k # target[r]
        PROVE  Keeps(At(U, k), At(hosts, k))
    <3>1. Keeps(At(U, k), At(T, k)) /\ Keeps(At(T, k), At(hosts, k))
      BY <2>3, Zenon DEF KeepAll, From
    <3> QED  BY <3>1, AtIs, <1>KeepsTrans, Zenon
  <2>4. At(U, target[r]).ready = At(hosts, target[r]).ready - 0
    BY Zenon DEF From, KeepAll, Keeps
  <2> QED  BY <2>1, <2>2, <2>3, <2>4, Zenon DEF From
<1>UnlockedSame. ASSUME NEW r \in Requests, pc[r] \notin {"connect", "h2_connect"}
                 PROVE  Unlocked(r) = dialing
  <2> USE <1>UnlockedSame
  <2>1. dialing \in [Hosts -> Opt(Requests)] /\ \A h \in Hosts : dialing[h] # r
    BY Zenon DEF Inv, Types, PermitsInv, PermitAt
  <2>2. Unlocked(r) = [h \in Hosts |-> dialing[h]]
    BY <2>1, Zenon DEF Unlocked
  <2> QED  BY <2>1, <2>2, Zenon
<1>SentBound. ASSUME NEW r \in Requests, sent' = sent
              PROVE  /\ sent' \in [Requests -> Nat] /\ sent'[r] <= IF r \in Replayables THEN 2 ELSE 1
                     /\ \A s \in Requests : s # r => sent'[s] = sent[s]
  BY <1>SentBound, Zenon DEF Inv, SentInv, SentAt, Types
<1>OverWaiting. ASSUME NEW r \in Requests, ~Dialed(r), Stops(r), dialing' = Unlocked(r),
                       global' = global \ {r}, slots' = slots \ {r}
                PROVE  Over(r)
  <2> USE <1>OverWaiting
  <2>1. ~Open(r)
    BY <1>NoSlot, Zenon
  <2>2. Goes(r, "done", NewTask(r))
    BY <1>EndsIs, Zenon DEF Inv, Stops
  <2> QED  BY <2>1, <2>2, Zenon DEF Over, Stops
<1>OverHeld. ASSUME NEW r \in Requests, pc[r] \in Holding, Stops(r), dialing' = dialing,
                    global' = global, slots' = slots
             PROVE  Over(r)
  <2> USE <1>OverHeld
  <2>1. pc[r] \notin {"connect", "h2_connect", "h1_wait", "dial_wait", "permit_wait"}
    BY Zenon DEF Holding
  <2>2. dialing' = Unlocked(r)
    BY <2>1, <1>UnlockedSame, Zenon
  <2>3. ASSUME ~Open(r)
        PROVE  global \ {r} = global /\ slots \ {r} = slots
    <3>1. conn[r] # "h1"
      BY <2>3, Zenon DEF Open, Protocols
    <3>2. r \notin global /\ r \notin slots
      BY <2>1, <2>3, <3>1, Zenon DEF Inv, PermitsInv, PermitAt
    <3> QED  BY <3>2, Zenon
  <2>4. Goes(r, "done", NewTask(r))
    BY <1>EndsIs, Zenon DEF Inv, Stops
  <2> QED  BY <2>2, <2>3, <2>4, Zenon DEF Over, Stops
\* A dial that is not the first to look.
<1>DialTurnIs. ASSUME NEW r \in Requests, DialTurn(r)
               PROVE  Kinds
  <2> USE <1>DialTurnIs
  <2> DEFINE h == target[r]
             t == task[r]
             e == At(SeenHosts, h)
             T == LeftBy(t, SeenHosts, h)
             c == Candidate(t, e)
             u == Searched(t, e)
  <2>1. /\ pc[r] = "dial_wait" /\ dialing[h] = None
        /\ UNCHANGED <<target, resets, conn, worn, sent, pooled_at>>
    BY Zenon DEF DialTurn
  <2>2. pc[r] \in Waiting
    BY <2>1, Zenon DEF Waiting
  <2>3. /\ r \in DOMAIN target /\ h \in Hosts /\ ~Dialed(r) /\ Types /\ PoolsInv
        /\ t \in TaskType /\ Table(hosts)
    BY <2>2, <1>WaitingIs, <1>UnsentIs, Zenon DEF Inv, Types
  <2>4. From(SeenHosts, r, 0)
    BY <2>3, <1>FromSeen, Zenon
  <2>5. Took(t, h, T, SeenHosts, c) /\ WithEntry(SeenHosts, h)[h] = e /\ At(T, h) = u
    BY <2>3, <2>4, <1>SearchIs, Zenon DEF From
  <2>6. Unsent(r, t, sent[r]) /\ sent \in [Requests -> Nat] /\ r \notin slots
    BY <2>1, <2>2, <2>3, <1>UnsentIs, <1>NoSlot, Zenon
  <2>7. \/ /\ c = None /\ ~SharesFailure(t, u) /\ LearnedH1(t, u)
           /\ Looks(r, t, T, global) /\ UNCHANGED <<dialing, slots>>
        \/ /\ hosts' = T /\ resets_seen' = resets
           /\ \/ /\ c # None /\ Uses(r, t, c, TRUE) /\ global' = global \ {r}
                 /\ UNCHANGED <<dialing, slots>>
              \/ /\ c = None /\ Ends(r) /\ global' = global \ {r}
                 /\ UNCHANGED <<dialing, slots>>
              \/ /\ c = None /\ ~LearnedH1(t, u)
                 /\ r \in global \/ PermitLeft
                 /\ global' = global \union {r}
                 /\ slots' = IF SlotLeft(h) THEN slots \union {r} ELSE slots
                 /\ dialing' = [dialing EXCEPT ![h] = r]
                 /\ pc' = [pc EXCEPT ![r] = "connect"]
                 /\ task' = [task EXCEPT ![r] = WithDialed(t, resets)]
              \/ /\ c = None /\ r \notin global
                 /\ pc' = [pc EXCEPT ![r] = "permit_wait"]
                 /\ UNCHANGED <<dialing, slots, global, task>>
    BY <2>5, Zenon DEF DialTurn, LeftBy, WithDialed
  <2> HIDE DEF e, c, u, T
  <2>8. Table(T) /\ KeepAll(T, SeenHosts) /\ DOMAIN SeenHosts \subseteq DOMAIN T
    BY <2>5, Zenon DEF Took
  <2>9. ASSUME UNCHANGED <<dialing, slots>>
        PROVE  Turn(r, t, global, 0)
    BY <2>1, <2>3, <2>6, <2>9, Zenon DEF Turn
  <2>10. ASSUME hosts' = T, resets_seen' = resets
         PROVE  Kept
    <3>1. Based(SeenHosts) /\ Table(hosts') /\ KeepAll(hosts', SeenHosts) /\ DOMAIN SeenHosts \subseteq DOMAIN hosts'
      BY <2>8, <2>10, Zenon DEF Based
    <3> QED  BY <2>3, <3>1, <1>KeptBy, Zenon
  <2>11. CASE c = None /\ Looks(r, t, T, global) /\ UNCHANGED <<dialing, slots>>
    <3>1. From(T, r, 0)
      BY <2>3, <2>4, <2>8, <1>FromKept, Zenon
    <3>2. Searching(r, t, global, 0)
      BY <2>9, <2>11, <3>1, <1>SearchingBy, Zenon
    <3> QED  BY <3>2, Zenon DEF Kinds
  <2>12. CASE /\ hosts' = T /\ resets_seen' = resets
              /\ c # None /\ Uses(r, t, c, TRUE) /\ global' = global \ {r}
              /\ UNCHANGED <<dialing, slots>>
    <3>1. Looks(r, t, SeenHosts, global)
      BY <2>5, <2>12, Zenon DEF Looks, T, LeftBy, c
    <3>2. Searching(r, t, global, 0)
      BY <2>4, <2>9, <2>12, <3>1, <1>SearchingBy, Zenon
    <3> QED  BY <3>2, Zenon DEF Kinds
  <2>13. CASE /\ hosts' = T /\ resets_seen' = resets
              /\ Ends(r) /\ global' = global \ {r} /\ UNCHANGED <<dialing, slots>>
    <3>1. Stops(r)
      BY <2>1, <2>3, <2>13, <1>SentBound, Zenon DEF Stops
    <3>2. dialing' = Unlocked(r) /\ slots' = slots \ {r}
      BY <2>1, <2>6, <2>13, <1>UnlockedSame, Zenon
    <3>3. Over(r)
      BY <2>3, <2>13, <3>1, <3>2, <1>OverWaiting, Zenon
    <3>4. Kept
      BY <2>10, <2>13, Zenon
    <3> QED  BY <2>1, <3>3, <3>4, Zenon DEF Kinds
  <2>14. CASE /\ hosts' = T /\ resets_seen' = resets /\ ~LearnedH1(t, u)
              /\ r \in global \/ PermitLeft
              /\ global' = global \union {r}
              /\ slots' = IF SlotLeft(h) THEN slots \union {r} ELSE slots
              /\ dialing' = [dialing EXCEPT ![h] = r]
              /\ pc' = [pc EXCEPT ![r] = "connect"]
              /\ task' = [task EXCEPT ![r] = WithDialed(t, resets)]
    <3>1. Like(WithDialed(t, resets), t)
      BY <2>3, <1>WithDialedIs, Zenon DEF Like, Types, Opt
    <3>2. Goes(r, "connect", WithDialed(t, resets))
      BY <2>3, <2>14, <3>1, <1>GoesBy, Zenon DEF Like, Where
    <3>3. Kept
      BY <2>10, <2>14, Zenon
    <3>4. t.protocol = "unknown" => At(hosts, h).protocol # "h1"
      <4>1. u.protocol = At(SeenHosts, h).protocol
        BY <2>3, <2>5, <2>8, Zenon DEF KeepAll, Keeps
      <4>2. At(SeenHosts, h).protocol = At(hosts, h).protocol
        BY <2>3, <2>4, Zenon DEF From
      <4> QED  BY <2>14, <4>1, <4>2, Zenon DEF LearnedH1
    <3>5. Dials(r)
      BY <2>1, <2>14, <3>1, <3>2, <3>3, <3>4, Zenon DEF Dials, Alone
    <3> QED  BY <3>5, Zenon DEF Kinds
  <2>15. CASE /\ hosts' = T /\ resets_seen' = resets /\ r \notin global
              /\ pc' = [pc EXCEPT ![r] = "permit_wait"]
              /\ UNCHANGED <<dialing, slots, global, task>>
    <3>1. Goes(r, "permit_wait", task[r])
      BY <2>3, <2>15, <1>GoesOn, Zenon DEF Where
    <3>2. Kept
      BY <2>10, <2>15, Zenon
    <3>3. Awaits(r)
      BY <2>1, <2>15, <3>1, <3>2, Zenon DEF Awaits, Alone
    <3> QED  BY <3>3, Zenon DEF Kinds
  <2> QED  BY <2>7, <2>11, <2>12, <2>13, <2>14, <2>15, Zenon
\* Listening(h) is finite, so the wake-ups it allows can be counted.
<1>ListeningIs. ASSUME NEW h, NEW r
                PROVE  /\ Cardinality(Listening(h)) \in Nat /\ Cardinality(Listening(h) \ {r}) \in Nat
                       /\ Cardinality(Listening(h) \ {r}) <= Cardinality(Listening(h))
  <2>1. Listening(h) \in SUBSET Requests
    BY Zenon DEF Listening
  <2>2. Listening(h) \ {r} \in SUBSET Listening(h)
    BY Zenon
  <2> QED  BY <2>1, <2>2, Zenon DEF Counts
\* A step that changes only the wake-ups of h.
<1>ReadyStep. ASSUME Types, PoolsInv, NEW r \in DOMAIN target, target[r] \in DOMAIN hosts,
                     NEW n \in Nat, hosts' = [hosts EXCEPT ![target[r]] = WithReady(hosts[target[r]], n)],
                     resets_seen' = resets_seen
              PROVE  Shrinks /\ StaysBut(target[r]) /\ At(hosts', target[r]).ready = n
  <2> USE <1>ReadyStep
  <2> DEFINE h == target[r]
             e == hosts[h]
             d == WithReady(e, n)
  <2>1. Table(hosts) /\ h \in DOMAIN hosts /\ h \in Hosts /\ e \in HostType /\ At(hosts, h) = e
    BY Zenon DEF Types, Table, At
  <2>2. /\ d \in HostType /\ d.h2 = e.h2 /\ d.idle = e.idle /\ d.protocol = e.protocol
        /\ d.ready = n
    BY <2>1, <1>OtherReady, Zenon
  <2>3. hosts' = Put(hosts, h, d)
    BY Zenon DEF Put
  <2> HIDE DEF d, e, h
  <2>4. /\ Table(Put(hosts, h, d)) /\ DOMAIN Put(hosts, h, d) = DOMAIN hosts
        /\ At(Put(hosts, h, d), h) = d /\ OnlyAt(Put(hosts, h, d), hosts, h)
    <3>1. Table(hosts) /\ h \in DOMAIN hosts /\ d \in HostType
      BY <2>1, <2>2, Zenon
    <3> QED  BY <3>1, <1>OneEntry, Zenon
  <2>5. PICK U : U = hosts'
    BY Zenon
  <2>6. Table(U) /\ DOMAIN U = DOMAIN hosts /\ At(U, h) = d /\ OnlyAt(U, hosts, h)
    BY <2>3, <2>4, <2>5, Zenon
  <2>7. Narrows(d, e)
    <3>1. Sub(e.idle, e.idle)
      BY <2>1, HostFields, SubRefl, Zenon
    <3> QED  BY <2>2, <3>1, Zenon DEF Narrows
  <2>8. \A k \in Hosts : k # h => Keeps(At(U, k), At(hosts, k))
    BY <2>1, <2>6, AtIs, KeepsRefl, Zenon DEF OnlyAt
  <2>9. NarrowAll(U, hosts)
    BY <2>1, <2>6, <2>7, <2>8, Zenon DEF NarrowAll, Keeps
  <2>10. \A k \in Hosts : At(U, k).protocol = At(hosts, k).protocol
    BY <2>1, <2>2, <2>6, <2>8, Zenon DEF Keeps
  <2>11. Shrinks
    <3>1. Based(hosts) /\ Table(hosts') /\ NarrowAll(hosts', hosts)
      BY <2>5, <2>6, <2>9, Zenon DEF Based
    <3> QED  BY <3>1, <1>ShrinksBy, Zenon
  <2>12. StaysBut(h)
    BY <2>5, <2>6, <2>8, <2>10, Zenon DEF StaysBut
  <2> QED  BY <2>2, <2>5, <2>6, <2>11, <2>12, Zenon DEF h
<1>StopReady. ASSUME Types, NEW r \in DOMAIN target, target[r] \in DOMAIN hosts
              PROVE  /\ hosts[target[r]] = At(hosts, target[r])
                     /\ Least(hosts[target[r]].ready, Cardinality(Listening(target[r]) \ {r}) + 1) \in Nat
  <2> USE <1>StopReady
  <2>1. hosts[target[r]] = At(hosts, target[r]) /\ hosts[target[r]] \in HostType
    BY Zenon DEF Types, Table, At
  <2>2. hosts[target[r]].ready \in Nat /\ Cardinality(Listening(target[r]) \ {r}) \in Nat
    BY <2>1, HostFields, <1>ListeningIs, Zenon
  <2> QED  BY <2>1, <2>2 DEF Least
<1>TakeSlotIs. ASSUME NEW r \in Requests, TakeSlot(r)
               PROVE  Kinds
  <2> USE <1>TakeSlotIs
  <2> DEFINE h == target[r]
             n == Least(hosts[h].ready, Cardinality(Listening(h) \ {r}) + 1)
             w == IF r \in global THEN "connect" ELSE "permit_wait"
             d == IF r \in global THEN resets ELSE None
             v == WithDialed(task[r], d)
  <2>1. /\ pc[r] = "h1_wait" /\ SlotLeft(h) /\ slots' = slots \union {r}
        /\ hosts' = [hosts EXCEPT ![h] = WithReady(hosts[h], n)]
        /\ pc' = [pc EXCEPT ![r] = w] /\ task' = [task EXCEPT ![r] = v]
        /\ UNCHANGED <<target, resets, resets_seen, dialing, global, conn, worn, sent, pooled_at>>
    BY Zenon DEF TakeSlot, StopListening, WithReady, WithDialed
  <2>2. pc[r] \in Waiting
    BY <2>1, Zenon DEF Waiting
  <2>3. /\ r \in DOMAIN target /\ h \in Hosts /\ h \in DOMAIN hosts /\ Types /\ PoolsInv
        /\ task[r] \in TaskType
    BY <2>2, <1>WaitingIs, <1>UnsentIs, Zenon DEF Inv
  <2>4. d \in Opt(0..MaxResets) /\ w \in Where
    BY <2>3, Zenon DEF Types, Opt, Where
  <2>5. Like(v, task[r])
    BY <2>3, <2>4, <1>WithDialedIs, Zenon DEF Like
  <2>6. Goes(r, w, v)
    BY <2>1, <2>3, <2>4, <2>5, <1>GoesBy, Zenon DEF Like
  <2>7. Unlistens(r)
    <3>1. n \in Nat /\ n = Least(At(hosts, h).ready, Cardinality(Listening(h) \ {r}) + 1)
      BY <2>3, <1>StopReady, Zenon
    <3> HIDE DEF n
    <3>2. Shrinks /\ StaysBut(h) /\ At(hosts', h).ready = n
      BY <2>1, <2>3, <3>1, <1>ReadyStep, Zenon
    <3> QED  BY <3>1, <3>2, Zenon DEF Unlistens
  <2>8. TakesSlot(r)
    BY <2>1, <2>5, <2>6, <2>7, Zenon DEF TakesSlot, Alone
  <2> QED  BY <2>8, Zenon DEF Kinds
\* A table with one entry replaced, in which the origin keeps its pool.
<1>EntryStep. ASSUME Types, PoolsInv, NEW T, Based(T), NEW h \in DOMAIN T, NEW e, Keeps(e, T[h]),
                     hosts' = Put(T, h, e)
              PROVE  Kept
  <2> USE <1>EntryStep
  <2>1. Table(T)
    BY <1>BasedIs, Zenon
  <2>2. Table(Put(T, h, e)) /\ DOMAIN Put(T, h, e) = DOMAIN T /\ KeepAll(Put(T, h, e), T)
    BY <2>1, <1>OneEntryKeeps, Zenon
  <2>3. Table(hosts') /\ KeepAll(hosts', T) /\ DOMAIN T \subseteq DOMAIN hosts'
    BY <2>2, Zenon
  <2> QED  BY <2>3, <1>KeptBy, Zenon
<1>SameKept. ASSUME Types, PoolsInv, Based(hosts'), hosts' = hosts \/ hosts' = SeenHosts
             PROVE  Kept
  <2> USE <1>SameKept
  <2>1. PICK U : U = hosts'
    BY Zenon
  <2>2. Based(U)
    BY <2>1, Zenon
  <2>3. Table(U)
    BY <2>2, <1>BasedIs, Zenon
  <2>4. Table(hosts') /\ KeepAll(hosts', U) /\ DOMAIN U \subseteq DOMAIN hosts'
    BY <2>1, <2>3, KeepAllRefl, Zenon
  <2> QED  BY <2>2, <2>4, <1>KeptBy, Zenon
<1>Unmoved. ASSUME UNCHANGED <<hosts, resets_seen>>
            PROVE  Kept
  <2> USE <1>Unmoved
  <2>1. Based(hosts') /\ hosts' = hosts
    BY Zenon DEF Based
  <2> QED  BY <2>1, <1>SameKept, Zenon DEF Inv
<1>GiveUpIs. ASSUME NEW r \in Requests, GiveUp(r)
             PROVE  Kinds
  <2> USE <1>GiveUpIs
  <2>1. /\ pc[r] = "permit_wait" /\ Ends(r) /\ slots' = slots \ {r}
        /\ UNCHANGED <<target, resets, resets_seen, hosts, dialing, global, conn, worn,
                       sent, pooled_at>>
    BY Zenon DEF GiveUp
  <2>2. pc[r] \in Waiting
    BY <2>1, Zenon DEF Waiting
  <2>3. r \in DOMAIN target /\ ~Dialed(r) /\ ~Open(r)
    BY <2>2, <1>WaitingIs, Zenon
  <2>4. r \notin global
    BY <2>1, <2>3, Zenon DEF Inv, PermitsInv, PermitAt
  <2>5. global' = global \ {r} /\ dialing' = Unlocked(r)
    BY <2>1, <2>4, <1>UnlockedSame, Zenon
  <2>6. Stops(r)
    BY <2>1, <2>3, <1>SentBound, Zenon DEF Stops
  <2>7. Over(r) /\ Kept
    BY <2>1, <2>3, <2>5, <2>6, <1>OverWaiting, <1>Unmoved, Zenon
  <2> QED  BY <2>1, <2>7, Zenon DEF Kinds
\* A dial is recorded: nothing of the pool changes.
<1>RecordedIs. ASSUME NEW r, NEW e \in HostType, NEW f \in Opt(0..MaxResets)
               PROVE  /\ Recorded(r, e, f) \in HostType /\ Recorded(r, e, f).h2 = e.h2
                      /\ Recorded(r, e, f).idle = e.idle /\ Recorded(r, e, f).protocol = e.protocol
                      /\ Recorded(r, e, f).ready = e.ready
  <2> USE <1>RecordedIs
  <2>1. CASE dialing[target[r]] = r
    <3>1. Recorded(r, e, f) = WithDial(e, e.dials + 1, f)
      BY <2>1, Zenon DEF Recorded, WithDial
    <3>2. e.dials \in Nat
      BY HostFields, Zenon
    <3>3. e.dials + 1 \in Nat
      BY <3>2
    <3>4. /\ WithDial(e, e.dials + 1, f) \in HostType /\ WithDial(e, e.dials + 1, f).h2 = e.h2
          /\ WithDial(e, e.dials + 1, f).idle = e.idle
          /\ WithDial(e, e.dials + 1, f).protocol = e.protocol
          /\ WithDial(e, e.dials + 1, f).ready = e.ready
      BY <3>3, <1>OtherDial, Zenon
    <3> QED  BY <3>1, <3>4, Zenon
  <2>2. CASE dialing[target[r]] # r
    BY <2>2, Zenon DEF Recorded
  <2> QED  BY <2>1, <2>2, Zenon
<1>ConnectFailsIs. ASSUME NEW r \in Requests, ConnectFails(r)
                   PROVE  Kinds
  <2> USE <1>ConnectFailsIs
  <2> DEFINE h == target[r]
             e == SeenHosts[h]
  <2>1. /\ pc[r] \in {"connect", "h2_connect"} /\ Ends(r) /\ dialing' = Unlocked(r)
        /\ slots' = slots \ {r} /\ global' = global \ {r}
        /\ UNCHANGED <<target, resets, conn, worn, sent, pooled_at>>
        /\ \/ UNCHANGED <<hosts, resets_seen>>
           \/ /\ resets_seen' = resets
              /\ \E f \in Failures(r) : hosts' = Update(SeenHosts, h, Recorded(r, e, f))
    BY Zenon DEF ConnectFails
  <2>2. pc[r] \in Waiting
    BY <2>1, Zenon DEF Waiting
  <2>3. /\ r \in DOMAIN target /\ ~Dialed(r) /\ h \in DOMAIN hosts /\ h \in Hosts
        /\ Types /\ PoolsInv /\ task[r] \in TaskType
    BY <2>2, <1>WaitingIs, <1>UnsentIs, Zenon DEF Inv
  <2>4. Stops(r)
    BY <2>1, <2>3, <1>SentBound, Zenon DEF Stops
  <2>5. Over(r)
    BY <2>1, <2>3, <2>4, <1>OverWaiting, Zenon
  <2>6. CASE UNCHANGED <<hosts, resets_seen>>
    BY <2>1, <2>5, <2>6, <1>Unmoved, Zenon DEF Kinds
  <2>7. ASSUME resets_seen' = resets, NEW f \in Failures(r),
               hosts' = Update(SeenHosts, h, Recorded(r, e, f))
        PROVE  Kinds
    <3>1. Based(SeenHosts)
      BY <2>7, Zenon DEF Based
    <3>2. Table(SeenHosts) /\ h \in DOMAIN SeenHosts /\ e \in HostType
      BY <2>3, <3>1, <1>BasedIs, Zenon DEF Table
    <3>3. f \in Opt(0..MaxResets)
      BY <2>3, <2>7, TaskFields, Zenon DEF Failures, Opt
    <3> HIDE DEF e
    <3> DEFINE d == Recorded(r, e, f)
    <3>4. d \in HostType /\ d.h2 = e.h2 /\ d.idle = e.idle /\ d.protocol = e.protocol /\ d.ready = e.ready
      BY <3>2, <3>3, <1>RecordedIs, Zenon
    <3>5. hosts' = Put(SeenHosts, h, d)
      BY <2>7, <3>2, Zenon DEF Update, Put
    <3> HIDE DEF d
    <3>6. Keeps(d, e)
      <4>1. Sub(e.idle, e.idle)
        BY <3>2, HostFields, SubRefl, Zenon
      <4> QED  BY <3>4, <4>1, Zenon DEF Keeps, Narrows
    <3>7. Kept
      BY <2>3, <3>1, <3>2, <3>5, <3>6, <1>EntryStep, Zenon DEF e
    <3> QED  BY <2>1, <2>5, <3>7, Zenon DEF Kinds
  <2> QED  BY <2>1, <2>6, <2>7, Zenon
<1>NegotiateH2Is. ASSUME NEW r \in Requests, NegotiateH2(r)
                  PROVE  Kinds
  <2> USE <1>NegotiateH2Is
  <2>1. /\ pc[r] = "connect" /\ "h2" \in Offers[target[r]]
        /\ pc' = [pc EXCEPT ![r] = "h2_connect"] /\ slots' = slots \ {r}
        /\ UNCHANGED <<target, resets, resets_seen, hosts, dialing, global, conn, worn,
                       task, sent, pooled_at>>
    BY Zenon DEF NegotiateH2
  <2>2. Goes(r, "h2_connect", task[r])
    BY <2>1, <1>GoesOn, Zenon DEF Inv, Where
  <2>3. Kept
    BY <2>1, <1>Unmoved, Zenon
  <2>4. Negotiates(r)
    BY <2>1, <2>2, <2>3, Zenon DEF Negotiates, Alone
  <2> QED  BY <2>4, Zenon DEF Kinds
<1>SeenPut. ASSUME NEW h \in DOMAIN hosts, NEW d \in HostType, hosts' = Put(SeenHosts, h, d)
            PROVE  /\ Table(hosts') /\ DOMAIN hosts \subseteq DOMAIN hosts'
                   /\ OnlyAt(hosts', SeenHosts, h) /\ At(hosts', h) = d
  <2> USE <1>SeenPut
  <2>1. Table(SeenHosts) /\ DOMAIN SeenHosts = DOMAIN hosts
    BY SeenKeeps, Zenon DEF Inv, Types
  <2>2. Table(SeenHosts) /\ h \in DOMAIN SeenHosts
    BY <2>1, Zenon
  <2>3. /\ Table(Put(SeenHosts, h, d)) /\ DOMAIN Put(SeenHosts, h, d) = DOMAIN SeenHosts
        /\ At(Put(SeenHosts, h, d), h) = d /\ OnlyAt(Put(SeenHosts, h, d), SeenHosts, h)
    BY <2>2, <1>OneEntry, Zenon
  <2> QED  BY <2>1, <2>3, Zenon
<1>SeenEntry. ASSUME NEW h \in DOMAIN hosts
              PROVE  /\ h \in Hosts /\ h \in DOMAIN SeenHosts /\ SeenHosts[h] \in HostType
                     /\ At(SeenHosts, h) = SeenHosts[h]
  <2> USE <1>SeenEntry
  <2>1. Table(SeenHosts) /\ DOMAIN SeenHosts = DOMAIN hosts
    BY SeenKeeps, Zenon DEF Inv, Types
  <2> QED  BY <2>1, Zenon DEF Table, At
<1>ConnectH1Is. ASSUME NEW r \in Requests, ConnectH1(r)
                PROVE  Kinds
  <2> USE <1>ConnectH1Is
  <2> DEFINE h == target[r]
             e == SeenHosts[h]
             f == WithProtocol(e, "h1")
             d == Recorded(r, f, None)
  <2>1. /\ pc[r] = "connect" /\ "h1" \in Offers[h] /\ hosts' = Update(SeenHosts, h, d)
        /\ resets_seen' = resets /\ conn' = [conn EXCEPT ![r] = "h1"]
        /\ Uses(r, task[r], r, FALSE) /\ dialing' = Unlocked(r)
        /\ UNCHANGED <<target, resets, global, slots, worn, sent, pooled_at>>
    BY Zenon DEF ConnectH1, SetProtocol, WithProtocol
  <2>2. pc[r] \in Waiting
    BY <2>1, Zenon DEF Waiting
  <2>3. h \in DOMAIN hosts /\ task[r] \in TaskType /\ Types
    BY <2>2, <1>WaitingIs, <1>UnsentIs, Zenon DEF Inv
  <2>4. /\ h \in DOMAIN SeenHosts /\ e \in HostType /\ At(SeenHosts, h) = e
        /\ None \in Opt(0..MaxResets) /\ "h1" \in Protocols
    BY <2>3, <1>SeenEntry, Zenon DEF Opt, Protocols
  <2> HIDE DEF e
  <2>5. f \in HostType /\ f.h2 = e.h2 /\ f.idle = e.idle /\ f.protocol = "h1" /\ f.ready = e.ready
    BY <2>4, <1>OtherProtocol, Zenon
  <2> HIDE DEF f
  <2>6. d \in HostType /\ d.h2 = f.h2 /\ d.idle = f.idle /\ d.protocol = f.protocol /\ d.ready = f.ready
    <3>1. f \in HostType /\ None \in Opt(0..MaxResets)
      BY <2>4, <2>5, Zenon
    <3> QED  BY <3>1, <1>RecordedIs, Zenon
  <2> HIDE DEF d
  <2>7. hosts' = Put(SeenHosts, h, d)
    BY <2>1, <2>4, Zenon DEF Update, Put
  <2>8. /\ Table(hosts') /\ DOMAIN hosts \subseteq DOMAIN hosts'
        /\ OnlyAt(hosts', SeenHosts, h) /\ At(hosts', h) = d
    BY <2>3, <2>6, <2>7, <1>SeenPut, Zenon
  <2>9. Goes(r, "send", UseTask(r, task[r], r, FALSE))
    BY <2>1, <2>3, <1>UsesIs, Zenon
  <2>10. Connected(r, "h1") /\ At(hosts', h).h2 = At(SeenHosts, h).h2
    BY <2>1, <2>4, <2>5, <2>6, <2>8, <2>9, Zenon DEF Connected, Alone
  <2>11. ConnectsH1(r)
    BY <2>1, <2>10, Zenon DEF ConnectsH1
  <2> QED  BY <2>11, Zenon DEF Kinds
<1>ConnectH2Is. ASSUME NEW r \in Requests, ConnectH2(r)
                PROVE  Kinds
  <2> USE <1>ConnectH2Is
  <2> DEFINE h == target[r]
             e == SeenHosts[h]
             f == WithProtocol(e, "h2")
             g == WithH2(f, r)
             d == Recorded(r, g, None)
  <2>1. /\ pc[r] = "h2_connect" /\ hosts' = Update(SeenHosts, h, d)
        /\ resets_seen' = resets /\ conn' = [conn EXCEPT ![r] = "h2"]
        /\ pooled_at' = [pooled_at EXCEPT ![r] = resets]
        /\ Uses(r, task[r], r, FALSE) /\ dialing' = Unlocked(r)
        /\ UNCHANGED <<target, resets, global, slots, worn, sent>>
    BY Zenon DEF ConnectH2, SetProtocol, WithProtocol, WithH2
  <2>2. pc[r] \in Waiting
    BY <2>1, Zenon DEF Waiting
  <2>3. h \in DOMAIN hosts /\ task[r] \in TaskType /\ Types
    BY <2>2, <1>WaitingIs, <1>UnsentIs, Zenon DEF Inv
  <2>4. /\ h \in DOMAIN SeenHosts /\ e \in HostType /\ At(SeenHosts, h) = e
        /\ None \in Opt(0..MaxResets) /\ "h2" \in Protocols /\ r \in Opt(Requests)
    BY <2>3, <1>SeenEntry, Zenon DEF Opt, Protocols
  <2> HIDE DEF e
  <2>5. f \in HostType /\ f.idle = e.idle /\ f.protocol = "h2" /\ f.ready = e.ready
    BY <2>4, <1>OtherProtocol, Zenon
  <2> HIDE DEF f
  <2>6. g \in HostType /\ g.h2 = r /\ g.idle = f.idle /\ g.protocol = f.protocol /\ g.ready = f.ready
    BY <2>4, <2>5, <1>OtherH2, Zenon
  <2> HIDE DEF g
  <2>7. d \in HostType /\ d.h2 = g.h2 /\ d.idle = g.idle /\ d.protocol = g.protocol /\ d.ready = g.ready
    <3>1. g \in HostType /\ None \in Opt(0..MaxResets)
      BY <2>4, <2>6, Zenon
    <3> QED  BY <3>1, <1>RecordedIs, Zenon
  <2> HIDE DEF d
  <2>8. hosts' = Put(SeenHosts, h, d)
    BY <2>1, <2>4, Zenon DEF Update, Put
  <2>9. /\ Table(hosts') /\ DOMAIN hosts \subseteq DOMAIN hosts'
        /\ OnlyAt(hosts', SeenHosts, h) /\ At(hosts', h) = d
    BY <2>3, <2>7, <2>8, <1>SeenPut, Zenon
  <2>10. Goes(r, "send", UseTask(r, task[r], r, FALSE))
    BY <2>1, <2>3, <1>UsesIs, Zenon
  <2>11. Connected(r, "h2") /\ At(hosts', h).h2 = r
    BY <2>1, <2>4, <2>5, <2>6, <2>7, <2>9, <2>10, Zenon DEF Connected, Alone
  <2>12. ConnectsH2(r)
    BY <2>1, <2>11, Zenon DEF ConnectsH2
  <2> QED  BY <2>12, Zenon DEF Kinds
\* The responses an origin has do not concern its pool.
<1>ActiveKept. ASSUME NEW T, Based(T), NEW h, NEW S, S \subseteq Requests,
                      hosts' = IF h \in DOMAIN T THEN Put(T, h, WithActive(T[h], S)) ELSE T
               PROVE  Kept
  <2> USE <1>ActiveKept
  <2>1. Types /\ PoolsInv /\ Table(T)
    BY <1>BasedIs, Zenon DEF Inv
  <2>2. CASE h \in DOMAIN T
    <3> DEFINE e == T[h]
               d == WithActive(e, S)
    <3>1. e \in HostType
      BY <2>1, <2>2, Zenon DEF Table
    <3> HIDE DEF e
    <3>2. d \in HostType /\ d.h2 = e.h2 /\ d.idle = e.idle /\ d.protocol = e.protocol /\ d.ready = e.ready
      BY <3>1, <1>OtherActive, Zenon
    <3>3. Sub(e.idle, e.idle)
      BY <3>1, HostFields, SubRefl, Zenon
    <3>4. Keeps(d, T[h]) /\ hosts' = Put(T, h, d)
      BY <2>2, <3>2, <3>3, Zenon DEF Keeps, Narrows, e
    <3> HIDE DEF d
    <3> QED  BY <2>1, <2>2, <3>4, <1>EntryStep, Zenon
  <2>3. CASE h \notin DOMAIN T
    <3>1. hosts' = T
      BY <2>3, Zenon
    <3>2. Table(hosts') /\ KeepAll(hosts', T) /\ DOMAIN T \subseteq DOMAIN hosts'
      BY <2>1, <3>1, KeepAllRefl, Zenon
    <3> QED  BY <2>1, <3>2, <1>KeptBy, Zenon
  <2> QED  BY <2>2, <2>3, Zenon
\* The responses of an origin of the table.
<1>ActiveIn. ASSUME NEW T, Table(T), NEW h \in DOMAIN T, NEW r \in Requests
             PROVE  T[h].active \union {r} \subseteq Requests /\ T[h].active \ {r} \subseteq Requests
  <2> USE <1>ActiveIn
  <2>1. T[h].active \in SUBSET Requests
    BY HostFields, Zenon DEF Table
  <2> QED  BY <2>1, Zenon
<1>RespondIs. ASSUME NEW r \in Requests, Respond(r)
              PROVE  Kinds
  <2> USE <1>RespondIs
  <2> DEFINE h == target[r]
             S == SeenHosts[h].active \union {r}
  <2>1. /\ pc[r] = "send" /\ sent' = [sent EXCEPT ![r] = @ + 1]
        /\ hosts' = IF h \in DOMAIN SeenHosts
                    THEN Put(SeenHosts, h, WithActive(SeenHosts[h], S)) ELSE SeenHosts
        /\ resets_seen' = resets /\ pc' = [pc EXCEPT ![r] = "body"]
        /\ UNCHANGED <<target, resets, dialing, global, slots, conn, worn, task, pooled_at>>
    BY Zenon DEF Respond, Put, WithActive
  <2>2. Based(SeenHosts) /\ Types /\ PoolsInv
    BY <2>1, Zenon DEF Based, Inv
  <2>3. Table(SeenHosts)
    BY <2>2, <1>BasedIs, Zenon
  <2>4. Kept
    <3>1. CASE h \in DOMAIN SeenHosts
      <4>1. S \subseteq Requests
        BY <2>3, <3>1, <1>ActiveIn, Zenon
      <4> HIDE DEF S
      <4> QED  BY <2>1, <2>2, <4>1, <1>ActiveKept, Zenon
    <3>2. CASE h \notin DOMAIN SeenHosts
      <4>1. hosts' = SeenHosts /\ Based(hosts')
        BY <2>1, <2>2, <3>2, Zenon
      <4> QED  BY <2>2, <4>1, <1>SameKept, Zenon
    <3> QED  BY <3>1, <3>2, Zenon
  <2>5. Goes(r, "body", task[r])
    BY <2>1, <2>2, <1>GoesOn, Zenon DEF Where
  <2>6. Responds(r)
    BY <2>1, <2>4, <2>5, Zenon DEF Responds, Alone
  <2> QED  BY <2>6, Zenon DEF Kinds
<1>HoldingIs. ASSUME NEW r \in Requests, pc[r] \in Holding
              PROVE  r \in DOMAIN target /\ task[r].using \in Requests /\ Dialed(task[r].using)
  BY <1>HoldingIs, Zenon DEF Inv, RequestsInv, RequestAt, Holding
<1>SendFailsIs. ASSUME NEW r \in Requests, SendFails(r)
                PROVE  Kinds
  <2> USE <1>SendFailsIs
  <2>1. /\ pc[r] = "send" /\ Ends(r)
        /\ sent' = [sent EXCEPT ![r] = @ + 1] \/ sent' = sent
        /\ UNCHANGED <<target, resets, resets_seen, hosts, dialing, global, slots, conn,
                       worn, pooled_at>>
    BY Zenon DEF SendFails
  <2>2. pc[r] \in Holding
    BY <2>1, Zenon DEF Holding
  <2>3. r \in DOMAIN target
    BY <2>2, <1>HoldingIs, Zenon
  <2>4. /\ sent' \in [Requests -> Nat] /\ sent'[r] <= IF r \in Replayables THEN 2 ELSE 1
        /\ \A s \in Requests : s # r => sent'[s] = sent[s]
    <3>1. CASE sent' = sent
      BY <3>1, <1>SentBound, Zenon
    <3>2. CASE sent' = [sent EXCEPT ![r] = @ + 1]
      <4>1. Unsent(r, task[r], sent[r]) /\ sent \in [Requests -> Nat]
        BY <2>1, <1>UnsentIs, Zenon
      <4>2. sent[r] = 0 \/ (sent[r] = 1 /\ r \in Replayables)
        BY <4>1, Zenon DEF Unsent
      <4> QED  BY <3>2, <4>1, <4>2
    <3> QED  BY <2>1, <3>1, <3>2, Zenon
  <2>5. Stops(r)
    BY <2>1, <2>3, <2>4, Zenon DEF Stops
  <2>6. Over(r) /\ Kept
    BY <2>1, <2>2, <2>5, <1>OverHeld, <1>Unmoved, Zenon
  <2> QED  BY <2>1, <2>6, Zenon DEF Kinds
<1>BodyDoneIs. ASSUME NEW r \in Requests, BodyDone(r)
               PROVE  Kinds
  <2> USE <1>BodyDoneIs
  <2> DEFINE h == target[r]
             S == hosts[h].active \ {r}
  <2>1. /\ pc[r] = "body"
        /\ hosts' = IF h \in DOMAIN hosts
                    THEN Put(hosts, h, WithActive(hosts[h], S)) ELSE hosts
        /\ (pc' = [pc EXCEPT ![r] = "return"] /\ task' = task) \/ Ends(r)
        /\ UNCHANGED <<target, resets, resets_seen, dialing, global, slots, conn, worn,
                       sent, pooled_at>>
    BY Zenon DEF BodyDone, Put, WithActive
  <2>2. Based(hosts) /\ Types /\ PoolsInv /\ Table(hosts)
    BY <2>1, Zenon DEF Based, Inv, Types
  <2>3. pc[r] \in Holding
    BY <2>1, Zenon DEF Holding
  <2>4. Kept
    <3>1. CASE h \in DOMAIN hosts
      <4>1. S \subseteq Requests
        BY <2>2, <3>1, <1>ActiveIn, Zenon
      <4> HIDE DEF S
      <4> QED  BY <2>1, <2>2, <4>1, <1>ActiveKept, Zenon
    <3>2. CASE h \notin DOMAIN hosts
      BY <2>1, <3>2, <1>Unmoved, Zenon
    <3> QED  BY <3>1, <3>2, Zenon
  <2>5. CASE Ends(r)
    <3>1. Stops(r)
      BY <2>1, <2>3, <2>5, <1>HoldingIs, <1>SentBound, Zenon DEF Stops
    <3>2. Over(r)
      BY <2>1, <2>3, <3>1, <1>OverHeld, Zenon
    <3> QED  BY <2>1, <2>4, <3>2, Zenon DEF Kinds
  <2>6. CASE pc' = [pc EXCEPT ![r] = "return"] /\ task' = task
    <3>1. Goes(r, "return", task[r])
      BY <2>2, <2>6, <1>GoesOn, Zenon DEF Where
    <3>2. BodyEnds(r)
      BY <2>1, <2>4, <3>1, Zenon DEF BodyEnds, Alone
    <3> QED  BY <3>2, Zenon DEF Kinds
  <2> QED  BY <2>1, <2>5, <2>6, Zenon
<1>GiveBackIs. ASSUME NEW r \in Requests, GiveBack(r)
               PROVE  Kinds
  <2> USE <1>GiveBackIs
  <2> DEFINE h == target[r]
             c == task[r].using
             e == SeenHosts[h]
             f == WithIdle(e, Append(e.idle, c))
             n == Least(f.ready + 1, Cardinality(Listening(h)) + 1)
             d == WithReady(f, n)
  <2>1. /\ pc[r] = "return" /\ Open(c) /\ resets_seen' = resets /\ Ends(r)
        /\ UNCHANGED <<target, resets, dialing, global, slots, conn, worn, sent>>
        /\ \/ /\ h \in DOMAIN SeenHosts /\ hosts' = Put(SeenHosts, h, d)
              /\ pooled_at' = [pooled_at EXCEPT ![c] = resets]
           \/ hosts' = SeenHosts /\ pooled_at' = pooled_at
    BY Zenon DEF GiveBack, NotifyOne, WithIdle, WithReady, Put
  <2>2. pc[r] \in Holding /\ Types /\ PoolsInv /\ Table(hosts)
    BY <2>1, Zenon DEF Holding, Inv, Types
  <2>3. r \in DOMAIN target /\ c \in Requests
    BY <2>2, <1>HoldingIs, Zenon
  <2>4. Stops(r)
    BY <2>1, <2>3, <1>SentBound, Zenon DEF Stops
  <2>5. Over(r)
    BY <2>1, <2>2, <2>4, <1>OverHeld, Zenon
  <2>6. CASE hosts' = SeenHosts /\ pooled_at' = pooled_at
    <3>1. Based(hosts')
      BY <2>1, <2>6, Zenon DEF Based
    <3>2. Kept
      BY <2>2, <2>6, <3>1, <1>SameKept, Zenon
    <3> QED  BY <2>5, <2>6, <3>2, Zenon DEF Kinds
  <2>7. CASE /\ h \in DOMAIN SeenHosts /\ hosts' = Put(SeenHosts, h, d)
             /\ pooled_at' = [pooled_at EXCEPT ![c] = resets]
    <3>1. h \in DOMAIN hosts
      BY <2>2, <2>7, SeenKeeps, Zenon
    <3>2. e \in HostType /\ At(SeenHosts, h) = e
      BY <3>1, <1>SeenEntry, Zenon
    <3> HIDE DEF e
    <3>3. e.idle \in Seq(Requests) /\ e.ready \in Nat
      BY <3>2, HostFields, Zenon
    <3>4. Append(e.idle, c) \in Seq(Requests)
      BY <2>3, <3>3
    <3>5. f \in HostType /\ f.h2 = e.h2 /\ f.idle = Append(e.idle, c) /\ f.protocol = e.protocol /\ f.ready = e.ready
      BY <3>2, <3>4, <1>OtherIdle, Zenon
    <3> HIDE DEF f
    <3>6. Cardinality(Listening(h)) \in Nat /\ f.ready \in Nat
      BY <3>3, <3>5, <1>ListeningIs, Zenon
    <3>7. n \in Nat
      BY <3>6 DEF Least
    <3>8. n = Least(e.ready + 1, Cardinality(Listening(h)) + 1)
      BY <3>5, Zenon
    <3> HIDE DEF n
    <3>9. d \in HostType /\ d.h2 = f.h2 /\ d.idle = f.idle /\ d.protocol = f.protocol /\ d.ready = n
      <4>1. f \in HostType /\ n \in Nat
        BY <3>5, <3>7, Zenon
      <4> QED  BY <4>1, <1>OtherReady, Zenon
    <3> HIDE DEF d
    <3>10. /\ Table(hosts') /\ DOMAIN hosts \subseteq DOMAIN hosts'
           /\ OnlyAt(hosts', SeenHosts, h) /\ At(hosts', h) = d
      BY <2>7, <3>1, <3>9, <1>SeenPut, Zenon
    <3>11. Returns(r)
      BY <2>1, <2>3, <2>7, <3>2, <3>5, <3>8, <3>9, <3>10, Zenon DEF Returns
    <3> QED  BY <2>5, <3>11, Zenon DEF Kinds
  <2> QED  BY <2>1, <2>6, <2>7, Zenon
<1>NotGivenBackIs. ASSUME NEW r \in Requests, NotGivenBack(r)
                   PROVE  Kinds
  <2> USE <1>NotGivenBackIs
  <2>1. /\ pc[r] = "return" /\ Ends(r)
        /\ UNCHANGED <<target, resets, resets_seen, hosts, dialing, global, slots, conn,
                       worn, sent, pooled_at>>
    BY Zenon DEF NotGivenBack
  <2>2. pc[r] \in Holding
    BY <2>1, Zenon DEF Holding
  <2>3. Stops(r)
    BY <2>1, <2>2, <1>HoldingIs, <1>SentBound, Zenon DEF Stops
  <2>4. Over(r) /\ Kept
    BY <2>1, <2>2, <2>3, <1>OverHeld, <1>Unmoved, Zenon
  <2> QED  BY <2>1, <2>4, Zenon DEF Kinds
<1>CancelIs. ASSUME NEW r \in Requests, Cancel(r)
             PROVE  Kinds
  <2> USE <1>CancelIs
  <2> DEFINE h == target[r]
             n == Least(hosts[h].ready, Cardinality(Listening(h) \ {r}) + 1)
  <2>1. /\ pc[r] \in Waiting \union {"send"} /\ dialing' = Unlocked(r) /\ Ends(r)
        /\ UNCHANGED <<target, resets, resets_seen, conn, worn, sent, pooled_at>>
        /\ hosts' = IF r \in Listening(h)
                    THEN [hosts EXCEPT ![h] = WithReady(hosts[h], n)] ELSE hosts
        /\ global' = IF pc[r] = "send" THEN global ELSE global \ {r}
        /\ slots' = IF pc[r] = "send" THEN slots ELSE slots \ {r}
    BY Zenon DEF Cancel, StopListening, WithReady, Waiting
  <2>2. Over(r) /\ r \in DOMAIN target
    <3>1. CASE pc[r] = "send"
      <4>1. pc[r] \in Holding
        BY <3>1, Zenon DEF Holding
      <4>2. Stops(r) /\ r \in DOMAIN target
        BY <2>1, <4>1, <1>HoldingIs, <1>SentBound, Zenon DEF Stops
      <4>3. dialing' = dialing /\ global' = global /\ slots' = slots
        BY <2>1, <3>1, <1>UnlockedSame, Zenon
      <4> QED  BY <4>1, <4>2, <4>3, <1>OverHeld, Zenon
    <3>2. CASE pc[r] # "send"
      <4>1. pc[r] \in Waiting
        BY <2>1, <3>2, Zenon
      <4>2. r \in DOMAIN target /\ ~Dialed(r)
        BY <4>1, <1>WaitingIs, Zenon
      <4>3. Stops(r)
        BY <2>1, <4>2, <1>SentBound, Zenon DEF Stops
      <4> QED  BY <2>1, <3>2, <4>2, <4>3, <1>OverWaiting, Zenon
    <3> QED  BY <3>1, <3>2, Zenon
  <2>3. CASE r \in Listening(h)
    <3>1. pc[r] \in Waiting
      BY <2>3, Zenon DEF Listening, Waiting
    <3>2. h \in DOMAIN hosts /\ Types /\ PoolsInv
      BY <3>1, <1>WaitingIs, Zenon DEF Inv
    <3>3. n \in Nat /\ n = Least(At(hosts, h).ready, Cardinality(Listening(h) \ {r}) + 1)
      BY <2>2, <3>2, <1>StopReady, Zenon
    <3> HIDE DEF n
    <3>4. Shrinks /\ StaysBut(h) /\ At(hosts', h).ready = n
      BY <2>1, <2>2, <2>3, <3>2, <3>3, <1>ReadyStep, Zenon
    <3>5. Unlistens(r)
      BY <3>3, <3>4, Zenon DEF Unlistens
    <3> QED  BY <2>1, <2>2, <3>5, Zenon DEF Kinds
  <2>4. CASE r \notin Listening(h)
    <3>1. Kept
      BY <2>1, <2>4, <1>Unmoved, Zenon
    <3> QED  BY <2>1, <2>2, <3>1, Zenon DEF Kinds
  <2> QED  BY <2>3, <2>4, Zenon
<1>EvictIs. ASSUME NEW r \in Requests, Evict(r)
            PROVE  Kinds
  <2> USE <1>EvictIs
  <2>1. /\ Evicted(SeenHosts, hosts') /\ resets_seen' = resets
        /\ UNCHANGED <<target, resets, dialing, global, slots, conn, worn, pc, task, sent, pooled_at>>
    BY Zenon DEF Evict
  <2>2. Types /\ PoolsInv /\ Based(SeenHosts)
    BY <2>1, Zenon DEF Inv, Based
  <2>3. Table(SeenHosts)
    BY <2>2, <1>BasedIs, Zenon
  <2>4. ASSUME NEW h \in DOMAIN SeenHosts, SeenHosts[h].idle # <<>>,
               hosts' = [SeenHosts EXCEPT ![h].idle = Tail(@)]
        PROVE  Kept
    <3> DEFINE e == SeenHosts[h]
               d == WithIdle(e, Tail(e.idle))
    <3>1. hosts' = Put(SeenHosts, h, d)
      BY <2>4, Zenon DEF Put, WithIdle
    <3>2. e \in HostType /\ e.idle # <<>>
      BY <2>3, <2>4, Zenon DEF Table
    <3> HIDE DEF e
    <3>3. e.idle \in Seq(Requests)
      BY <3>2, HostFields, Zenon
    <3>4. Tail(e.idle) \in Seq(Requests) /\ Sub(Tail(e.idle), e.idle)
      BY <3>2, <3>3, <1>SubTail, Zenon
    <3>5. d \in HostType /\ d.h2 = e.h2 /\ d.idle = Tail(e.idle) /\ d.protocol = e.protocol /\ d.ready = e.ready
      BY <3>2, <3>4, <1>OtherIdle, Zenon
    <3> HIDE DEF d
    <3>6. Keeps(d, SeenHosts[h])
      BY <3>4, <3>5, Zenon DEF Keeps, Narrows, e
    <3> QED  BY <2>2, <3>1, <3>6, <1>EntryStep, Zenon
  <2>5. ASSUME NEW h \in DOMAIN SeenHosts, hosts' = [SeenHosts EXCEPT ![h].h2 = None]
        PROVE  Kept
    <3> DEFINE e == SeenHosts[h]
               d == WithH2(e, None)
    <3>1. hosts' = Put(SeenHosts, h, d)
      BY <2>5, Zenon DEF Put, WithH2
    <3>2. e \in HostType /\ None \in Opt(Requests)
      BY <2>3, Zenon DEF Table, Opt
    <3> HIDE DEF e
    <3>3. Sub(e.idle, e.idle)
      BY <3>2, HostFields, SubRefl, Zenon
    <3>4. d \in HostType /\ d.h2 = None /\ d.idle = e.idle /\ d.protocol = e.protocol /\ d.ready = e.ready
      BY <3>2, <1>OtherH2, Zenon
    <3> HIDE DEF d
    <3>5. Keeps(d, SeenHosts[h])
      BY <3>3, <3>4, Zenon DEF Keeps, Narrows, e
    <3> QED  BY <2>2, <3>1, <3>5, <1>EntryStep, Zenon
  <2>6. ASSUME hosts' = SeenHosts
        PROVE  Kept
    <3>1. Based(hosts')
      BY <2>1, <2>6, Zenon DEF Based
    <3> QED  BY <2>2, <2>6, <3>1, <1>SameKept, Zenon
  <2>7. Kept
    BY <2>1, <2>4, <2>5, <2>6, Zenon DEF Evicted
  <2>8. resets' \in resets..MaxResets
    <3>1. resets \in 0..MaxResets /\ resets' = resets /\ MaxResets \in Nat
      BY <2>1, <2>2, Constants, Zenon DEF Types
    <3> QED  BY <3>1
  <2>9. Quiet
    BY <2>1, <2>2, <2>8, Zenon DEF Quiet, Types
  <2> QED  BY <2>7, <2>9, Zenon DEF Kinds
<1>ConnEndIs. ASSUME NEW c \in Requests, ConnEnd(c)
              PROVE  Kinds
  <2> USE <1>ConnEndIs
  <2>1. ConnEnds(c)
    BY <1>Unmoved, Zenon DEF ConnEnd, ConnEnds
  <2> QED  BY <2>1, Zenon DEF Kinds
<1>StillIs. ASSUME UNCHANGED <<target, resets_seen, hosts, dialing, global, slots, conn, pc,
                                    task, sent, pooled_at>>,
                   worn' \subseteq Requests, resets' = resets \/ (resets < MaxResets /\ resets' = resets + 1)
            PROVE  Kinds
  <2> USE <1>StillIs
  <2>1. Kept
    BY <1>Unmoved, Zenon
  <2>2. resets' \in resets..MaxResets
    <3>1. resets \in 0..MaxResets /\ MaxResets \in Nat
      BY Constants, Zenon DEF Inv, Types
    <3> QED  BY <3>1
  <2>3. Quiet
    BY <2>2, Zenon DEF Quiet
  <2> QED  BY <2>1, <2>3, Zenon DEF Kinds
<1>OtherRest. ASSUME NEW e \in HostType, NEW c \in Opt(Requests), NEW q \in Seq(Requests)
              PROVE  /\ WithRest(e, q, c) \in HostType /\ WithRest(e, q, c).h2 = c
                     /\ WithRest(e, q, c).idle = q
                     /\ WithRest(e, q, c).protocol = e.protocol /\ WithRest(e, q, c).ready = e.ready
  BY <1>OtherRest DEF HostType, WithRest
<1>ReapedIs. ASSUME NEW e \in HostType
             PROVE  Keeps(Reaped(e), e)
  <2> USE <1>ReapedIs
  <2> DEFINE q == Retained(e.idle)
             c == IF e.h2 # None /\ (~Open(e.h2) \/ (e.h2 \in worn /\ e.active = {}))
                  THEN None ELSE e.h2
             d == WithRest(e, q, c)
  <2>1. Reaped(e) = d
    BY Zenon DEF Reaped, WithRest
  <2>2. e.idle \in Seq(Requests) /\ e.h2 \in Opt(Requests)
    BY HostFields, Zenon
  <2>3. q \in Seq(Requests) /\ Sub(q, e.idle)
    BY <2>2, <1>RetainedIs, Zenon
  <2>4. c \in Opt(Requests) /\ (c = None \/ c = e.h2)
    BY <2>2, Zenon DEF Opt
  <2> HIDE DEF q, c
  <2>5. /\ d \in HostType /\ d.h2 = c /\ d.idle = q /\ d.protocol = e.protocol /\ d.ready = e.ready
    <3>1. c \in Opt(Requests) /\ q \in Seq(Requests)
      BY <2>3, <2>4, Zenon
    <3> QED  BY <3>1, <1>OtherRest
  <2> HIDE DEF d
  <2> QED  BY <2>1, <2>3, <2>4, <2>5, Zenon DEF Keeps, Narrows
<1>ReapIs. ASSUME Reap
           PROVE  Kinds
  <2> USE <1>ReapIs
  <2> DEFINE T == [h \in DOMAIN hosts |-> Reaped(SeenHosts[h])]
             D == {x \in DOMAIN T : ~Unused(x, T[x])}
  <2>1. /\ hosts' = [h \in D |-> T[h]] /\ resets_seen' = resets
        /\ UNCHANGED <<target, resets, dialing, global, slots, conn, worn, pc, task, sent, pooled_at>>
    BY Zenon DEF Reap
  <2>2. Types /\ PoolsInv /\ Based(SeenHosts) /\ Table(hosts)
    BY <2>1, Zenon DEF Inv, Based, Types
  <2>3. Table(SeenHosts) /\ DOMAIN SeenHosts = DOMAIN hosts /\ KeepAll(SeenHosts, hosts)
    BY <2>2, SeenKeeps, Zenon
  <2>4. DOMAIN T = DOMAIN hosts /\ \A h \in DOMAIN hosts : T[h] = Reaped(SeenHosts[h])
    BY Zenon
  <2>5. D \subseteq DOMAIN hosts /\ \A h \in DOMAIN hosts : h \notin D => Unused(h, T[h])
    BY <2>4, Zenon
  <2> HIDE DEF T, D
  <2>6. PICK U : U = hosts'
    BY Zenon
  <2>7. DOMAIN U = D /\ \A h \in D : U[h] = Reaped(SeenHosts[h])
    BY <2>1, <2>4, <2>5, <2>6, Zenon
  <2>8. ASSUME NEW k \in D
        PROVE  /\ k \in Hosts /\ Keeps(At(U, k), At(SeenHosts, k)) /\ U[k] \in HostType
    <3>1. k \in DOMAIN SeenHosts /\ k \in Hosts /\ SeenHosts[k] \in HostType
      BY <2>3, <2>5, Zenon DEF Table
    <3>2. Keeps(Reaped(SeenHosts[k]), SeenHosts[k])
      BY <3>1, <1>ReapedIs, Zenon
    <3>3. At(U, k) = Reaped(SeenHosts[k]) /\ At(SeenHosts, k) = SeenHosts[k] /\ U[k] = Reaped(SeenHosts[k])
      BY <2>7, <3>1, Zenon DEF At
    <3> QED  BY <3>1, <3>2, <3>3, Zenon DEF Keeps, Narrows
  <2>9. Table(U)
    BY <2>7, <2>8, Zenon DEF Table
  <2>10. NarrowAll(U, SeenHosts)
    <3> SUFFICES ASSUME NEW k \in Hosts
                 PROVE  Narrows(At(U, k), At(SeenHosts, k))
      BY Zenon DEF NarrowAll
    <3>1. CASE k \in D
      BY <2>8, <3>1, Zenon DEF Keeps
    <3>2. CASE k \notin D
      <4>1. At(U, k) = NewHost(k)
        BY <2>7, <3>2, Zenon DEF At
      <4>2. At(SeenHosts, k).idle \in Seq(Requests)
        BY <2>3, AtIs, HostFields, Zenon
      <4>3. Sub(<<>>, At(SeenHosts, k).idle)
        BY <4>2, SubEmpty, Zenon
      <4>4. NewHost(k) \in HostType /\ NewHost(k).idle = <<>> /\ NewHost(k).h2 = None
        BY NewHostIs, Zenon
      <4> QED  BY <4>1, <4>3, <4>4, Zenon DEF Narrows
    <3> QED  BY <3>1, <3>2, Zenon
  <2>11. Shrinks
    <3>1. Table(hosts') /\ NarrowAll(hosts', SeenHosts)
      BY <2>6, <2>9, <2>10, Zenon
    <3> QED  BY <2>2, <3>1, <1>ShrinksBy, Zenon
  <2>12. ASSUME NEW k \in DOMAIN hosts'
         PROVE  Keeps(At(hosts', k), At(hosts, k))
    <3>1. k \in D
      BY <2>6, <2>7, Zenon
    <3>2. k \in Hosts /\ Keeps(At(U, k), At(SeenHosts, k))
      BY <2>8, <3>1, Zenon
    <3>3. Keeps(At(SeenHosts, k), At(hosts, k)) /\ At(hosts, k) \in HostType
      BY <2>2, <2>3, <3>2, AtIs, Zenon DEF KeepAll
    <3>4. Keeps(At(U, k), At(hosts, k))
      BY <3>2, <3>3, <1>KeepsTrans, Zenon
    <3> QED  BY <2>6, <3>4, Zenon
  <2>13. ASSUME NEW k \in DOMAIN hosts, k \notin DOMAIN hosts'
         PROVE  /\ \A s \in slots : target[s] # k
                /\ \A s \in DOMAIN target : target[s] = k => pc[s] \notin Waiting
    <3>1. Unused(k, T[k])
      BY <2>5, <2>6, <2>7, <2>13, Zenon
    <3> QED  BY <3>1, Zenon DEF Unused, Waiting
  <2>14. resets' \in resets..MaxResets
    <3>1. resets \in 0..MaxResets /\ resets' = resets /\ MaxResets \in Nat
      BY <2>1, <2>2, Constants, Zenon DEF Types
    <3> QED  BY <3>1
  <2>15. Quiet
    BY <2>1, <2>2, <2>14, Zenon DEF Quiet, Types
  <2>16. DOMAIN hosts' \subseteq DOMAIN hosts
    BY <2>5, <2>6, <2>7, Zenon
  <2>17. Reaps
    BY <2>11, <2>12, <2>13, <2>15, <2>16, Zenon DEF Reaps
  <2> QED  BY <2>17, Zenon DEF Kinds
<1>1. CASE UNCHANGED vars
  <2>1. /\ UNCHANGED <<target, resets_seen, hosts, dialing, global, slots, conn, pc,
                       task, sent, pooled_at>>
        /\ worn' \subseteq Requests /\ resets' = resets
    BY <1>1, Zenon DEF vars, Inv, Types
  <2> QED  BY <2>1, <1>StillIs, Zenon
<1>2. ASSUME NEW r \in Requests, Start(r) \/ Progress(r) \/ Evict(r) \/ Cancel(r)
      PROVE  Kinds
  <2>1. CASE Checkout(r)
    BY <2>1, <1>TakeSlotIs, <1>WakeReadyIs, <1>DialTurnIs, Zenon DEF Checkout
  <2>2. CASE Permit(r)
    BY <2>2, <1>GetPermitIs, <1>GiveUpIs, Zenon DEF Permit
  <2>3. CASE Connect(r)
    BY <2>3, <1>ConnectFailsIs, <1>ConnectH1Is, <1>NegotiateH2Is, <1>ConnectH2Is, Zenon DEF Connect
  <2>4. CASE Send(r)
    BY <2>4, <1>RespondIs, <1>RetryUnsentIs, <1>ReplayIs, <1>SendFailsIs, Zenon DEF Send
  <2>5. CASE Return(r)
    BY <2>5, <1>BodyDoneIs, <1>GiveBackIs, <1>NotGivenBackIs, Zenon DEF Return
  <2> QED  BY <1>2, <2>1, <2>2, <2>3, <2>4, <2>5, <1>StartIs, <1>EvictIs, <1>CancelIs, Zenon DEF Progress
<1>3. ASSUME NEW c \in Requests, ConnEnd(c) \/ IdleTimeout(c) \/ Stall(c)
      PROVE  Kinds
  <2>1. CASE ConnEnd(c)
    BY <2>1, <1>ConnEndIs, Zenon
  <2>2. worn \subseteq Requests
    BY Zenon DEF Inv, Types
  <2>3. CASE IdleTimeout(c)
    <3>1. worn' \subseteq Requests
      BY <2>2, <2>3, Zenon DEF IdleTimeout
    <3> QED  BY <2>3, <3>1, <1>StillIs, Zenon DEF IdleTimeout
  <2>4. CASE Stall(c)
    <3>1. worn' \subseteq Requests
      BY <2>2, <2>4, Zenon DEF Stall
    <3> QED  BY <2>4, <3>1, <1>StillIs, Zenon DEF Stall
  <2> QED  BY <1>3, <2>1, <2>3, <2>4, Zenon
<1>4. CASE Reset
  <2>1. worn' \subseteq Requests
    BY <1>4, Zenon DEF Inv, Types, Reset
  <2> QED  BY <1>4, <2>1, <1>StillIs, Zenon DEF Reset
<1> QED  BY <1>1, <1>2, <1>3, <1>4, <1>ReapIs, Zenon DEF Next

=============================================================================
