-------------------------- MODULE LocalNamesProofs --------------------------
(* Proofs about LocalNames: for every set of queries, networks and limits,  *)
(* a query that came in is in exactly one place, and the two tables of      *)
(* LocalJobs agree.                                                         *)
EXTENDS LocalNames, FiniteSetTheorems, TLAPS

(***************************************************************************)
(* The invariant.  EachQueryOnce counts the places of a query; here the    *)
(* sets it counts are told apart, a query that did not come in yet is      *)
(* nowhere, and a lookup has one job of a query at most, so that handing   *)
(* its jobs over moves each query from one place to one place.             *)
(***************************************************************************)

BatchAt(q) == {i \in DOMAIN batch : batch[i].query = q}
WaitAt(q) == {id \in DOMAIN waiting : \E j \in waiting[id].jobs : j.query = q}
CompAt(q) == {j \in completing : j.query = q}

Nowhere(q) ==
  BatchAt(q) = {} /\ WaitAt(q) = {} /\ CompAt(q) = {} /\ replies[q] = 0
InBatch(q) ==
  /\ \E i \in BatchAt(q) : BatchAt(q) = {i}
  /\ WaitAt(q) = {} /\ CompAt(q) = {} /\ replies[q] = 0
InLookup(q) ==
  /\ \E id \in WaitAt(q) : WaitAt(q) = {id}
  /\ BatchAt(q) = {} /\ CompAt(q) = {} /\ replies[q] = 0
InAnswer(q) ==
  /\ \E j \in CompAt(q) : CompAt(q) = {j}
  /\ BatchAt(q) = {} /\ WaitAt(q) = {} /\ replies[q] = 0
Answered(q) ==
  BatchAt(q) = {} /\ WaitAt(q) = {} /\ CompAt(q) = {} /\ replies[q] = 1

Located(q) == InBatch(q) \/ InLookup(q) \/ InAnswer(q) \/ Answered(q)
Placed(q) == IF q \in received THEN Located(q) ELSE Nowhere(q)
PlacesInv == \A q \in Queries : Placed(q)

JobsApart ==
  \A id \in DOMAIN waiting :
    \A j \in waiting[id].jobs, k \in waiting[id].jobs :
      j.query = k.query => j = k

TablesAgree ==
  /\ \A k \in DOMAIN by_question :
       by_question[k] \in DOMAIN waiting /\ waiting[by_question[k]].question = k
  /\ \A id \in DOMAIN waiting :
       /\ waiting[id].question \in DOMAIN by_question
       /\ by_question[waiting[id].question] = id

LimitsInv ==
  /\ IsFiniteSet(DOMAIN waiting) /\ Cardinality(DOMAIN waiting) <= LOCAL_PENDING
  /\ \A id \in DOMAIN waiting :
       /\ IsFiniteSet(waiting[id].jobs)
       /\ Cardinality(waiting[id].jobs) \in 1 .. LOCAL_JOBS_PER_LOOKUP

Inv == TypeOK /\ PlacesInv /\ JobsApart /\ TablesAgree /\ LimitsInv
-----------------------------------------------------------------------------
(* Lemmas about the operators.                                             *)

LEMMA RestrictIs ==
  ASSUME NEW f, NEW S, S \subseteq DOMAIN f
  PROVE  DOMAIN Restrict(f, S) = S /\ \A x \in S : Restrict(f, S)[x] = f[x]
BY DEF Restrict

LEMMA InsertIs ==
  ASSUME NEW f, NEW k, NEW v, NEW g, g = Insert(f, k, v)
  PROVE  /\ DOMAIN g = DOMAIN f \cup {k}
         /\ g[k] = v
         /\ \A x \in DOMAIN f : x # k => g[x] = f[x]
BY DEF Insert

LEMMA OneMore ==
  ASSUME NEW S, NEW x, x \notin S, IsFiniteSet(S), NEW T, T = S \cup {x}
  PROVE  /\ IsFiniteSet(T) /\ Cardinality(T) = Cardinality(S) + 1
         /\ Cardinality(S) \in Nat
BY FS_AddElement, FS_CardinalityType

LEMMA OnlyOne ==
  ASSUME NEW x
  PROVE  IsFiniteSet({x}) /\ Cardinality({x}) = 1
BY FS_Singleton, Zenon

LEMMA SamePlace ==
  ASSUME NEW q, Placed(q), BatchAt(q)' = BatchAt(q), WaitAt(q)' = WaitAt(q),
         CompAt(q)' = CompAt(q), replies'[q] = replies[q],
         q \in received' <=> q \in received
  PROVE  Placed(q)'
BY Zenon DEF Placed, Located, Nowhere, InBatch, InLookup, InAnswer, Answered

\* A query in one place is counted once.
LEMMA LocatedOnce ==
  ASSUME NEW q, Located(q)
  PROVE  Cardinality(Places(q)) = 1
<1>0. \A p : p \in Places(q) <=>
        \/ \E i \in BatchAt(q) : p = <<"batch", i>>
        \/ \E id \in WaitAt(q) : p = <<"waiting", id>>
        \/ \E j \in CompAt(q) : p = <<"completing", j>>
        \/ \E n \in 1 .. replies[q] : p = <<"replied", n>>
  BY Zenon DEF Places, BatchAt, WaitAt, CompAt, QueriesOf
<1>1. 1 .. 0 = {} /\ 1 .. 1 = {1}
  OBVIOUS
<1>2. \E p : Places(q) = {p}
  <2>1. CASE InBatch(q)
    <3>1. PICK i : BatchAt(q) = {i}
      BY <2>1, Zenon DEF InBatch
    <3>2. Places(q) = {<<"batch", i>>}
      BY <1>0, <1>1, <2>1, <3>1, Zenon DEF InBatch
    <3> QED BY <3>2, Zenon
  <2>2. CASE InLookup(q)
    <3>1. PICK id : WaitAt(q) = {id}
      BY <2>2, Zenon DEF InLookup
    <3>2. Places(q) = {<<"waiting", id>>}
      BY <1>0, <1>1, <2>2, <3>1, Zenon DEF InLookup
    <3> QED BY <3>2, Zenon
  <2>3. CASE InAnswer(q)
    <3>1. PICK j : CompAt(q) = {j}
      BY <2>3, Zenon DEF InAnswer
    <3>2. Places(q) = {<<"completing", j>>}
      BY <1>0, <1>1, <2>3, <3>1, Zenon DEF InAnswer
    <3> QED BY <3>2, Zenon
  <2>4. CASE Answered(q)
    <3>2. Places(q) = {<<"replied", 1>>}
      BY <1>0, <1>1, <2>4, Zenon DEF Answered
    <3> QED BY <3>2, Zenon
  <2> QED BY <2>1, <2>2, <2>3, <2>4, Zenon DEF Located
<1> QED BY <1>2, FS_Singleton, Zenon

LEMMA InvImplies == Inv => EachQueryOnce
<1> SUFFICES ASSUME Inv PROVE EachQueryOnce
  OBVIOUS
<1>1. ASSUME NEW q \in received PROVE Cardinality(Places(q)) = 1
  <2>1. q \in Queries
    BY Zenon DEF Inv, TypeOK
  <2>2. Located(q)
    BY <2>1, Zenon DEF Inv, PlacesInv, Placed
  <2> QED BY <2>2, LocatedOnce, Zenon
<1> QED BY <1>1, Zenon DEF Inv, EachQueryOnce, TablesAgree, LimitsInv
-----------------------------------------------------------------------------
(* The tables.                                                             *)

LEMMA RemoveIs ==
  ASSUME NEW ids, RemoveLookups(ids)
  PROVE  /\ DOMAIN waiting' = DOMAIN waiting \ ids
         /\ \A id \in DOMAIN waiting' : waiting'[id] = waiting[id]
BY RestrictIs, Zenon DEF RemoveLookups

LEMMA RemoveAgrees ==
  ASSUME TablesAgree, NEW ids \in SUBSET DOMAIN waiting, RemoveLookups(ids)
  PROVE  TablesAgree'
<1> DEFINE gone == {waiting[id].question : id \in ids}
<1>1. /\ DOMAIN waiting' = DOMAIN waiting \ ids
      /\ \A id \in DOMAIN waiting' : waiting'[id] = waiting[id]
  BY RemoveIs, Zenon
<1>2. /\ DOMAIN by_question' = DOMAIN by_question \ gone
      /\ \A k \in DOMAIN by_question' : by_question'[k] = by_question[k]
  BY RestrictIs, Zenon DEF RemoveLookups
<1>3. ASSUME NEW k \in DOMAIN by_question'
      PROVE  /\ by_question'[k] \in DOMAIN waiting'
             /\ waiting'[by_question'[k]].question = k
  <2>1. k \in DOMAIN by_question /\ by_question'[k] = by_question[k]
    BY <1>2, <1>3, Zenon
  <2>2. by_question[k] \in DOMAIN waiting /\ waiting[by_question[k]].question = k
    BY <2>1, Zenon DEF TablesAgree
  <2>3. by_question[k] \notin ids
    BY <1>2, <1>3, <2>2, Zenon
  <2> QED BY <1>1, <2>1, <2>2, <2>3, Zenon
<1>4. ASSUME NEW id \in DOMAIN waiting'
      PROVE  /\ waiting'[id].question \in DOMAIN by_question'
             /\ by_question'[waiting'[id].question] = id
  <2>1. id \in DOMAIN waiting /\ id \notin ids /\ waiting'[id] = waiting[id]
    BY <1>1, <1>4, Zenon
  <2>2. /\ waiting[id].question \in DOMAIN by_question
        /\ by_question[waiting[id].question] = id
    BY <2>1, Zenon DEF TablesAgree
  <2>3. waiting[id].question \notin gone
    BY <2>1, <2>2, Zenon DEF TablesAgree
  <2>4. waiting[id].question \in DOMAIN by_question'
    BY <1>2, <2>2, <2>3, Zenon
  <2> QED BY <1>2, <2>1, <2>2, <2>4, Zenon
<1> QED BY <1>3, <1>4, Zenon DEF TablesAgree

LEMMA RemoveKeeps ==
  ASSUME TablesAgree, LimitsInv, JobsApart,
         NEW ids \in SUBSET DOMAIN waiting, RemoveLookups(ids)
  PROVE  TablesAgree' /\ LimitsInv' /\ JobsApart'
<1>1. /\ DOMAIN waiting' = DOMAIN waiting \ ids
      /\ \A id \in DOMAIN waiting' : waiting'[id] = waiting[id]
  BY RemoveIs, Zenon
<1>2. /\ IsFiniteSet(DOMAIN waiting')
      /\ Cardinality(DOMAIN waiting') <= LOCAL_PENDING
  <2>1. /\ IsFiniteSet(DOMAIN waiting') /\ Cardinality(DOMAIN waiting') \in Nat
        /\ Cardinality(DOMAIN waiting) \in Nat
        /\ Cardinality(DOMAIN waiting') <= Cardinality(DOMAIN waiting)
    BY <1>1, FS_Subset, FS_CardinalityType DEF LimitsInv
  <2> QED BY <2>1, LocalAssumption DEF LimitsInv
<1>3. LimitsInv'
  BY <1>1, <1>2, Zenon DEF LimitsInv
<1>4. JobsApart'
  BY <1>1, Zenon DEF JobsApart
<1> QED BY <1>3, <1>4, RemoveAgrees, Zenon

LEMMA UnchangedTables ==
  ASSUME TablesAgree, LimitsInv, JobsApart, waiting' = waiting,
         by_question' = by_question
  PROVE  TablesAgree' /\ LimitsInv' /\ JobsApart'
BY Zenon DEF TablesAgree, LimitsInv, JobsApart

\* A step that changes no lookup's question keeps the two tables in agreement.
LEMMA SameQuestions ==
  ASSUME TablesAgree, by_question' = by_question, DOMAIN waiting' = DOMAIN waiting,
         \A k \in DOMAIN waiting : waiting'[k].question = waiting[k].question
  PROVE  TablesAgree'
<1>1. ASSUME NEW k \in DOMAIN by_question
      PROVE  by_question[k] \in DOMAIN waiting /\ waiting'[by_question[k]].question = k
  BY Zenon DEF TablesAgree
<1>2. ASSUME NEW id \in DOMAIN waiting
      PROVE  /\ waiting'[id].question \in DOMAIN by_question
             /\ by_question[waiting'[id].question] = id
  BY Zenon DEF TablesAgree
<1> QED BY <1>1, <1>2, Zenon DEF TablesAgree

\* A job joins the lookup that its question has.
LEMMA JoinsKeeps ==
  ASSUME TypeOK, TablesAgree, LimitsInv, JobsApart, NEW job \in Jobs,
         NEW id \in DOMAIN waiting, WaitAt(job.query) = {},
         Cardinality(JobsOf(id)) < LOCAL_JOBS_PER_LOOKUP, JoinsLookup(job, id)
  PROVE  TablesAgree' /\ LimitsInv' /\ JobsApart'
<1>1. /\ waiting[id] \in [question : Questions, jobs : SUBSET Jobs, late : BOOLEAN]
      /\ waiting' = [waiting EXCEPT ![id].jobs = waiting[id].jobs \cup {job}]
      /\ by_question' = by_question
  BY Zenon DEF TypeOK, JoinsLookup
<1>2. /\ DOMAIN waiting' = DOMAIN waiting
      /\ \A k \in DOMAIN waiting : k # id => waiting'[k] = waiting[k]
      /\ waiting'[id] = [waiting[id] EXCEPT !.jobs = waiting[id].jobs \cup {job}]
  BY <1>1, Zenon
<1>3. /\ waiting'[id].question = waiting[id].question
      /\ waiting'[id].jobs = waiting[id].jobs \cup {job}
  BY <1>1, <1>2
<1>4. TablesAgree'
  <2>1. \A k \in DOMAIN waiting : waiting'[k].question = waiting[k].question
    BY <1>2, <1>3, Zenon
  <2> QED BY <1>1, <1>2, <2>1, SameQuestions, Zenon
<1>5. LimitsInv'
  <2>1. /\ IsFiniteSet(waiting[id].jobs) /\ Cardinality(waiting[id].jobs) \in Nat
    BY FS_CardinalityType, Zenon DEF LimitsInv
  <2>2. job \notin waiting[id].jobs
    BY Zenon DEF WaitAt
  <2>3. /\ IsFiniteSet(waiting[id].jobs \cup {job})
        /\ Cardinality(waiting[id].jobs \cup {job})
             = Cardinality(waiting[id].jobs) + 1
    BY <2>1, <2>2, OneMore, Zenon
  <2>4. Cardinality(waiting'[id].jobs) \in 1 .. LOCAL_JOBS_PER_LOOKUP
    BY <1>3, <2>1, <2>3, LocalAssumption DEF JobsOf
  <2> QED BY <1>2, <1>3, <2>3, <2>4, Zenon DEF LimitsInv
<1>6. JobsApart'
  <2>1. \A j \in waiting[id].jobs : j.query # job.query
    BY Zenon DEF WaitAt
  <2>2. ASSUME NEW j \in waiting[id].jobs \cup {job},
               NEW k \in waiting[id].jobs \cup {job}, j.query = k.query
        PROVE  j = k
    BY <2>1, <2>2, Zenon DEF JobsApart
  <2> QED BY <1>2, <1>3, <2>2, Zenon DEF JobsApart
<1> QED BY <1>4, <1>5, <1>6, Zenon

\* A job starts a lookup for a question that has none.
LEMMA StartsKeeps ==
  ASSUME TypeOK, TablesAgree, LimitsInv, JobsApart, NEW job \in Jobs,
         Question[job.query] \notin DOMAIN by_question,
         ~(Cardinality(DOMAIN waiting) >= LOCAL_PENDING), StartsLookup(job)
  PROVE  TablesAgree' /\ LimitsInv' /\ JobsApart'
<1> DEFINE question == Question[job.query]
           lookup == [question |-> question, jobs |-> {job}, late |-> FALSE]
<1>0. next_id \notin DOMAIN waiting
  BY DEF TypeOK
<1>a. /\ waiting' = Insert(waiting, next_id, lookup)
      /\ by_question' = Insert(by_question, question, next_id)
  BY Zenon DEF StartsLookup
<1>1. /\ DOMAIN waiting' = DOMAIN waiting \cup {next_id}
      /\ waiting'[next_id] = lookup
      /\ \A x \in DOMAIN waiting : x # next_id => waiting'[x] = waiting[x]
  <2> HIDE DEF lookup
  <2> QED BY <1>a, Zenon DEF Insert
<1>b. /\ DOMAIN by_question' = DOMAIN by_question \cup {question}
      /\ by_question'[question] = next_id
      /\ \A x \in DOMAIN by_question : x # question => by_question'[x] = by_question[x]
  <2> HIDE DEF question
  <2> QED BY <1>a, Zenon DEF Insert
<1>2. lookup.question = question /\ lookup.jobs = {job}
  OBVIOUS
<1> HIDE DEF question, lookup
<1>3. TablesAgree'
  <2>0. question \notin DOMAIN by_question
    BY Zenon DEF question
  <2>1. ASSUME NEW k \in DOMAIN by_question'
        PROVE  /\ by_question'[k] \in DOMAIN waiting'
               /\ waiting'[by_question'[k]].question = k
    <3>1. CASE k = question
      BY <1>1, <1>b, <1>2, <3>1, Zenon
    <3>2. CASE k # question
      <4>1. k \in DOMAIN by_question /\ by_question'[k] = by_question[k]
        BY <1>b, <2>1, <3>2, Zenon
      <4>2. /\ by_question[k] \in DOMAIN waiting
            /\ waiting[by_question[k]].question = k
        BY <4>1, Zenon DEF TablesAgree
      <4>3. waiting'[by_question[k]] = waiting[by_question[k]]
        BY <1>0, <1>1, <4>2, Zenon
      <4> QED BY <1>1, <4>1, <4>2, <4>3, Zenon
    <3> QED BY <3>1, <3>2, Zenon
  <2>2. ASSUME NEW id \in DOMAIN waiting'
        PROVE  /\ waiting'[id].question \in DOMAIN by_question'
               /\ by_question'[waiting'[id].question] = id
    <3>1. CASE id = next_id
      BY <1>1, <1>b, <1>2, <3>1, Zenon
    <3>2. CASE id # next_id
      <4>1. id \in DOMAIN waiting /\ waiting'[id] = waiting[id]
        BY <1>1, <2>2, <3>2, Zenon
      <4>2. /\ waiting[id].question \in DOMAIN by_question
            /\ by_question[waiting[id].question] = id
        BY <4>1, Zenon DEF TablesAgree
      <4>3. by_question'[waiting[id].question] = id
        BY <1>b, <2>0, <4>2, Zenon
      <4> QED BY <1>b, <4>1, <4>2, <4>3, Zenon
    <3> QED BY <3>1, <3>2, Zenon
  <2> QED BY <2>1, <2>2, Zenon DEF TablesAgree
<1>4. LimitsInv'
  <2>1. /\ IsFiniteSet(DOMAIN waiting) /\ Cardinality(DOMAIN waiting) \in Nat
    BY FS_CardinalityType, Zenon DEF LimitsInv
  <2>2. /\ IsFiniteSet(DOMAIN waiting')
        /\ Cardinality(DOMAIN waiting') = Cardinality(DOMAIN waiting) + 1
    BY <1>0, <1>1, <2>1, OneMore, Zenon
  <2>3. Cardinality(DOMAIN waiting') <= LOCAL_PENDING
    BY <2>1, <2>2, LocalAssumption
  <2>4. 1 \in 1 .. LOCAL_JOBS_PER_LOOKUP
    BY LocalAssumption
  <2>5. ASSUME NEW id \in DOMAIN waiting'
        PROVE  /\ IsFiniteSet(waiting'[id].jobs)
               /\ Cardinality(waiting'[id].jobs) \in 1 .. LOCAL_JOBS_PER_LOOKUP
    <3>1. CASE id = next_id
      BY <1>1, <1>2, <2>4, <3>1, OnlyOne, Zenon
    <3>2. CASE id # next_id
      BY <1>1, <2>5, <3>2, Zenon DEF LimitsInv
    <3> QED BY <3>1, <3>2, Zenon
  <2> QED BY <2>2, <2>3, <2>5, Zenon DEF LimitsInv
<1>5. JobsApart'
  <2>1. ASSUME NEW id \in DOMAIN waiting', NEW j \in waiting'[id].jobs,
               NEW k \in waiting'[id].jobs, j.query = k.query
        PROVE  j = k
    <3>1. CASE id = next_id
      BY <1>1, <1>2, <2>1, <3>1
    <3>2. CASE id # next_id
      <4>1. id \in DOMAIN waiting /\ waiting'[id] = waiting[id]
        BY <1>1, <2>1, <3>2, Zenon
      <4> QED BY <2>1, <4>1, Zenon DEF JobsApart
    <3> QED BY <3>1, <3>2, Zenon
  <2> QED BY <2>1, Zenon DEF JobsApart
<1> QED BY <1>3, <1>4, <1>5, Zenon
-----------------------------------------------------------------------------
(* The places.                                                             *)

LEMMA Replied ==
  ASSUME NEW qs, Reply(qs), NEW q \in Queries
  PROVE  /\ q \in qs /\ replies[q] = 0 => replies'[q] = 1
         /\ q \notin qs => replies'[q] = replies[q]
BY DEF Reply

LEMMA AppendAt ==
  ASSUME batch \in Seq(Jobs), NEW job \in Jobs, batch' = Append(batch, job),
         NEW q
  PROVE  /\ job.query = q => BatchAt(q)' = BatchAt(q) \cup {Len(batch) + 1}
         /\ job.query # q => BatchAt(q)' = BatchAt(q)
<1>1. /\ DOMAIN batch' = DOMAIN batch \cup {Len(batch) + 1}
      /\ \A i \in DOMAIN batch : batch'[i] = batch[i] /\ i # Len(batch) + 1
      /\ batch'[Len(batch) + 1] = job
  OBVIOUS
<1> QED BY <1>1, Zenon DEF BatchAt

\* The batch moves up by one when its first job is taken.
LEMMA TailAt ==
  ASSUME batch \in Seq(Jobs), batch # <<>>, batch' = Tail(batch), NEW q
  PROVE  /\ BatchAt(q) = {} => BatchAt(q)' = {}
         /\ Head(batch).query = q => 1 \in BatchAt(q)
         /\ BatchAt(q) = {1} => BatchAt(q)' = {}
         /\ \A i : BatchAt(q) = {i} /\ Head(batch).query # q
                     => BatchAt(q)' = {i - 1}
<1>1. /\ DOMAIN batch = 1 .. Len(batch) /\ Len(batch) \in Nat /\ Len(batch) > 0
      /\ DOMAIN batch' = 1 .. (Len(batch) - 1)
      /\ \A i \in DOMAIN batch' : batch'[i] = batch[i + 1]
      /\ Head(batch) = batch[1]
  OBVIOUS
<1>2. \A i : i \in BatchAt(q)' <=>
        i \in Nat /\ i >= 1 /\ i + 1 \in BatchAt(q)
  BY <1>1 DEF BatchAt
<1>3. BatchAt(q) \subseteq Nat /\ 0 \notin BatchAt(q)
  BY <1>1 DEF BatchAt
<1>4. Head(batch).query = q <=> 1 \in BatchAt(q)
  BY <1>1 DEF BatchAt
<1>5. BatchAt(q) = {} => BatchAt(q)' = {}
  BY <1>2, Zenon
<1>6. BatchAt(q) = {1} => BatchAt(q)' = {}
  BY <1>2
<1>7. ASSUME NEW i, BatchAt(q) = {i}, Head(batch).query # q
      PROVE  BatchAt(q)' = {i - 1}
  <2>1. i \in Nat /\ i # 0 /\ i # 1
    BY <1>3, <1>4, <1>7
  <2> QED BY <1>2, <1>7, <2>1
<1> QED BY <1>4, <1>5, <1>6, <1>7, Zenon

LEMMA PacketPlaces ==
  ASSUME TypeOK, PlacesInv, NEW q \in Queries, handle_packet(q)
  PROVE  PlacesInv'
<1>0. /\ q \notin received /\ received' = received \cup {q}
      /\ waiting' = waiting /\ completing' = completing
      /\ Nowhere(q)
  BY Zenon DEF handle_packet, jobs_vars, PlacesInv, Placed
<1>1. \A r \in Queries : WaitAt(r)' = WaitAt(r) /\ CompAt(r)' = CompAt(r)
  BY <1>0, Zenon DEF WaitAt, CompAt
<1>2. CASE Question[q] \in DOMAIN cache
  <2>1. Reply({q}) /\ batch' = batch
    BY <1>2, Zenon DEF handle_packet
  <2>2. \A r : BatchAt(r)' = BatchAt(r)
    BY <2>1, Zenon DEF BatchAt
  <2>3. Answered(q)'
    BY <1>0, <1>1, <2>1, <2>2, Replied, Zenon DEF Nowhere, Answered
  <2>4. ASSUME NEW r \in Queries, r # q PROVE Placed(r)'
    <3>0. r \notin {q}
      BY <2>4, Zenon
    <3>1. replies'[r] = replies[r]
      BY <2>1, <3>0, Replied, Zenon
    <3>2. r \in received' <=> r \in received
      BY <1>0, <2>4, Zenon
    <3> QED BY <1>1, <2>2, <3>1, <3>2, SamePlace, Zenon DEF PlacesInv
  <2> QED BY <1>0, <2>3, <2>4, Zenon DEF PlacesInv, Placed, Located
<1>3. CASE ~(Question[q] \in DOMAIN cache)
  <2> DEFINE job == [query |-> q, arrived |-> generation]
  <2>1. batch' = Append(batch, job) /\ replies' = replies
    BY <1>3, Zenon DEF handle_packet
  <2>2. job \in Jobs /\ job.query = q /\ batch \in Seq(Jobs)
    BY DEF Jobs, TypeOK
  <2> HIDE DEF job
  <2>3. InBatch(q)'
    <3>1. BatchAt(q)' = {} \cup {Len(batch) + 1}
      BY <1>0, <2>1, <2>2, AppendAt, Zenon DEF Nowhere
    <3>2. BatchAt(q)' = {Len(batch) + 1}
      BY <3>1, Zenon
    <3> QED BY <1>0, <1>1, <2>1, <3>2, Zenon DEF Nowhere, InBatch
  <2>4. ASSUME NEW r \in Queries, r # q PROVE Placed(r)'
    <3>1. BatchAt(r)' = BatchAt(r)
      BY <2>1, <2>2, <2>4, AppendAt, Zenon
    <3>2. r \in received' <=> r \in received
      BY <1>0, <2>4, Zenon
    <3> QED BY <1>1, <2>1, <3>1, <3>2, SamePlace, Zenon DEF PlacesInv
  <2> QED BY <1>0, <2>3, <2>4, Zenon DEF PlacesInv, Placed, Located
<1> QED BY <1>2, <1>3, Zenon

\* Lookups past their deadline fail, with every query that waits for them.
LEMMA ExpiryPlaces ==
  ASSUME PlacesInv, FlushBegins
  PROVE  PlacesInv'
<1> DEFINE failed == UNION {QueriesOf(JobsOf(id)) : id \in Expired}
<1>0. /\ RemoveLookups(Expired) /\ Reply(failed) /\ batch' = batch
      /\ completing' = completing /\ received' = received
  BY Zenon DEF FlushBegins
<1>1. \A q : q \in failed <=> \E id \in Expired : id \in WaitAt(q)
  <2>1. \A q : q \in failed <=> \E id \in Expired : q \in QueriesOf(JobsOf(id))
    BY Zenon
  <2>2. \A q, id : q \in QueriesOf(JobsOf(id))
                  <=> \E j \in waiting[id].jobs : j.query = q
    BY Zenon DEF QueriesOf, JobsOf
  <2>3. Expired \subseteq DOMAIN waiting
    BY Zenon DEF Expired
  <2> HIDE DEF failed
  <2> QED BY <2>1, <2>2, <2>3, Zenon DEF WaitAt
<1> HIDE DEF failed
<1>2. \A q : BatchAt(q)' = BatchAt(q) /\ CompAt(q)' = CompAt(q)
  BY <1>0, Zenon DEF BatchAt, CompAt
<1>a. /\ DOMAIN waiting' = DOMAIN waiting \ Expired
      /\ \A id \in DOMAIN waiting' : waiting'[id] = waiting[id]
  <2>1. RemoveLookups(Expired)
    BY <1>0, Zenon
  <2> HIDE DEF Expired
  <2> QED BY <2>1, RemoveIs, Zenon
<1>3. \A q : WaitAt(q)' = WaitAt(q) \ Expired
  BY <1>a DEF WaitAt
<1>4. ASSUME NEW q \in Queries PROVE Placed(q)'
  <2>0. Placed(q)
    BY <1>4, Zenon DEF PlacesInv
  <2>1. CASE q \in failed
    <3>1. PICK id \in Expired : id \in WaitAt(q)
      BY <1>1, <2>1, Zenon
    <3>2. q \in received /\ InLookup(q)
      BY <2>0, <3>1, Zenon
      DEF Placed, Located, Nowhere, InBatch, InAnswer, Answered
    <3>3. WaitAt(q)' = {}
      BY <1>3, <3>1, <3>2, Zenon DEF InLookup
    <3>4. Answered(q)'
      BY <1>0, <1>2, <2>1, <3>2, <3>3, Replied, Zenon DEF InLookup, Answered
    <3> QED BY <1>0, <3>2, <3>4, Zenon DEF Placed, Located
  <2>2. CASE q \notin failed
    <3>1. WaitAt(q)' = WaitAt(q)
      BY <1>1, <1>3, <2>2, Zenon
    <3>2. replies'[q] = replies[q]
      BY <1>0, <2>2, Replied, Zenon
    <3> QED BY <1>0, <1>2, <2>0, <3>1, <3>2, SamePlace, Zenon
  <2> QED BY <2>1, <2>2, Zenon
<1> QED BY <1>4, Zenon DEF PlacesInv

\* The first job of the batch is answered, or waits in one lookup.
LEMMA TakenPlaces ==
  ASSUME TypeOK, PlacesInv, batch # <<>>, NEW q0, q0 = Head(batch).query,
         batch' = Tail(batch), completing' = completing, received' = received,
         \A q \in Queries : q # q0 =>
           WaitAt(q)' = WaitAt(q) /\ replies'[q] = replies[q],
         Placed(q0) /\ WaitAt(q0) = {} /\ replies[q0] = 0 =>
           \/ WaitAt(q0)' = {} /\ replies'[q0] = 1
           \/ (\E id \in WaitAt(q0)' : WaitAt(q0)' = {id}) /\ replies'[q0] = 0
  PROVE  PlacesInv'
<1>0. batch \in Seq(Jobs)
  BY Zenon DEF TypeOK
<1>1. q0 \in Queries
  <2>1. Head(batch) \in Jobs
    BY <1>0
  <2> QED BY <2>1 DEF Jobs
<1>2. /\ BatchAt(q0) # {} /\ 1 \in BatchAt(q0)
  BY <1>0, TailAt, Zenon
<1>3. q0 \in received /\ InBatch(q0)
  BY <1>1, <1>2, Zenon
  DEF PlacesInv, Placed, Located, Nowhere, InLookup, InAnswer, Answered
<1>4. BatchAt(q0)' = {}
  <2>1. BatchAt(q0) = {1}
    BY <1>2, <1>3, Zenon DEF InBatch
  <2> QED BY <1>0, <2>1, TailAt, Zenon
<1>5. \A q : CompAt(q)' = CompAt(q)
  BY Zenon DEF CompAt
<1>6. Placed(q0)'
  <2>1. \/ WaitAt(q0)' = {} /\ replies'[q0] = 1
        \/ (\E id \in WaitAt(q0)' : WaitAt(q0)' = {id}) /\ replies'[q0] = 0
    BY <1>1, <1>3, Zenon DEF InBatch, PlacesInv
  <2>2. CompAt(q0)' = {}
    BY <1>3, <1>5, Zenon DEF InBatch
  <2> QED BY <1>3, <1>4, <2>1, <2>2, Zenon
          DEF Placed, Located, Answered, InLookup
<1>7. ASSUME NEW q \in Queries, q # q0 PROVE Placed(q)'
  <2>0. /\ WaitAt(q)' = WaitAt(q) /\ replies'[q] = replies[q]
        /\ CompAt(q)' = CompAt(q) /\ Placed(q)
    BY <1>5, <1>7, Zenon DEF PlacesInv
  <2>1. CASE BatchAt(q) = {}
    <3>1. BatchAt(q)' = BatchAt(q)
      BY <1>0, <2>1, TailAt, Zenon
    <3> QED BY <2>0, <3>1, SamePlace, Zenon
  <2>2. CASE BatchAt(q) # {}
    <3>1. q \in received /\ InBatch(q)
      BY <2>0, <2>2, Zenon
      DEF Placed, Located, Nowhere, InLookup, InAnswer, Answered
    <3>2. PICK i : BatchAt(q) = {i}
      BY <3>1, Zenon DEF InBatch
    <3>3. BatchAt(q)' = {i - 1}
      BY <1>0, <1>7, <3>2, TailAt, Zenon
    <3>4. InBatch(q)'
      BY <2>0, <3>1, <3>3, Zenon DEF InBatch
    <3> QED BY <3>1, <3>4, Zenon DEF Placed, Located
  <2> QED BY <2>1, <2>2, Zenon
<1> QED BY <1>6, <1>7, Zenon DEF PlacesInv

\* complete_local takes a lookup's jobs over.
LEMMA HandedPlaces ==
  ASSUME PlacesInv, JobsApart, NEW id \in DOMAIN waiting, completing = {},
         completing' = JobsOf(id), RemoveLookups({id}), batch' = batch,
         received' = received, replies' = replies
  PROVE  PlacesInv'
<1>0. /\ DOMAIN waiting' = DOMAIN waiting \ {id}
      /\ \A k \in DOMAIN waiting' : waiting'[k] = waiting[k]
  BY RemoveIs, Zenon
<1>1. \A q : WaitAt(q)' = WaitAt(q) \ {id}
  BY <1>0 DEF WaitAt
<1>2. \A q : BatchAt(q)' = BatchAt(q)
  BY Zenon DEF BatchAt
<1>3. \A q : CompAt(q)' = {j \in waiting[id].jobs : j.query = q}
  BY Zenon DEF CompAt, JobsOf
<1>4. ASSUME NEW q \in Queries PROVE Placed(q)'
  <2>0. Placed(q) /\ CompAt(q) = {}
    BY <1>4, Zenon DEF PlacesInv, CompAt
  <2>1. CASE id \in WaitAt(q)
    <3>1. q \in received /\ InLookup(q)
      BY <2>0, <2>1, Zenon
      DEF Placed, Located, Nowhere, InBatch, InAnswer, Answered
    <3>2. WaitAt(q)' = {}
      BY <1>1, <2>1, <3>1, Zenon DEF InLookup
    <3>3. PICK j \in waiting[id].jobs : j.query = q
      BY <2>1, Zenon DEF WaitAt
    <3>4. CompAt(q)' = {j}
      BY <1>3, <3>3, Zenon DEF JobsApart
    <3>5. InAnswer(q)'
      BY <1>2, <3>1, <3>2, <3>4, Zenon DEF InLookup, InAnswer
    <3> QED BY <3>1, <3>5, Zenon DEF Placed, Located
  <2>2. CASE id \notin WaitAt(q)
    <3>1. WaitAt(q)' = WaitAt(q)
      BY <1>1, <2>2, Zenon
    <3>2. CompAt(q)' = CompAt(q)
      BY <1>3, <2>0, <2>2, Zenon DEF WaitAt
    <3> QED BY <1>2, <2>0, <3>1, <3>2, SamePlace, Zenon
  <2> QED BY <2>1, <2>2, Zenon
<1> QED BY <1>4, Zenon DEF PlacesInv

\* DnsHandler::complete_local answers one job.
LEMMA CompletedPlaces ==
  ASSUME TypeOK, PlacesInv, NEW job \in completing, CompleteJob(job)
  PROVE  PlacesInv'
<1>0. /\ completing' = completing \ {job} /\ Reply({job.query})
      /\ batch' = batch /\ waiting' = waiting /\ received' = received
  BY Zenon DEF CompleteJob, handler_vars, jobs_vars
<1>1. job.query \in Queries
  <2>1. job \in Jobs
    BY Zenon DEF TypeOK
  <2> QED BY <2>1 DEF Jobs
<1>2. \A q : BatchAt(q)' = BatchAt(q) /\ WaitAt(q)' = WaitAt(q)
  BY <1>0, Zenon DEF BatchAt, WaitAt
<1>3. ASSUME NEW q \in Queries PROVE Placed(q)'
  <2>0. Placed(q)
    BY <1>3, Zenon DEF PlacesInv
  <2>1. CASE q = job.query
    <3>0. job \in CompAt(q)
      BY <2>1, Zenon DEF CompAt
    <3>1. q \in received /\ InAnswer(q)
      BY <2>0, <3>0, Zenon
      DEF Placed, Located, Nowhere, InBatch, InLookup, Answered
    <3>2. CompAt(q) = {job}
      BY <3>0, <3>1, Zenon DEF InAnswer
    <3>3. CompAt(q)' = {}
      BY <1>0, <3>2, Zenon DEF CompAt
    <3>4. replies'[q] = 1
      BY <1>0, <2>1, <3>1, Replied, Zenon DEF InAnswer
    <3>5. Answered(q)'
      BY <1>2, <3>1, <3>3, <3>4, Zenon DEF InAnswer, Answered
    <3> QED BY <1>0, <3>1, <3>5, Zenon DEF Placed, Located
  <2>2. CASE q # job.query
    <3>1. CompAt(q)' = CompAt(q)
      BY <1>0, <2>2, Zenon DEF CompAt
    <3>2. replies'[q] = replies[q]
      <4>1. q \notin {job.query}
        BY <2>2, Zenon
      <4> QED BY <1>0, <4>1, Replied, Zenon
    <3> QED BY <1>0, <1>2, <2>0, <3>1, <3>2, SamePlace, Zenon
  <2> QED BY <2>1, <2>2, Zenon
<1> QED BY <1>3, Zenon DEF PlacesInv

\* The jobs of a lookup do not change when it is late.
LEMMA LateKeeps ==
  ASSUME Inv, NEW id \in DOMAIN waiting, Late(id)
  PROVE  Inv'
<1>0. /\ waiting[id] \in [question : Questions, jobs : SUBSET Jobs, late : BOOLEAN]
      /\ waiting' = [waiting EXCEPT ![id].late = TRUE]
      /\ UNCHANGED <<received, network, generation, cache, resolver,
                     handler_vars, next_id, by_question, swift_vars, completing,
                     answer, replies>>
  BY Zenon DEF Late, Inv, TypeOK
<1>1. /\ DOMAIN waiting' = DOMAIN waiting
      /\ \A k \in DOMAIN waiting : k # id => waiting'[k] = waiting[k]
      /\ waiting'[id] = [waiting[id] EXCEPT !.late = TRUE]
  BY <1>0, Zenon
<1>2. /\ \A k \in DOMAIN waiting : /\ waiting'[k].question = waiting[k].question
                                   /\ waiting'[k].jobs = waiting[k].jobs
      /\ waiting'[id] \in [question : Questions, jobs : SUBSET Jobs, late : BOOLEAN]
  BY <1>0, <1>1
<1>3. TypeOK'
  <2>1. \A k \in DOMAIN waiting' :
          waiting'[k] \in [question : Questions, jobs : SUBSET Jobs, late : BOOLEAN]
    BY <1>1, <1>2, Zenon DEF Inv, TypeOK
  <2> QED BY <1>0, <1>1, <2>1, Zenon DEF Inv, TypeOK, handler_vars, swift_vars
<1>4. PlacesInv'
  <2>1. \A q : WaitAt(q)' = WaitAt(q)
    BY <1>1, <1>2, ZenonT(40) DEF WaitAt
  <2>2. \A q : BatchAt(q)' = BatchAt(q) /\ CompAt(q)' = CompAt(q)
    BY <1>0, Zenon DEF BatchAt, CompAt, handler_vars
  <2> QED BY <1>0, <2>1, <2>2, SamePlace, Zenon DEF Inv, PlacesInv
<1>5. TablesAgree'
  <2>1. TablesAgree /\ by_question' = by_question /\ DOMAIN waiting' = DOMAIN waiting
    BY <1>0, <1>1, Zenon DEF Inv
  <2>2. \A k \in DOMAIN waiting : waiting'[k].question = waiting[k].question
    BY <1>2, Zenon
  <2> QED BY <2>1, <2>2, SameQuestions, Zenon
<1>6. LimitsInv' /\ JobsApart'
  BY <1>1, <1>2, Zenon DEF Inv, LimitsInv, JobsApart
<1> QED BY <1>3, <1>4, <1>5, <1>6, Zenon DEF Inv

\* Steps that leave the queries where they are.
LEMMA ElsewherePlaces ==
  ASSUME PlacesInv, UNCHANGED <<batch, waiting, completing, received, replies>>
  PROVE  PlacesInv'
<1>1. \A q : /\ BatchAt(q)' = BatchAt(q) /\ WaitAt(q)' = WaitAt(q)
             /\ CompAt(q)' = CompAt(q)
  BY Zenon DEF BatchAt, WaitAt, CompAt
<1> QED BY <1>1, SamePlace, Zenon DEF PlacesInv

LEMMA ElsewhereKeeps ==
  ASSUME Inv, TypeOK',
         UNCHANGED <<batch, waiting, by_question, completing, received, replies>>
  PROVE  Inv'
BY ElsewherePlaces, UnchangedTables, Zenon DEF Inv
-----------------------------------------------------------------------------
(* The steps.                                                              *)

LEMMA OneMoreId ==
  ASSUME NEW n \in Nat, NEW S, S \subseteq 0 .. n - 1
  PROVE  S \subseteq 0 .. (n + 1) - 1 /\ S \cup {n} \subseteq 0 .. (n + 1) - 1
OBVIOUS

LEMMA ReplyType ==
  ASSUME replies \in [Queries -> Nat], NEW qs, Reply(qs)
  PROVE  replies' \in [Queries -> Nat]
BY DEF Reply

LEMMA LookupsAre ==
  ASSUME TypeOK, NEW ids, RemoveLookups(ids), next_id' = next_id
  PROVE  /\ DOMAIN waiting' \subseteq 0 .. next_id' - 1
         /\ \A id \in DOMAIN waiting' :
              waiting'[id] \in [question : Questions, jobs : SUBSET Jobs,
                                late : BOOLEAN]
<1>1. /\ DOMAIN waiting' = DOMAIN waiting \ ids
      /\ \A id \in DOMAIN waiting' : waiting'[id] = waiting[id]
  BY RemoveIs, Zenon
<1> QED BY <1>1, Zenon DEF TypeOK

LEMMA PacketKeeps ==
  ASSUME Inv, NEW q \in Queries, handle_packet(q)
  PROVE  Inv'
<1>1. PlacesInv'
  BY PacketPlaces, Zenon DEF Inv
<1>2. /\ UNCHANGED <<network, generation, cache, resolver, handler, can_resolve,
                     calls, jobs_vars, swift_vars, completing, answer>>
      /\ received' \subseteq Queries
  BY Zenon DEF Inv, TypeOK, handle_packet
<1>3. batch' \in Seq(Jobs) /\ replies' \in [Queries -> Nat]
  <2>0. batch \in Seq(Jobs) /\ replies \in [Queries -> Nat] /\ generation \in Nat
    BY Zenon DEF Inv, TypeOK
  <2>1. CASE Reply({q}) /\ batch' = batch
    BY <2>0, <2>1, ReplyType, Zenon
  <2>2. CASE /\ batch' = Append(batch, [query |-> q, arrived |-> generation])
             /\ replies' = replies
    BY <2>0, <2>2 DEF Jobs
  <2> QED BY <2>1, <2>2, Zenon DEF handle_packet
<1>4. TypeOK'
  BY <1>2, <1>3, Zenon DEF Inv, TypeOK, jobs_vars, swift_vars
<1>5. TablesAgree' /\ LimitsInv' /\ JobsApart'
  BY <1>2, UnchangedTables, Zenon DEF Inv, jobs_vars
<1> QED BY <1>1, <1>4, <1>5, Zenon DEF Inv

LEMMA FlushBeginsKeeps ==
  ASSUME Inv, FlushBegins
  PROVE  Inv'
<1> DEFINE failed == UNION {QueriesOf(JobsOf(id)) : id \in Expired}
<1>1. /\ RemoveLookups(Expired) /\ Reply(failed)
      /\ handler' = "flush" /\ can_resolve' = resolver
      /\ UNCHANGED <<received, network, generation, cache, resolver, batch,
                     calls, next_id, swift_vars, completing, answer>>
  BY Zenon DEF FlushBegins
<1> HIDE DEF failed
<1>2. PlacesInv'
  BY ExpiryPlaces, Zenon DEF Inv
<1>3. TablesAgree' /\ LimitsInv' /\ JobsApart'
  <2>1. Expired \in SUBSET DOMAIN waiting
    BY Zenon DEF Expired
  <2> HIDE DEF Expired
  <2> QED BY <1>1, <2>1, RemoveKeeps, Zenon DEF Inv
<1>4. TypeOK'
  <2>0. replies \in [Queries -> Nat] /\ TypeOK
    BY Zenon DEF Inv, TypeOK
  <2>1. replies' \in [Queries -> Nat]
    BY <1>1, <2>0, ReplyType, Zenon
  <2>2. /\ DOMAIN waiting' \subseteq 0 .. next_id' - 1
        /\ \A id \in DOMAIN waiting' :
             waiting'[id] \in [question : Questions, jobs : SUBSET Jobs,
                               late : BOOLEAN]
    BY <1>1, <2>0, LookupsAre, Zenon
  <2> QED BY <1>1, <2>0, <2>1, <2>2, Zenon DEF TypeOK, swift_vars
<1> QED BY <1>2, <1>3, <1>4, Zenon DEF Inv

LEMMA FlushEndsKeeps ==
  ASSUME Inv, FlushEnds
  PROVE  Inv'
<1>1. TypeOK'
  BY Zenon DEF Inv, TypeOK, FlushEnds, jobs_vars
<1> QED BY <1>1, ElsewhereKeeps, Zenon DEF FlushEnds, jobs_vars

\* What a job's placing does to the places and to the types.
LEMMA FailsPlaces ==
  ASSUME TypeOK, NEW job \in Jobs, FailsJob(job)
  PROVE  /\ \A q \in Queries : q # job.query =>
              WaitAt(q)' = WaitAt(q) /\ replies'[q] = replies[q]
         /\ WaitAt(job.query)' = WaitAt(job.query)
         /\ replies[job.query] = 0 => replies'[job.query] = 1
         /\ replies' \in [Queries -> Nat]
<1>0. /\ Reply({job.query}) /\ waiting' = waiting /\ job.query \in Queries
      /\ replies \in [Queries -> Nat]
  BY DEF FailsJob, Jobs, jobs_vars, TypeOK
<1>1. \A q : WaitAt(q)' = WaitAt(q)
  BY <1>0, Zenon DEF WaitAt
<1>2. ASSUME NEW q \in Queries, q # job.query PROVE replies'[q] = replies[q]
  <2>1. q \notin {job.query}
    BY <1>2, Zenon
  <2> QED BY <1>0, <2>1, Replied, Zenon
<1>3. job.query \in {job.query}
  OBVIOUS
<1> QED BY <1>0, <1>1, <1>2, <1>3, Replied, ReplyType, Zenon

LEMMA JoinsPlaces ==
  ASSUME TypeOK, NEW job \in Jobs, NEW id \in DOMAIN waiting, JoinsLookup(job, id)
  PROVE  /\ \A q \in Queries : q # job.query => WaitAt(q)' = WaitAt(q)
         /\ WaitAt(job.query) = {} => WaitAt(job.query)' = {id}
         /\ DOMAIN waiting' = DOMAIN waiting
         /\ \A k \in DOMAIN waiting' :
              waiting'[k] \in [question : Questions, jobs : SUBSET Jobs,
                               late : BOOLEAN]
<1>1. /\ waiting[id] \in [question : Questions, jobs : SUBSET Jobs, late : BOOLEAN]
      /\ waiting' = [waiting EXCEPT ![id].jobs = waiting[id].jobs \cup {job}]
  BY Zenon DEF TypeOK, JoinsLookup
<1>2. /\ DOMAIN waiting' = DOMAIN waiting
      /\ \A k \in DOMAIN waiting : k # id => waiting'[k] = waiting[k]
      /\ waiting'[id] = [waiting[id] EXCEPT !.jobs = waiting[id].jobs \cup {job}]
  BY <1>1, Zenon
<1>3. /\ waiting'[id].jobs = waiting[id].jobs \cup {job}
      /\ waiting'[id] \in [question : Questions, jobs : SUBSET Jobs, late : BOOLEAN]
  BY <1>1, <1>2
<1>4. ASSUME NEW q, q # job.query PROVE WaitAt(q)' = WaitAt(q)
  BY <1>2, <1>3, <1>4, Zenon DEF WaitAt
<1>5. ASSUME WaitAt(job.query) = {} PROVE WaitAt(job.query)' = {id}
  BY <1>2, <1>3, <1>5 DEF WaitAt
<1>6. \A k \in DOMAIN waiting' :
        waiting'[k] \in [question : Questions, jobs : SUBSET Jobs, late : BOOLEAN]
  BY <1>2, <1>3, Zenon DEF TypeOK
<1> QED BY <1>2, <1>4, <1>5, <1>6, Zenon

LEMMA StartsPlaces ==
  ASSUME TypeOK, NEW job \in Jobs, StartsLookup(job)
  PROVE  /\ \A q \in Queries : q # job.query => WaitAt(q)' = WaitAt(q)
         /\ WaitAt(job.query) = {} => WaitAt(job.query)' = {next_id}
         /\ DOMAIN waiting' = DOMAIN waiting \cup {next_id}
         /\ \A k \in DOMAIN waiting' :
              waiting'[k] \in [question : Questions, jobs : SUBSET Jobs,
                               late : BOOLEAN]
<1> DEFINE lookup == [question |-> Question[job.query], jobs |-> {job},
                      late |-> FALSE]
<1>0. next_id \notin DOMAIN waiting
  BY DEF TypeOK
<1>1. waiting' = Insert(waiting, next_id, lookup)
  BY Zenon DEF StartsLookup
<1>2. /\ lookup.jobs = {job}
      /\ lookup \in [question : Questions, jobs : SUBSET Jobs, late : BOOLEAN]
  <2>1. Question[job.query] \in Questions
    BY DEF Questions, Jobs
  <2> QED BY <2>1
<1> HIDE DEF lookup
<1>3. /\ DOMAIN waiting' = DOMAIN waiting \cup {next_id}
      /\ waiting'[next_id] = lookup
      /\ \A x \in DOMAIN waiting : x # next_id => waiting'[x] = waiting[x]
  BY <1>1, Zenon DEF Insert
<1>4. ASSUME NEW q, q # job.query PROVE WaitAt(q)' = WaitAt(q)
  BY <1>0, <1>2, <1>3, <1>4 DEF WaitAt
<1>5. ASSUME WaitAt(job.query) = {} PROVE WaitAt(job.query)' = {next_id}
  BY <1>0, <1>2, <1>3, <1>5 DEF WaitAt
<1>6. \A k \in DOMAIN waiting' :
        waiting'[k] \in [question : Questions, jobs : SUBSET Jobs, late : BOOLEAN]
  BY <1>2, <1>3, Zenon DEF TypeOK
<1> QED BY <1>3, <1>4, <1>5, <1>6, Zenon

LEMMA FlushJobKeeps ==
  ASSUME Inv, FlushJob
  PROVE  Inv'
<1>j. PICK job : job = Head(batch)
  OBVIOUS
<1>k. PICK id : id = by_question[Question[job.query]]
  OBVIOUS
<1>0. /\ batch \in Seq(Jobs) /\ batch # <<>> /\ batch' = Tail(batch)
      /\ PlaceJob(job)
      /\ UNCHANGED <<received, network, generation, cache, resolver, handler,
                     can_resolve, swift_vars, completing, answer>>
  BY <1>j, Zenon DEF FlushJob, Inv, TypeOK
<1>1. job \in Jobs /\ batch' \in Seq(Jobs)
  BY <1>0, <1>j
<1>2. TypeOK /\ PlacesInv /\ TablesAgree /\ LimitsInv /\ JobsApart
  BY Zenon DEF Inv
<1>3. WaitAt(job.query) = {} /\ replies[job.query] = 0
  <2>1. job.query \in Queries
    BY <1>1 DEF Jobs
  <2>2. 1 \in BatchAt(job.query)
    BY <1>0, <1>j, TailAt, Zenon
  <2> QED BY <1>2, <2>1, <2>2, Zenon
          DEF PlacesInv, Placed, Located, Nowhere, InBatch, InLookup, InAnswer,
              Answered
<1>4. \/ FailsJob(job)
      \/ /\ Question[job.query] \in DOMAIN by_question
         /\ Cardinality(JobsOf(id)) < LOCAL_JOBS_PER_LOOKUP
         /\ JoinsLookup(job, id)
      \/ /\ Question[job.query] \notin DOMAIN by_question
         /\ ~(Cardinality(DOMAIN waiting) >= LOCAL_PENDING)
         /\ StartsLookup(job)
  BY <1>0, <1>k, Zenon DEF PlaceJob
<1>5. CASE FailsJob(job)
  <2>1. /\ \A q \in Queries : q # job.query =>
             WaitAt(q)' = WaitAt(q) /\ replies'[q] = replies[q]
        /\ WaitAt(job.query)' = {} /\ replies'[job.query] = 1
        /\ replies' \in [Queries -> Nat]
    BY <1>1, <1>2, <1>3, <1>5, FailsPlaces, Zenon
  <2>2. UNCHANGED <<calls, jobs_vars>>
    BY <1>5, Zenon DEF FailsJob
  <2>3. PlacesInv'
    BY <1>0, <1>2, <2>1, <1>j, TakenPlaces, Zenon
  <2>4. TypeOK'
    BY <1>0, <1>1, <1>2, <2>1, <2>2, Zenon DEF TypeOK, swift_vars, jobs_vars
  <2>5. TablesAgree' /\ LimitsInv' /\ JobsApart'
    BY <1>2, <2>2, UnchangedTables, Zenon DEF jobs_vars
  <2> QED BY <2>3, <2>4, <2>5, Zenon DEF Inv
<1>6. CASE /\ Question[job.query] \in DOMAIN by_question
           /\ Cardinality(JobsOf(id)) < LOCAL_JOBS_PER_LOOKUP
           /\ JoinsLookup(job, id)
  <2>0. id \in DOMAIN waiting
    BY <1>2, <1>6, <1>k, Zenon DEF TablesAgree
  <2>1. /\ \A q \in Queries : q # job.query => WaitAt(q)' = WaitAt(q)
        /\ WaitAt(job.query)' = {id}
        /\ DOMAIN waiting' = DOMAIN waiting
        /\ \A k \in DOMAIN waiting' :
             waiting'[k] \in [question : Questions, jobs : SUBSET Jobs,
                              late : BOOLEAN]
    BY <1>1, <1>2, <1>3, <1>6, <2>0, JoinsPlaces, Zenon
  <2>2. UNCHANGED <<calls, next_id, by_question, replies>>
    BY <1>6, Zenon DEF JoinsLookup
  <2>3. PlacesInv'
    <3>1. \E k \in WaitAt(job.query)' : WaitAt(job.query)' = {k}
      BY <2>1, Zenon
    <3> QED BY <1>0, <1>2, <1>3, <2>1, <2>2, <3>1, <1>j, TakenPlaces, Zenon
  <2>4. TypeOK'
    BY <1>0, <1>1, <1>2, <2>1, <2>2, Zenon DEF TypeOK, swift_vars
  <2>5. TablesAgree' /\ LimitsInv' /\ JobsApart'
    BY <1>1, <1>2, <1>3, <1>6, <2>0, JoinsKeeps, Zenon
  <2> QED BY <2>3, <2>4, <2>5, Zenon DEF Inv
<1>7. CASE /\ Question[job.query] \notin DOMAIN by_question
           /\ ~(Cardinality(DOMAIN waiting) >= LOCAL_PENDING)
           /\ StartsLookup(job)
  <2>1. /\ \A q \in Queries : q # job.query => WaitAt(q)' = WaitAt(q)
        /\ WaitAt(job.query)' = {next_id}
        /\ DOMAIN waiting' = DOMAIN waiting \cup {next_id}
        /\ \A k \in DOMAIN waiting' :
             waiting'[k] \in [question : Questions, jobs : SUBSET Jobs,
                              late : BOOLEAN]
    BY <1>1, <1>2, <1>3, <1>7, StartsPlaces, Zenon
  <2>2. /\ next_id' = next_id + 1 /\ calls' = calls \cup {next_id}
        /\ replies' = replies
    BY <1>7, Zenon DEF StartsLookup
  <2>3. PlacesInv'
    <3>1. \E k \in WaitAt(job.query)' : WaitAt(job.query)' = {k}
      BY <2>1, Zenon
    <3> QED BY <1>0, <1>2, <1>3, <2>1, <2>2, <3>1, <1>j, TakenPlaces, Zenon
  <2>4. TypeOK'
    <3>0. /\ next_id \in Nat /\ DOMAIN waiting \subseteq 0 .. next_id - 1
          /\ calls \subseteq 0 .. next_id - 1
          /\ dispatched \subseteq 0 .. next_id - 1
          /\ DOMAIN lookups \subseteq 0 .. next_id - 1
      BY <1>2, Zenon DEF TypeOK
    <3>1. next_id' \in Nat
      BY <2>2, <3>0
    <3>2. /\ DOMAIN waiting' \subseteq 0 .. next_id' - 1
          /\ calls' \subseteq 0 .. next_id' - 1
      BY <2>1, <2>2, <3>0, OneMoreId, Zenon
    <3>3. /\ dispatched \subseteq 0 .. next_id' - 1
          /\ DOMAIN lookups \subseteq 0 .. next_id' - 1
      BY <2>2, <3>0, OneMoreId, Zenon
    <3> QED BY <1>0, <1>1, <1>2, <2>1, <2>2, <3>1, <3>2, <3>3, Zenon
            DEF TypeOK, swift_vars
  <2>5. TablesAgree' /\ LimitsInv' /\ JobsApart'
    BY <1>1, <1>2, <1>7, StartsKeeps, Zenon
  <2> QED BY <2>3, <2>4, <2>5, Zenon DEF Inv
<1> QED BY <1>4, <1>5, <1>6, <1>7, Zenon

\* LocalNameResolver.complete, from begin or at the end of a lookup.
LEMMA CompleteKeeps ==
  ASSUME Inv, NEW id, NEW result \in Answers, completing = {},
         complete(id, result), replies' = replies,
         UNCHANGED <<received, network, generation, cache, resolver,
                     handler_vars, engine, stopped>>,
         dispatched' \subseteq dispatched,
         DOMAIN lookups' \subseteq DOMAIN lookups,
         \A k \in DOMAIN lookups' : lookups'[k] = lookups[k]
  PROVE  Inv'
<1>0. TypeOK /\ PlacesInv /\ TablesAgree /\ LimitsInv /\ JobsApart
  BY Zenon DEF Inv
<1>1. CASE UNCHANGED <<completing, answer, jobs_vars>>
  <2>1. TypeOK'
    BY <1>0, <1>1, Zenon DEF TypeOK, handler_vars, jobs_vars
  <2> QED BY <1>1, <2>1, ElsewhereKeeps, Zenon DEF handler_vars, jobs_vars
<1>2. CASE /\ id \in DOMAIN waiting /\ completing' = JobsOf(id)
           /\ answer' = result /\ RemoveLookups({id}) /\ next_id' = next_id
  <2>1. PlacesInv'
    BY <1>0, <1>2, HandedPlaces, Zenon DEF handler_vars
  <2>2. TablesAgree' /\ LimitsInv' /\ JobsApart'
    <3>1. {id} \in SUBSET DOMAIN waiting
      BY <1>2, Zenon
    <3> QED BY <1>0, <1>2, <3>1, RemoveKeeps, Zenon
  <2>3. TypeOK'
    <3>1. /\ DOMAIN waiting' \subseteq 0 .. next_id' - 1
          /\ \A k \in DOMAIN waiting' :
               waiting'[k] \in [question : Questions, jobs : SUBSET Jobs,
                                late : BOOLEAN]
      BY <1>0, <1>2, LookupsAre, Zenon
    <3>2. completing' \subseteq Jobs
      <4>1. waiting[id] \in [question : Questions, jobs : SUBSET Jobs,
                             late : BOOLEAN]
        BY <1>0, <1>2, Zenon DEF TypeOK
      <4> QED BY <1>2, <4>1 DEF JobsOf
    <3> QED BY <1>0, <1>2, <3>1, <3>2, Zenon DEF TypeOK, handler_vars
  <2> QED BY <2>1, <2>2, <2>3, Zenon DEF Inv
<1> QED BY <1>1, <1>2, Zenon DEF complete, complete_local, jobs_vars

LEMMA BeginFailsKeeps ==
  ASSUME Inv, NEW id, BeginFails(id)
  PROVE  Inv'
<1>1. Failed \in Answers
  BY DEF Failed, Answers, Names
<1> QED BY <1>1, CompleteKeeps, Zenon DEF BeginFails, QueueFree

LEMMA FinishKeeps ==
  ASSUME Inv, NEW id, Finish(id)
  PROVE  Inv'
<1>1. PICK kind \in {"records", "empty", "failed"} :
        complete(id, [kind |-> kind, from |-> lookups[id]])
  BY Zenon DEF Finish
<1>2. lookups[id] \in Networks
  BY Zenon DEF Finish, Inv, TypeOK
<1>3. [kind |-> kind, from |-> lookups[id]] \in Answers
  BY <1>1, <1>2 DEF Answers, Names
<1>4. /\ DOMAIN lookups' \subseteq DOMAIN lookups
      /\ \A k \in DOMAIN lookups' : lookups'[k] = lookups[k]
  BY Zenon DEF Finish, Remove, Restrict
<1> QED BY <1>1, <1>3, <1>4, CompleteKeeps, Zenon DEF Finish, QueueFree

LEMMA CompleteJobKeeps ==
  ASSUME Inv, NEW job \in completing, CompleteJob(job)
  PROVE  Inv'
<1>1. TypeOK /\ PlacesInv /\ TablesAgree /\ LimitsInv /\ JobsApart
  BY Zenon DEF Inv
<1>2. PlacesInv'
  BY <1>1, CompletedPlaces, Zenon
<1>3. TablesAgree' /\ LimitsInv' /\ JobsApart'
  BY <1>1, UnchangedTables, Zenon DEF CompleteJob, jobs_vars
<1>4. /\ DOMAIN cache' \subseteq Questions
      /\ \A k \in DOMAIN cache' : cache'[k] \in [from : Names, arrived : Nat]
  <2>1. /\ job.query \in Queries /\ job.arrived \in Nat
        /\ answer.from \in Names
    BY <1>1 DEF TypeOK, Jobs, Answers
  <2>2. /\ Question[job.query] \in Questions
        /\ [from |-> answer.from, arrived |-> job.arrived]
             \in [from : Names, arrived : Nat]
    BY <2>1 DEF Questions
  <2> QED BY <1>1, <2>2, Zenon DEF TypeOK, CompleteJob, Insert
<1>5. replies' \in [Queries -> Nat]
  BY <1>1, ReplyType, Zenon DEF TypeOK, CompleteJob
<1>6. TypeOK'
  BY <1>1, <1>4, <1>5, Zenon
     DEF TypeOK, CompleteJob, handler_vars, jobs_vars, swift_vars
<1> QED BY <1>2, <1>3, <1>6, Zenon DEF Inv

LEMMA BeginKeeps ==
  ASSUME Inv, NEW id, Begin(id)
  PROVE  Inv'
<1>1. /\ DOMAIN lookups' \subseteq 0 .. next_id - 1
      /\ \A k \in DOMAIN lookups' : lookups'[k] \in Networks
      /\ dispatched' \subseteq 0 .. next_id - 1
  BY Zenon DEF Begin, Inv, TypeOK, Insert, Names
<1>2. TypeOK'
  BY <1>1, Zenon DEF Begin, Inv, TypeOK, handler_vars, jobs_vars
<1> QED BY <1>2, ElsewhereKeeps, Zenon DEF Begin, handler_vars, jobs_vars

LEMMA PathChangedKeeps ==
  ASSUME Inv, NEW name \in Names, PathChanged(name)
  PROVE  Inv'
<1>1. generation' \in Nat
  BY DEF PathChanged, Inv, TypeOK
<1>2. DOMAIN cache' = {}
  BY Zenon DEF PathChanged, Empty
<1>3. TypeOK'
  BY <1>1, <1>2, Zenon
     DEF PathChanged, Inv, TypeOK, handler_vars, jobs_vars, swift_vars
<1> QED BY <1>3, ElsewhereKeeps, Zenon DEF PathChanged, handler_vars, jobs_vars

LEMMA ShutdownKeeps ==
  ASSUME Inv, Stop \/ TakeEngine \/ SetLocalResolver
  PROVE  Inv'
<1>1. CASE Stop
  <2>1. DOMAIN lookups' = {}
    BY <1>1, Zenon DEF Stop, Empty
  <2>2. TypeOK'
    BY <1>1, <2>1, Zenon DEF Stop, Inv, TypeOK, handler_vars, jobs_vars
  <2> QED BY <1>1, <2>2, ElsewhereKeeps, Zenon DEF Stop, handler_vars, jobs_vars
<1>2. CASE TakeEngine
  <2>1. TypeOK'
    BY <1>2, Zenon DEF TakeEngine, Inv, TypeOK, handler_vars, jobs_vars
  <2> QED BY <1>2, <2>1, ElsewhereKeeps, Zenon
          DEF TakeEngine, handler_vars, jobs_vars
<1>3. CASE SetLocalResolver
  <2>1. TypeOK'
    BY <1>3, Zenon
       DEF SetLocalResolver, Inv, TypeOK, handler_vars, jobs_vars, swift_vars
  <2> QED BY <1>3, <2>1, ElsewhereKeeps, Zenon
          DEF SetLocalResolver, handler_vars, jobs_vars
<1> QED BY <1>1, <1>2, <1>3, Zenon

LEMMA ForgetKeeps ==
  ASSUME Inv, NEW question, Forget(question)
  PROVE  Inv'
<1>1. /\ DOMAIN cache' \subseteq Questions
      /\ \A k \in DOMAIN cache' : cache'[k] \in [from : Names, arrived : Nat]
  BY Zenon DEF Forget, Remove, Restrict, Inv, TypeOK
<1>2. TypeOK'
  BY <1>1, Zenon
     DEF Forget, Inv, TypeOK, handler_vars, jobs_vars, swift_vars
<1> QED BY <1>2, ElsewhereKeeps, Zenon DEF Forget, handler_vars, jobs_vars
-----------------------------------------------------------------------------
(* The theorems.                                                           *)

LEMMA InvInit ==
  ASSUME Init
  PROVE  Inv
<1>1. /\ DOMAIN cache = {} /\ DOMAIN waiting = {} /\ DOMAIN by_question = {}
      /\ DOMAIN lookups = {}
  BY Zenon DEF Init, Empty
<1>2. TypeOK
  <2>1. Failed \in Answers
    BY DEF Failed, Answers, Names
  <2>2. replies \in [Queries -> Nat] /\ next_id \in Nat /\ generation \in Nat
    BY DEF Init
  <2>3. <<>> \in Seq(Jobs)
    OBVIOUS
  <2> QED BY <1>1, <2>1, <2>2, <2>3, Zenon DEF TypeOK, Init, Names
<1>3. PlacesInv
  <2>1. DOMAIN batch = {}
    BY DEF Init
  <2> QED BY <1>1, <2>1, Zenon
          DEF PlacesInv, Placed, Nowhere, BatchAt, WaitAt, CompAt, Init
<1>4. JobsApart /\ TablesAgree
  BY <1>1, Zenon DEF JobsApart, TablesAgree
<1>5. LimitsInv
  <2>1. IsFiniteSet({}) /\ Cardinality({}) = 0
    BY FS_EmptySet, Zenon
  <2>2. 0 <= LOCAL_PENDING
    BY LocalAssumption
  <2> QED BY <1>1, <2>1, <2>2, Zenon DEF LimitsInv
<1> QED BY <1>2, <1>3, <1>4, <1>5, Zenon DEF Inv

LEMMA InvStep ==
  ASSUME Inv, [Next]_vars
  PROVE  Inv'
<1>1. CASE \E q \in Queries : handle_packet(q)
  BY <1>1, PacketKeeps, Zenon
<1>2. CASE Flush
  BY <1>2, FlushBeginsKeeps, FlushJobKeeps, FlushEndsKeeps, Zenon DEF Flush
<1>3. CASE BeginAny \/ FinishAny
  BY <1>3, BeginKeeps, BeginFailsKeeps, FinishKeeps, Zenon DEF BeginAny, FinishAny
<1>4. CASE Complete
  BY <1>4, CompleteJobKeeps, Zenon DEF Complete
<1>5. CASE \E name \in Names : PathChanged(name)
  BY <1>5, PathChangedKeeps, Zenon
<1>6. CASE Stop \/ TakeEngine \/ SetLocalResolver
  BY <1>6, ShutdownKeeps, Zenon
<1>7. CASE \E id \in DOMAIN waiting : Late(id)
  BY <1>7, LateKeeps, Zenon
<1>8. CASE \E question \in DOMAIN cache : Forget(question)
  BY <1>8, ForgetKeeps, Zenon
<1>9. CASE UNCHANGED vars
  <2>1. TypeOK'
    BY <1>9, Zenon DEF Inv, TypeOK, vars, handler_vars, jobs_vars, swift_vars
  <2> QED BY <1>9, <2>1, ElsewhereKeeps, Zenon
          DEF vars, handler_vars, jobs_vars
<1> QED BY <1>1, <1>2, <1>3, <1>4, <1>5, <1>6, <1>7, <1>8, <1>9, Zenon DEF Next

\* Engine::resolve_locally, LocalJobs and complete_local: through batches,
\* joins, expiry, late completions and full tables, every query that came in is
\* in exactly one place, the two tables of LocalJobs describe the same lookups,
\* and both limits hold; for any queries, networks and limits.
THEOREM EachQueryOnceHolds == Spec => []EachQueryOnce
<1>1. Init => Inv
  BY InvInit
<1>2. Inv /\ [Next]_vars => Inv'
  BY InvStep
<1>3. Inv => EachQueryOnce
  BY InvImplies
<1> QED BY <1>1, <1>2, <1>3, PTL DEF Spec

\* DnsHandler::set_network and complete_local: an answer to a query that
\* arrived on an earlier network is not kept, however late it is completed.
THEOREM KeptArrivedHereHolds == Spec => []KeptArrivedHere
<1>1. Init => KeptArrivedHere
  BY Zenon DEF Init, KeptArrivedHere, Empty
<1>2. KeptArrivedHere /\ [Next]_vars => KeptArrivedHere'
  <2> SUFFICES ASSUME KeptArrivedHere, [Next]_vars PROVE KeptArrivedHere'
    OBVIOUS
  <2>1. CASE UNCHANGED <<cache, generation>>
    BY <2>1, Zenon DEF KeptArrivedHere
  <2>2. CASE \E job \in completing : CompleteJob(job)
    <3>1. PICK job : CompleteJob(job)
      BY <2>2, Zenon
    <3>2. generation' = generation
      BY <3>1, Zenon DEF CompleteJob
    <3>3. CASE ~Keeps(job)
      BY <3>1, <3>2, <3>3, Zenon DEF CompleteJob, KeptArrivedHere
    <3>4. CASE Keeps(job)
      <4>1. [from |-> answer.from, arrived |-> job.arrived].arrived = generation
        BY <3>4 DEF Keeps
      <4> QED BY <3>1, <3>2, <3>4, <4>1, Zenon
              DEF CompleteJob, KeptArrivedHere, Insert
    <3> QED BY <3>3, <3>4, Zenon
  <2>3. CASE \E name \in Names : PathChanged(name)
    BY <2>3, Zenon DEF PathChanged, KeptArrivedHere, Empty
  <2>4. CASE \E question \in DOMAIN cache : Forget(question)
    BY <2>4, Zenon DEF Forget, Remove, Restrict, KeptArrivedHere
  <2> QED BY <2>1, <2>2, <2>3, <2>4, Zenon
          DEF Next, vars, handle_packet, Flush, FlushBegins, FlushJob, FlushEnds,
              BeginAny, Begin, BeginFails, FinishAny, Finish, Complete, Stop,
              TakeEngine, SetLocalResolver, Late
<1> QED BY <1>1, <1>2, PTL DEF Spec
=============================================================================
