------------------------- MODULE UpstreamPoolProofs -------------------------
(***************************************************************************)
(* Proofs about UpstreamPool: requests reach a server once (SentOnce),     *)
(* nothing pooled before a reset is handed out after it                    *)
(* (HandedOutAfterReset), and connections, permits, slots and wake-ups are *)
(* accounted for (ConnectionsAccounted), for any requests, origins, limits *)
(* and number of resets.                                                   *)
(*                                                                         *)
(* Each kind of step is shown to preserve each part of the invariant; that *)
(* every step is of one of the kinds is StepIs of UpstreamPoolSteps.       *)
(***************************************************************************)
EXTENDS UpstreamPoolSteps

-----------------------------------------------------------------------------
(* Each kind of step preserves the types. *)

\* What holds of every variable but hosts in a state of its type.
LEMMA TypesNow ==
  ASSUME Inv
  PROVE  /\ dialing \in [Hosts -> Opt(Requests)] /\ global \subseteq Requests
         /\ slots \subseteq Requests /\ conn \in [Requests -> Protocols \union {"none"}]
         /\ worn \subseteq Requests /\ sent \in [Requests -> Nat]
         /\ pooled_at \in [Requests -> Opt(0..MaxResets)]
         /\ resets \in resets..MaxResets /\ resets \in 0..resets /\ resets \in Opt(0..MaxResets)
<1>1. resets \in 0..MaxResets /\ MaxResets \in Nat
  BY Constants, Zenon DEF Inv, Types
<1>2. resets \in resets..MaxResets /\ resets \in 0..resets
  BY <1>1
<1> QED  BY <1>1, <1>2, Zenon DEF Inv, Types, Opt

LEMMA SearchingIs ==
  ASSUME NEW r, NEW t, NEW P, NEW w, Searching(r, t, P, w)
  PROVE  /\ Turn(r, t, P, w) /\ Moves(r) /\ Shrinks /\ StaysBut(target[r])
         /\ target[r] \in DOMAIN hosts'
         /\ Table(hosts') /\ resets_seen' \in 0..resets
         /\ global' = P \ {r} \/ global' = P
BY Zenon DEF Searching, TurnsPools, Finds, Parks, Goes, Shrinks

LEMMA TypesNext ==
  ASSUME Inv, Kinds
  PROVE  Types'
<1>TypesBy. ASSUME NEW r, Moves(r), target' = target, resets' \in resets..MaxResets,
                   resets_seen' \in 0..resets, Table(hosts'), dialing' \in [Hosts -> Opt(Requests)],
                   global' \subseteq Requests, slots' \subseteq Requests,
                   conn' \in [Requests -> Protocols \union {"none"}], worn' \subseteq Requests,
                   sent' \in [Requests -> Nat], pooled_at' \in [Requests -> Opt(0..MaxResets)]
            PROVE  Types'
  <2> USE <1>TypesBy
  <2>1. resets' \in 0..MaxResets /\ resets_seen' \in 0..resets'
    <3>1. resets \in 0..MaxResets /\ MaxResets \in Nat
      BY Constants, Zenon DEF Inv, Types
    <3> QED  BY <3>1
  <2>2. target' \in UNION {[made -> Hosts] : made \in SUBSET Requests}
    BY Zenon DEF Inv, Types
  <2> QED  BY <2>1, <2>2, Zenon DEF Types, Moves
<1>UnlockedType. ASSUME Types, NEW r
                 PROVE  Unlocked(r) \in [Hosts -> Opt(Requests)]
  <2> USE <1>UnlockedType
  <2>1. \A h \in Hosts : (IF dialing[h] = r THEN None ELSE dialing[h]) \in Opt(Requests)
    BY Zenon DEF Types, Opt
  <2> QED  BY <2>1, Zenon DEF Unlocked
<1>KeptIs. ASSUME Kept
           PROVE  Table(hosts') /\ resets_seen' \in 0..resets /\ DOMAIN hosts \subseteq DOMAIN hosts'
  BY <1>KeptIs, Zenon DEF Kept, Shrinks
<1>1. Types
  BY Zenon DEF Inv
<1>2. ASSUME NEW r \in Requests, NEW t, NEW P, NEW w, Searching(r, t, P, w)
      PROVE  Types'
  <2>1. /\ Turn(r, t, P, w) /\ Moves(r) /\ Table(hosts') /\ resets_seen' \in 0..resets
        /\ global' = P \ {r} \/ global' = P
    BY <1>2, SearchingIs, Zenon
  <2>2. global' \subseteq Requests
    BY <2>1, TypesNow, Zenon DEF Turn
  <2> QED  BY <2>1, <2>2, TypesNow, <1>TypesBy, Zenon DEF Turn
<1>3. ASSUME NEW r \in Requests, Over(r), Table(hosts'), resets_seen' \in 0..resets,
             pooled_at' \in [Requests -> Opt(0..MaxResets)]
      PROVE  Types'
  <2>1. global' \subseteq Requests /\ slots' \subseteq Requests
    BY <1>3, TypesNow, Zenon DEF Over
  <2>2. dialing' \in [Hosts -> Opt(Requests)]
    BY <1>1, <1>3, <1>UnlockedType, Zenon DEF Over
  <2>3. Moves(r) /\ sent' \in [Requests -> Nat] /\ UNCHANGED <<target, resets, conn, worn>>
    BY <1>3, Zenon DEF Over, Goes
  <2> QED  BY <1>3, <2>1, <2>2, <2>3, TypesNow, <1>TypesBy, Zenon
<1>4. ASSUME NEW r \in Requests, Over(r) /\ Returns(r)
      PROVE  Types'
  <2>1. Table(hosts') /\ resets_seen' \in 0..resets
    BY <1>4, TypesNow, Zenon DEF Returns
  <2>2. pooled_at' \in [Requests -> Opt(0..MaxResets)]
    BY <1>4, TypesNow, Zenon DEF Returns
  <2> QED  BY <1>3, <1>4, <2>1, <2>2, Zenon
<1>5. ASSUME NEW r \in Requests, Over(r) /\ Kept /\ pooled_at' = pooled_at
      PROVE  Types'
  BY <1>3, <1>5, <1>KeptIs, TypesNow, Zenon
<1>6. ASSUME NEW r \in Requests, Over(r) /\ Unlistens(r) /\ pooled_at' = pooled_at
      PROVE  Types'
  BY <1>3, <1>6, TypesNow, Zenon DEF Unlistens, Shrinks
<1>7. ASSUME NEW r \in Requests, TakesSlot(r)
      PROVE  Types'
  <2>1. Moves(r) /\ Table(hosts') /\ resets_seen' \in 0..resets /\ Alone
    BY <1>7, Zenon DEF TakesSlot, Goes, Unlistens, Shrinks
  <2>2. slots' \subseteq Requests
    BY <1>7, TypesNow, Zenon DEF TakesSlot
  <2> QED  BY <1>7, <2>1, <2>2, TypesNow, <1>TypesBy, Zenon DEF TakesSlot, Alone
<1>8. ASSUME NEW r \in Requests, Dials(r)
      PROVE  Types'
  <2>1. Moves(r) /\ Table(hosts') /\ resets_seen' \in 0..resets /\ Alone
    BY <1>8, <1>KeptIs, Zenon DEF Dials, Goes
  <2>2. slots' \subseteq Requests /\ global' \subseteq Requests
    BY <1>8, TypesNow, Zenon DEF Dials
  <2>3. dialing' \in [Hosts -> Opt(Requests)]
    BY <1>8, TypesNow, Zenon DEF Dials, Opt
  <2> QED  BY <1>8, <2>1, <2>2, <2>3, TypesNow, <1>TypesBy, Zenon DEF Dials, Alone
<1>9. ASSUME NEW r \in Requests, Awaits(r)
      PROVE  Types'
  BY <1>9, <1>KeptIs, TypesNow, <1>TypesBy, Zenon DEF Awaits, Goes, Alone
<1>10. ASSUME NEW r \in Requests, GetsPermit(r)
       PROVE  Types'
  <2>1. Moves(r) /\ Table(hosts') /\ resets_seen' \in 0..resets /\ Alone
    BY <1>10, <1>KeptIs, Zenon DEF GetsPermit, Goes
  <2>2. global' \subseteq Requests
    BY <1>10, TypesNow, Zenon DEF GetsPermit
  <2> QED  BY <1>10, <2>1, <2>2, TypesNow, <1>TypesBy, Zenon DEF GetsPermit, Alone
<1>11. ASSUME NEW r \in Requests, NEW p \in Protocols, Connected(r, p),
              pooled_at' \in [Requests -> Opt(0..MaxResets)]
       PROVE  Types'
  <2>1. Moves(r) /\ Table(hosts') /\ resets_seen' \in 0..resets /\ Alone
    BY <1>11, TypesNow, Zenon DEF Connected, Goes
  <2>2. conn' \in [Requests -> Protocols \union {"none"}]
    BY <1>11, TypesNow, Zenon DEF Connected
  <2>3. dialing' \in [Hosts -> Opt(Requests)]
    BY <1>1, <1>11, <1>UnlockedType, Zenon DEF Connected
  <2> QED  BY <1>11, <2>1, <2>2, <2>3, TypesNow, <1>TypesBy, Zenon DEF Connected, Alone
<1>12. ASSUME NEW r \in Requests, ConnectsH1(r)
       PROVE  Types'
  BY <1>11, <1>12, TypesNow, Zenon DEF ConnectsH1, Protocols
<1>13. ASSUME NEW r \in Requests, ConnectsH2(r)
       PROVE  Types'
  <2>1. pooled_at' \in [Requests -> Opt(0..MaxResets)]
    BY <1>13, TypesNow, Zenon DEF ConnectsH2
  <2> QED  BY <1>11, <1>13, <2>1, Zenon DEF ConnectsH2, Protocols
<1>14. ASSUME NEW r \in Requests, Negotiates(r)
       PROVE  Types'
  <2>1. slots' \subseteq Requests
    BY <1>14, TypesNow, Zenon DEF Negotiates
  <2> QED  BY <1>14, <2>1, <1>KeptIs, TypesNow, <1>TypesBy, Zenon DEF Negotiates, Goes, Alone
<1>15. ASSUME NEW r \in Requests, Responds(r)
       PROVE  Types'
  <2>1. sent' \in [Requests -> Nat]
    <3>1. sent' = [sent EXCEPT ![r] = @ + 1] /\ sent \in [Requests -> Nat]
      BY <1>15, TypesNow, Zenon DEF Responds
    <3> QED  BY <3>1
  <2> QED  BY <1>15, <2>1, <1>KeptIs, TypesNow, <1>TypesBy, Zenon DEF Responds, Goes, Alone
<1>16. ASSUME NEW r \in Requests, BodyEnds(r)
       PROVE  Types'
  BY <1>16, <1>KeptIs, TypesNow, <1>TypesBy, Zenon DEF BodyEnds, Goes, Alone
<1>17. ASSUME NEW c \in Requests, ConnEnds(c)
       PROVE  Types'
  <2>1. Moves(c)
    BY <1>1, <1>17, Stays, Zenon DEF ConnEnds, Goes
  <2>2. /\ global' \subseteq Requests /\ slots' \subseteq Requests /\ worn' \subseteq Requests
    BY <1>17, TypesNow, Zenon DEF ConnEnds
  <2>3. conn' \in [Requests -> Protocols \union {"none"}]
    BY <1>17, TypesNow, Zenon DEF ConnEnds
  <2>4. pooled_at' \in [Requests -> Opt(0..MaxResets)]
    BY <1>17, TypesNow, Zenon DEF ConnEnds, Opt
  <2> QED  BY <1>17, <2>1, <2>2, <2>3, <2>4, <1>KeptIs, TypesNow, <1>TypesBy, Zenon DEF ConnEnds
<1>18. ASSUME Quiet, Table(hosts'), resets_seen' \in 0..resets
       PROVE  Types'
  <2>1. PICK r : r \in Requests
    BY PoolAssumption, Zenon
  <2>2. Moves(r)
    BY <1>1, <1>18, <2>1, Stays, Zenon DEF Quiet, Goes
  <2> QED  BY <1>18, <2>2, TypesNow, <1>TypesBy, Zenon DEF Quiet
<1>19. CASE Quiet /\ Kept
  BY <1>18, <1>19, <1>KeptIs, Zenon
<1>20. CASE Reaps
  BY <1>18, <1>20, Zenon DEF Reaps, Shrinks
<1> QED  BY <1>2, <1>4, <1>5, <1>6, <1>7, <1>8, <1>9, <1>10, <1>12, <1>13, <1>14, <1>15,
            <1>16, <1>17, <1>19, <1>20, Zenon DEF Kinds

-----------------------------------------------------------------------------
(* What is known of the requests. *)

LEMMA NotDialed ==
  ASSUME NEW r, pc[r] \in Waiting \union {"new"}
  PROVE  ~Dialed(r)
BY Zenon DEF Dialed, Waiting

LEMMA UsedTask ==
  ASSUME NEW r \in Requests, NEW t \in TaskType, NEW c \in Requests
  PROVE  /\ UseTask(r, t, c, TRUE).fresh_only = t.fresh_only
         /\ UseTask(r, t, c, TRUE).replay = t.replay
         /\ UseTask(r, t, c, TRUE).using = c /\ UseTask(r, t, c, TRUE).pooled = TRUE
         /\ UseTask(r, t, c, FALSE).fresh_only = t.fresh_only
         /\ UseTask(r, t, c, FALSE).replay = t.replay
         /\ UseTask(r, t, c, FALSE).using = c /\ UseTask(r, t, c, FALSE).pooled = FALSE
<1>1. \A p \in BOOLEAN :
        /\ UseTask(r, t, c, p).fresh_only = t.fresh_only
        /\ UseTask(r, t, c, p).replay = t.replay
        /\ UseTask(r, t, c, p).using = c /\ UseTask(r, t, c, p).pooled = p
  BY UseTaskIs
<1>2. TRUE \in BOOLEAN /\ FALSE \in BOOLEAN
  OBVIOUS
<1> QED  BY <1>1, <1>2, Zenon

LEMMA SearchesBy ==
  ASSUME NEW r \in Requests, NEW t, NEW P, NEW w, Searching(r, t, P, w)
  PROVE  By(r)
<1>1. Turn(r, t, P, w) /\ Moves(r)
  BY SearchingIs, Zenon
<1> QED  BY <1>1, Zenon DEF Turn, By

LEMMA OverBy ==
  ASSUME NEW r \in Requests, Over(r)
  PROVE  By(r)
<1>1. Dialed(r)'
  BY Zenon DEF Over, Goes, Dialed
<1> QED  BY <1>1, Zenon DEF Over, Goes, By

LEMMA WaitersBy ==
  ASSUME NEW r \in Requests, TakesSlot(r) \/ Dials(r) \/ Awaits(r) \/ GetsPermit(r) \/ Negotiates(r)
  PROVE  /\ By(r) /\ conn' = conn /\ pc[r] \in Waiting /\ pc'[r] \in Waiting
         /\ DOMAIN hosts \subseteq DOMAIN hosts'
<1>1. pc[r] \in Waiting
  BY Zenon DEF TakesSlot, Dials, Awaits, GetsPermit, Negotiates, Waiting
<1>2. ~Dialed(r)
  BY <1>1, NotDialed, Zenon
<1>3. Moves(r) /\ target' = target /\ conn' = conn
  BY Zenon DEF TakesSlot, Dials, Awaits, GetsPermit, Negotiates, Goes, Alone
<1>4. pc'[r] \in Waiting
  BY Zenon DEF TakesSlot, Dials, Awaits, GetsPermit, Negotiates, Waiting, Goes
<1>5. DOMAIN hosts \subseteq DOMAIN hosts'
  BY Zenon DEF TakesSlot, Dials, Awaits, GetsPermit, Negotiates, Kept, Unlistens, StaysBut
<1> QED  BY <1>1, <1>2, <1>3, <1>4, <1>5, Zenon DEF By

LEMMA ConnectsBy ==
  ASSUME Inv, NEW r \in Requests, ConnectsH1(r) \/ ConnectsH2(r)
  PROVE  /\ By(r) /\ pc[r] \in Waiting /\ pc'[r] = "send" /\ task'[r].using = r
         /\ ~task'[r].pooled /\ task'[r].fresh_only = task[r].fresh_only
         /\ task'[r].replay = task[r].replay
         /\ conn'[r] \in Protocols /\ DOMAIN hosts \subseteq DOMAIN hosts'
<1>1. pc[r] \in Waiting
  BY Zenon DEF ConnectsH1, ConnectsH2, Waiting
<1>2. ~Dialed(r)
  BY <1>1, NotDialed, Zenon
<1>3. PICK p \in Protocols : Connected(r, p)
  BY Zenon DEF ConnectsH1, ConnectsH2, Protocols
<1>4. /\ Moves(r) /\ target' = target /\ conn' = [conn EXCEPT ![r] = p]
      /\ pc'[r] = "send" /\ task'[r] = UseTask(r, task[r], r, FALSE)
  BY <1>3, Zenon DEF Connected, Goes, Alone
<1>5. task[r] \in TaskType /\ conn \in [Requests -> Protocols \union {"none"}]
  BY Zenon DEF Inv, Types
<1>6. /\ task'[r].using = r /\ task'[r].pooled = FALSE
      /\ task'[r].fresh_only = task[r].fresh_only /\ task'[r].replay = task[r].replay
  <2>1. PICK t \in TaskType : t = task[r]
    BY <1>5, Zenon
  <2>2. /\ UseTask(r, t, r, FALSE).using = r /\ UseTask(r, t, r, FALSE).pooled = FALSE
        /\ UseTask(r, t, r, FALSE).fresh_only = t.fresh_only
        /\ UseTask(r, t, r, FALSE).replay = t.replay
    BY UsedTask, ZenonT(40)
  <2> QED  BY <1>4, <2>1, <2>2, Zenon
<1>7. conn'[r] = p /\ \A s \in Requests : s # r => conn'[s] = conn[s]
  BY <1>4, <1>5, Zenon
<1>8. DOMAIN hosts \subseteq DOMAIN hosts'
  BY <1>3, Zenon DEF Connected
<1> QED  BY <1>1, <1>2, <1>4, <1>6, <1>7, <1>8, Zenon DEF By

LEMMA AnswersBy ==
  ASSUME NEW r \in Requests, Responds(r) \/ BodyEnds(r)
  PROVE  /\ By(r) /\ conn' = conn /\ pc[r] \in Holding /\ pc'[r] \in {"body", "return"}
         /\ task'[r] = task[r] /\ DOMAIN hosts \subseteq DOMAIN hosts'
<1>1. pc[r] \in Holding /\ pc'[r] \in {"body", "return"}
  BY Zenon DEF Responds, BodyEnds, Holding, Goes
<1>2. Dialed(r)'
  BY <1>1, Zenon DEF Dialed
<1>3. Moves(r) /\ target' = target /\ conn' = conn
  BY Zenon DEF Responds, BodyEnds, Goes, Alone
<1>4. task'[r] = task[r] /\ DOMAIN hosts \subseteq DOMAIN hosts'
  BY Zenon DEF Responds, BodyEnds, Goes, Kept
<1> QED  BY <1>1, <1>2, <1>3, <1>4, Zenon DEF By

LEMMA ConnEndsBy ==
  ASSUME Inv, NEW c \in Requests, ConnEnds(c)
  PROVE  /\ By(c) /\ pc' = pc /\ task' = task /\ conn'[c] = "none"
         /\ DOMAIN hosts \subseteq DOMAIN hosts'
<1>1. Types
  BY Zenon DEF Inv
<1>2. Moves(c)
  BY <1>1, Stays, Zenon DEF ConnEnds, Goes
<1>3. /\ target' = target /\ pc' = pc /\ task' = task
      /\ conn' = [conn EXCEPT ![c] = "none"] /\ DOMAIN hosts \subseteq DOMAIN hosts'
  BY Zenon DEF ConnEnds, Kept
<1>4. conn'[c] = "none" /\ \A s \in Requests : s # c => conn'[s] = conn[s]
  BY <1>1, <1>3, Zenon DEF Types
<1>5. ~Dialed(c) \/ Dialed(c)'
  BY <1>3, Zenon DEF Dialed
<1> QED  BY <1>2, <1>3, <1>4, <1>5, Zenon DEF By

LEMMA QuietBy ==
  ASSUME Inv, Quiet, NEW r \in Requests
  PROVE  By(r) /\ pc' = pc /\ task' = task /\ conn' = conn
<1>1. Types
  BY Zenon DEF Inv
<1>2. Moves(r)
  BY <1>1, Stays, Zenon DEF Quiet, Goes
<1>3. target' = target /\ pc' = pc /\ task' = task /\ conn' = conn
  BY Zenon DEF Quiet
<1>4. ~Dialed(r) \/ Dialed(r)'
  BY <1>3, Zenon DEF Dialed
<1> QED  BY <1>2, <1>3, <1>4, Zenon DEF By

\* A request that can dial no more never can again, and its connection does not
\* come back.
LEMMA DialedStays ==
  ASSUME NEW r, By(r), NEW c \in Requests, Dialed(c)
  PROVE  /\ Dialed(c)' /\ (conn'[c] = conn[c] \/ conn'[c] = "none")
<1>1. CASE c = r
  BY <1>1, Zenon DEF By
<1>2. CASE c # r
  BY <1>2, Zenon DEF By, Moves, Dialed
<1> QED  BY <1>1, <1>2, Zenon

\* checkout's result, and its wait.
LEMMA FoundIs ==
  ASSUME NEW r \in Requests, NEW t \in TaskType, Finds(r, t)
  PROVE  \E c \in Requests :
           /\ pc'[r] = "send" /\ task'[r].using = c /\ task'[r].pooled = TRUE
           /\ task'[r].fresh_only = t.fresh_only /\ task'[r].replay = t.replay
           /\ ~t.fresh_only /\ Usable(c) /\ Dialed(c) /\ pooled_at[c] = resets
           /\ conn[c] = "h1" => NotIdle(c, hosts') /\ ~NotIdle(c, hosts)
           /\ At(hosts, target[r]).h2 = None =>
                Len(At(hosts', target[r]).idle) < Len(At(hosts, target[r]).idle)
<1>1. PICK c \in Requests :
        /\ Goes(r, "send", UseTask(r, t, c, TRUE))
        /\ ~t.fresh_only /\ Usable(c) /\ Dialed(c) /\ pooled_at[c] = resets
        /\ conn[c] = "h1" => NotIdle(c, hosts') /\ ~NotIdle(c, hosts)
        /\ At(hosts, target[r]).h2 = None =>
             Len(At(hosts', target[r]).idle) < Len(At(hosts, target[r]).idle)
  BY Zenon DEF Finds
<1>2. /\ UseTask(r, t, c, TRUE).fresh_only = t.fresh_only
      /\ UseTask(r, t, c, TRUE).replay = t.replay
      /\ UseTask(r, t, c, TRUE).using = c /\ UseTask(r, t, c, TRUE).pooled = TRUE
  <2>1. c \in Requests
    BY <1>1, Zenon
  <2>2. UseTask(r, t, c, TRUE).fresh_only = t.fresh_only
    BY <2>1, UsedTask, ZenonT(40)
  <2>3. UseTask(r, t, c, TRUE).replay = t.replay
    BY <2>1, UsedTask, ZenonT(40)
  <2>4. UseTask(r, t, c, TRUE).using = c
    BY <2>1, UsedTask, ZenonT(40)
  <2>5. UseTask(r, t, c, TRUE).pooled = TRUE
    BY <2>1, UsedTask, ZenonT(40)
  <2> QED  BY <2>2, <2>3, <2>4, <2>5, Zenon
<1>3. pc'[r] = "send" /\ task'[r] = UseTask(r, t, c, TRUE)
  BY <1>1, Zenon DEF Goes
<1>4. /\ task'[r].using = c /\ task'[r].pooled = TRUE
      /\ task'[r].fresh_only = t.fresh_only /\ task'[r].replay = t.replay
  BY <1>2, <1>3, Zenon
<1> QED  BY <1>1, <1>3, <1>4, Zenon

LEMMA ParkedIs ==
  ASSUME NEW r \in Requests, NEW t, Parks(r, t)
  PROVE  /\ pc'[r] = IF At(hosts, target[r]).protocol = "h1" THEN "h1_wait" ELSE "dial_wait"
         /\ task'[r].fresh_only = t.fresh_only /\ task'[r].replay = t.replay
         /\ task'[r].protocol = At(hosts, target[r]).protocol
         /\ t.fresh_only \/ At(hosts', target[r]).idle = <<>>
BY Zenon DEF Parks, WaitTask, Like, Goes

LEMMA NotDialedIs ==
  ASSUME Inv, NEW r \in Requests, ~Dialed(r)
  PROVE  ~Open(r) /\ conn[r] # "h1"
BY Zenon DEF Inv, RequestsInv, RequestAt, Open, Protocols

LEMMA WaitingHost ==
  ASSUME Inv, NEW r \in Requests, pc[r] \in Waiting
  PROVE  r \in DOMAIN target /\ target[r] \in DOMAIN hosts /\ target[r] \in Hosts
<1>1. r \in DOMAIN target /\ target[r] \in DOMAIN hosts
  BY Zenon DEF Inv, RequestsInv, RequestAt, Waiting
<1> QED  BY <1>1, Zenon DEF Inv, Types, Table

LEMMA RequestsNext ==
  ASSUME Inv, Kinds
  PROVE  RequestsInv'
<1>RequestsBy. ASSUME NEW r, By(r), RequestAt(r)',
                      \A s \in Requests : s # r /\ pc[s] \in Waiting => target[s] \in DOMAIN hosts'
               PROVE  RequestsInv'
  <2> USE <1>RequestsBy
  <2> SUFFICES ASSUME NEW s \in Requests, s # r
               PROVE  RequestAt(s)'
    BY Zenon DEF RequestsInv
  <2>1. /\ pc'[s] = pc[s] /\ task'[s] = task[s] /\ conn'[s] = conn[s] /\ target' = target
    BY Zenon DEF By, Moves
  <2>2. RequestAt(s)
    BY Zenon DEF Inv, RequestsInv
  <2>3. pc'[s] \in Waiting => target'[s] \in DOMAIN hosts'
    BY <2>1, Zenon
  <2>4. ASSUME pc'[s] \in Holding
        PROVE  task'[s].using \in Requests /\ Dialed(task[s].using)'
    <3>1. task[s].using \in Requests /\ Dialed(task[s].using)
      BY <2>1, <2>2, <2>4, Zenon DEF RequestAt
    <3>2. PICK c \in Requests : c = task[s].using
      BY <3>1, Zenon
    <3>3. Dialed(c)'
      BY <3>1, <3>2, DialedStays, Zenon
    <3> QED  BY <2>1, <3>1, <3>2, <3>3, Zenon DEF Dialed
  <2>5. Open(s)' => Dialed(s)'
    BY <2>1, <2>2, Zenon DEF RequestAt, Open, Dialed
  <2> QED  BY <2>1, <2>2, <2>3, <2>4, <2>5, Zenon DEF RequestAt
\* The origins a step of r keeps.
<1>OverKeeps. ASSUME NEW r, Kept \/ Unlistens(r) \/ Returns(r)
              PROVE  DOMAIN hosts \subseteq DOMAIN hosts'
  BY <1>OverKeeps, Zenon DEF Kept, Unlistens, Returns, StaysBut
<1>WaitingAt. ASSUME NEW r \in Requests, pc[r] \in Waiting, By(r), pc'[r] \in Waiting,
                     DOMAIN hosts \subseteq DOMAIN hosts', conn' = conn
              PROVE  RequestAt(r)'
  <2> USE <1>WaitingAt
  <2>1. r \in DOMAIN target /\ target[r] \in DOMAIN hosts
    BY WaitingHost, Zenon
  <2>2. ~Dialed(r)
    BY NotDialed, Zenon
  <2>3. ~Open(r)
    BY <2>2, NotDialedIs, Zenon
  <2>4. target' = target
    BY Zenon DEF By
  <2>5. pc'[r] \notin Holding /\ pc'[r] # "new"
    BY Zenon DEF Waiting, Holding
  <2>6. ~Open(r)'
    BY <2>3, Zenon DEF Open
  <2> QED  BY <2>1, <2>4, <2>5, <2>6, Zenon DEF RequestAt
<1>1. \A s \in Requests : RequestAt(s)
  BY Zenon DEF Inv, RequestsInv
<1>2. \A s \in Requests : pc[s] \in Waiting => target[s] \in DOMAIN hosts
  BY <1>1, Zenon DEF RequestAt
<1>3. ASSUME NEW r \in Requests, By(r), RequestAt(r)', DOMAIN hosts \subseteq DOMAIN hosts'
      PROVE  RequestsInv'
  <2>1. \A s \in Requests : s # r /\ pc[s] \in Waiting => target[s] \in DOMAIN hosts'
    BY <1>2, <1>3, Zenon
  <2> QED  BY <1>3, <2>1, <1>RequestsBy, Zenon
<1>4. ASSUME NEW r \in Requests, NEW t, NEW P, NEW w, Searching(r, t, P, w)
      PROVE  RequestsInv'
  <2>1. By(r) /\ DOMAIN hosts \subseteq DOMAIN hosts' /\ target[r] \in DOMAIN hosts'
    BY <1>4, SearchesBy, SearchingIs, Zenon DEF StaysBut
  <2>2. r \in DOMAIN target /\ target' = target /\ t \in TaskType /\ ~Dialed(r) /\ conn' = conn
    BY <1>4, Zenon DEF Searching, Turn
  <2>3. ~Open(r)'
    BY <2>2, NotDialedIs, Zenon DEF Open
  <2>4. CASE Finds(r, t)
    <3>1. PICK c \in Requests : pc'[r] = "send" /\ task'[r].using = c /\ Dialed(c)
      BY <2>2, <2>4, FoundIs, Zenon
    <3>2. Dialed(c)'
      BY <2>1, <3>1, DialedStays, Zenon
    <3>3. Dialed(task[r].using)'
      BY <3>1, <3>2, Zenon DEF Dialed
    <3>4. RequestAt(r)'
      BY <2>2, <2>3, <3>1, <3>3, Zenon DEF RequestAt, Waiting
    <3> QED  BY <1>3, <2>1, <3>4, Zenon
  <2>5. CASE Parks(r, t)
    <3>1. pc'[r] \in {"h1_wait", "dial_wait"}
      BY <2>5, ParkedIs, Zenon
    <3>2. RequestAt(r)'
      BY <2>1, <2>2, <2>3, <3>1, Zenon DEF RequestAt, Holding
    <3> QED  BY <1>3, <2>1, <3>2, Zenon
  <2> QED  BY <1>4, <2>4, <2>5, Zenon DEF Searching
<1>5. ASSUME NEW r \in Requests, Over(r), Kept \/ Unlistens(r) \/ Returns(r)
      PROVE  RequestsInv'
  <2>1. pc'[r] = "done" /\ r \in DOMAIN target /\ target' = target
    BY <1>5, Zenon DEF Over, Goes
  <2>2. Dialed(r)'
    BY <2>1, Zenon DEF Dialed
  <2>3. RequestAt(r)'
    BY <2>1, <2>2, Zenon DEF RequestAt, Waiting, Holding
  <2> QED  BY <1>3, <1>5, <2>3, OverBy, <1>OverKeeps, Zenon
<1>6. ASSUME NEW r \in Requests,
             TakesSlot(r) \/ Dials(r) \/ Awaits(r) \/ GetsPermit(r) \/ Negotiates(r)
      PROVE  RequestsInv'
  <2>1. /\ By(r) /\ conn' = conn /\ pc[r] \in Waiting /\ pc'[r] \in Waiting
        /\ DOMAIN hosts \subseteq DOMAIN hosts'
    BY <1>6, WaitersBy, Zenon
  <2>2. RequestAt(r)'
    BY <2>1, <1>WaitingAt, Zenon
  <2> QED  BY <1>3, <2>1, <2>2, Zenon
<1>7. ASSUME NEW r \in Requests, ConnectsH1(r) \/ ConnectsH2(r)
      PROVE  RequestsInv'
  <2>1. /\ By(r) /\ pc[r] \in Waiting /\ pc'[r] = "send" /\ task'[r].using = r
        /\ ~task'[r].pooled /\ DOMAIN hosts \subseteq DOMAIN hosts'
    BY <1>7, ConnectsBy, Zenon
  <2>2. r \in DOMAIN target /\ target' = target
    BY <2>1, WaitingHost, Zenon DEF By
  <2>3. Dialed(r)' /\ Dialed(task[r].using)'
    BY <2>1, Zenon DEF Dialed
  <2>4. RequestAt(r)'
    BY <2>1, <2>2, <2>3, Zenon DEF RequestAt, Waiting
  <2> QED  BY <1>3, <2>1, <2>4, Zenon
<1>8. ASSUME NEW r \in Requests, Responds(r) \/ BodyEnds(r)
      PROVE  RequestsInv'
  <2>1. /\ By(r) /\ conn' = conn /\ pc[r] \in Holding /\ pc'[r] \in {"body", "return"}
        /\ task'[r] = task[r] /\ DOMAIN hosts \subseteq DOMAIN hosts'
    BY <1>8, AnswersBy, Zenon
  <2>2. r \in DOMAIN target /\ target' = target
    BY <1>1, <2>1, Zenon DEF By, RequestAt, Holding
  <2>3. PICK c \in Requests : c = task[r].using /\ Dialed(c)
    BY <1>1, <2>1, Zenon DEF RequestAt
  <2>4. Dialed(c)'
    BY <2>1, <2>3, DialedStays, Zenon
  <2>5. Dialed(task[r].using)' /\ Dialed(r)'
    BY <2>1, <2>3, <2>4, Zenon DEF Dialed
  <2>6. RequestAt(r)'
    BY <2>1, <2>2, <2>3, <2>5, Zenon DEF RequestAt, Waiting
  <2> QED  BY <1>3, <2>1, <2>6, Zenon
<1>9. ASSUME NEW r \in Requests, By(r), pc' = pc, task' = task, conn'[r] = conn[r] \/ conn'[r] = "none",
             \A s \in Requests : pc[s] \in Waiting => target[s] \in DOMAIN hosts'
      PROVE  RequestsInv'
  <2>1. RequestAt(r) /\ target' = target
    BY <1>1, <1>9, Zenon DEF By
  <2>2. pc[r] \in Holding => Dialed(task[r].using)'
    BY <1>9, <2>1, Zenon DEF RequestAt, Dialed
  <2>3. Open(r)' => Dialed(r)'
    BY <1>9, <2>1, Zenon DEF RequestAt, Dialed, Open, Protocols
  <2>4. RequestAt(r)'
    BY <1>9, <2>1, <2>2, <2>3, Zenon DEF RequestAt
  <2> QED  BY <1>9, <2>4, <1>RequestsBy, Zenon
<1>10. ASSUME NEW c \in Requests, ConnEnds(c)
       PROVE  RequestsInv'
  <2>1. /\ By(c) /\ pc' = pc /\ task' = task /\ conn'[c] = "none"
        /\ DOMAIN hosts \subseteq DOMAIN hosts'
    BY <1>10, ConnEndsBy, Zenon
  <2> QED  BY <1>2, <1>9, <2>1, Zenon
<1>11. ASSUME Quiet, \A s \in Requests : pc[s] \in Waiting => target[s] \in DOMAIN hosts'
       PROVE  RequestsInv'
  <2>1. PICK r : r \in Requests
    BY PoolAssumption, Zenon
  <2>2. By(r) /\ pc' = pc /\ task' = task /\ conn' = conn
    BY <1>11, <2>1, QuietBy, Zenon
  <2> QED  BY <1>9, <1>11, <2>1, <2>2, Zenon
<1>12. CASE Quiet /\ Kept
  BY <1>2, <1>11, <1>12, Zenon DEF Kept
<1>13. CASE Reaps
  <2>1. \A s \in Requests : pc[s] \in Waiting => target[s] \in DOMAIN hosts'
    BY <1>2, <1>13, WaitingHost, Zenon DEF Reaps
  <2> QED  BY <1>11, <1>13, <2>1, Zenon DEF Reaps
<1> QED  BY <1>4, <1>5, <1>6, <1>7, <1>8, <1>10, <1>12, <1>13, Zenon DEF Kinds

-----------------------------------------------------------------------------
(* How often a request was sent. *)

LEMMA SentNext ==
  ASSUME Inv, Kinds
  PROVE  SentInv'
<1>SentBy. ASSUME NEW r, By(r), \A s \in Requests : s # r => sent'[s] = sent[s], SentAt(r)'
           PROVE  SentInv'
  <2> USE <1>SentBy
  <2> SUFFICES ASSUME NEW s \in Requests, s # r
               PROVE  SentAt(s)'
    BY Zenon DEF SentInv
  <2>1. pc'[s] = pc[s] /\ task'[s] = task[s] /\ sent'[s] = sent[s]
    BY Zenon DEF By, Moves
  <2>2. SentAt(s)
    BY Zenon DEF Inv, SentInv
  <2> QED  BY <2>1, <2>2, Zenon DEF SentAt, Unsent
<1>UnsentBound. ASSUME NEW r \in Requests, NEW t, NEW n, Unsent(r, t, n)
                PROVE  /\ n \in Nat /\ n <= (IF r \in Replayables THEN 2 ELSE 1)
                       /\ n + 1 <= (IF r \in Replayables THEN 2 ELSE 1)
  BY <1>UnsentBound DEF Unsent
<1>UnsentSame. ASSUME NEW r, NEW t, NEW v, NEW n, Unsent(r, t, n),
                      v.fresh_only = t.fresh_only, v.replay = t.replay
               PROVE  Unsent(r, v, n)
  BY <1>UnsentSame, Zenon DEF Unsent
<1>1. \A s \in Requests : SentAt(s)
  BY Zenon DEF Inv, SentInv
<1>2. ASSUME NEW r \in Requests, By(r), \A s \in Requests : s # r => sent'[s] = sent[s],
             NEW t, Unsent(r, t, sent'[r]),
             task'[r].fresh_only = t.fresh_only, task'[r].replay = t.replay,
             pc'[r] = "send" /\ task'[r].pooled => ~t.fresh_only
      PROVE  SentInv'
  <2>1. sent'[r] <= IF r \in Replayables THEN 2 ELSE 1
    BY <1>2, <1>UnsentBound, Zenon
  <2>2. Unsent(r, task'[r], sent'[r])
    BY <1>2, <1>UnsentSame, Zenon
  <2>3. SentAt(r)'
    BY <1>2, <2>1, <2>2, Zenon DEF SentAt, Unsent
  <2> QED  BY <1>2, <2>3, <1>SentBy, Zenon
<1>3. ASSUME NEW r \in Requests, NEW t, NEW P, NEW w, Searching(r, t, P, w)
      PROVE  SentInv'
  <2>1. /\ By(r) /\ \A s \in Requests : s # r => sent'[s] = sent[s]
        /\ t \in TaskType /\ Unsent(r, t, sent'[r])
    BY <1>3, SearchesBy, Zenon DEF Searching, Turn
  <2>2. CASE Finds(r, t)
    <3>1. /\ task'[r].fresh_only = t.fresh_only /\ task'[r].replay = t.replay
          /\ ~t.fresh_only
      BY <2>1, <2>2, FoundIs, Zenon
    <3> QED  BY <1>2, <2>1, <3>1, Zenon
  <2>3. CASE Parks(r, t)
    <3>1. /\ task'[r].fresh_only = t.fresh_only /\ task'[r].replay = t.replay
          /\ pc'[r] \in {"h1_wait", "dial_wait"}
      BY <2>3, ParkedIs, Zenon
    <3> QED  BY <1>2, <2>1, <3>1, Zenon
  <2> QED  BY <1>3, <2>2, <2>3, Zenon DEF Searching
<1>4. ASSUME NEW r \in Requests, Over(r)
      PROVE  SentInv'
  <2>1. /\ pc'[r] = "done" /\ sent'[r] <= (IF r \in Replayables THEN 2 ELSE 1)
        /\ \A s \in Requests : s # r => sent'[s] = sent[s]
    BY <1>4, Zenon DEF Over, Goes
  <2>2. SentAt(r)'
    BY <2>1, Zenon DEF SentAt, Waiting
  <2> QED  BY <1>4, <2>1, <2>2, OverBy, <1>SentBy, Zenon
<1>5. ASSUME NEW r \in Requests, By(r), sent' = sent, pc[r] \in Waiting,
             task'[r].fresh_only = task[r].fresh_only, task'[r].replay = task[r].replay,
             ~(pc'[r] = "send" /\ task'[r].pooled)
      PROVE  SentInv'
  <2>1. Unsent(r, task[r], sent'[r])
    BY <1>1, <1>5, Zenon DEF SentAt
  <2> QED  BY <1>2, <1>5, <2>1, Zenon
<1>6. ASSUME NEW r \in Requests,
             TakesSlot(r) \/ Dials(r) \/ Awaits(r) \/ GetsPermit(r) \/ Negotiates(r)
      PROVE  SentInv'
  <2>1. By(r) /\ pc[r] \in Waiting /\ pc'[r] # "send"
    BY <1>6, WaitersBy, Zenon DEF Waiting
  <2>2. /\ sent' = sent /\ task'[r].fresh_only = task[r].fresh_only
        /\ task'[r].replay = task[r].replay
    BY <1>6, Zenon DEF TakesSlot, Dials, Awaits, GetsPermit, Negotiates, Goes, Like
  <2> QED  BY <1>5, <2>1, <2>2, Zenon
<1>7. ASSUME NEW r \in Requests, ConnectsH1(r) \/ ConnectsH2(r)
      PROVE  SentInv'
  <2>1. /\ By(r) /\ pc[r] \in Waiting /\ ~task'[r].pooled
        /\ task'[r].fresh_only = task[r].fresh_only /\ task'[r].replay = task[r].replay
    BY <1>7, ConnectsBy, Zenon
  <2>2. sent' = sent
    BY <1>7, Zenon DEF ConnectsH1, ConnectsH2, Connected
  <2> QED  BY <1>5, <2>1, <2>2, Zenon
<1>8. ASSUME NEW r \in Requests, Responds(r)
      PROVE  SentInv'
  <2>1. By(r) /\ pc'[r] = "body" /\ pc[r] = "send" /\ sent' = [sent EXCEPT ![r] = @ + 1]
    BY <1>8, AnswersBy, Zenon DEF Responds, Goes
  <2>2. sent'[r] = sent[r] + 1 /\ \A s \in Requests : s # r => sent'[s] = sent[s]
    BY <2>1, TypesNow, Zenon
  <2>3. Unsent(r, task[r], sent[r])
    BY <1>1, <2>1, Zenon DEF SentAt
  <2>4. sent[r] + 1 <= IF r \in Replayables THEN 2 ELSE 1
    BY <2>3, <1>UnsentBound, Zenon
  <2>5. SentAt(r)'
    BY <2>1, <2>2, <2>4, Zenon DEF SentAt, Waiting
  <2> QED  BY <2>1, <2>2, <2>5, <1>SentBy, Zenon
<1>9. ASSUME NEW r \in Requests, BodyEnds(r)
      PROVE  SentInv'
  <2>1. By(r) /\ pc'[r] = "return" /\ sent' = sent
    BY <1>9, AnswersBy, Zenon DEF BodyEnds, Goes
  <2>2. SentAt(r)'
    BY <1>1, <2>1, Zenon DEF SentAt, Waiting
  <2> QED  BY <2>1, <2>2, <1>SentBy, Zenon
<1>10. ASSUME pc' = pc, task' = task, sent' = sent
       PROVE  SentInv'
  BY <1>1, <1>10, Zenon DEF SentInv, SentAt, Unsent
<1>11. ASSUME NEW r \in Requests, ConnEnds(r)
       PROVE  SentInv'
  BY <1>10, <1>11, Zenon DEF ConnEnds
<1>12. ASSUME Quiet
       PROVE  SentInv'
  BY <1>10, <1>12, Zenon DEF Quiet
<1> QED  BY <1>3, <1>4, <1>6, <1>7, <1>8, <1>9, <1>11, <1>12, Zenon DEF Kinds, Reaps

-----------------------------------------------------------------------------
(* What is pooled. *)

\* As hosts() returns the table, it has the pools of now or none.
LEMMA SeenPools ==
  ASSUME Inv
  PROVE  /\ Table(SeenHosts) /\ DOMAIN SeenHosts = DOMAIN hosts
         /\ KeepAll(SeenHosts, hosts) /\ NarrowAll(SeenHosts, hosts)
         /\ PoolsDialed(SeenHosts) /\ PoolsFresh(SeenHosts, resets)
<1>1. Table(hosts) /\ PoolsDialed(hosts) /\ PoolsFresh(hosts, resets_seen)
  BY Zenon DEF Inv, Types, PoolsInv
<1>2. Table(SeenHosts) /\ DOMAIN SeenHosts = DOMAIN hosts /\ KeepAll(SeenHosts, hosts)
  BY <1>1, SeenKeeps, Zenon
<1>3. NarrowAll(SeenHosts, hosts)
  BY <1>2, KeepAllNarrows, Zenon
<1>4. PoolsDialed(SeenHosts)
  BY <1>1, <1>3, NarrowDialed, Zenon
<1>5. PoolsFresh(SeenHosts, resets)
  BY <1>1, SeenFresh, Zenon
<1> QED  BY <1>2, <1>3, <1>4, <1>5, Zenon

LEMMA InAppend ==
  ASSUME NEW q \in Seq(Requests), NEW c \in Requests, NEW i \in DOMAIN Append(q, c)
  PROVE  \/ i = Len(q) + 1 /\ Append(q, c)[i] = c
         \/ i \in DOMAIN q /\ Append(q, c)[i] = q[i]
OBVIOUS

\* What r and the connection it gives back are.
LEMMA ReturnsIs ==
  ASSUME Inv, NEW r \in Requests, Over(r), Returns(r)
  PROVE  /\ target[r] \in Hosts /\ r \in DOMAIN target /\ task[r].using \in Requests
         /\ Holds(r, task[r].using) /\ Dialed(task[r].using) /\ Open(task[r].using)
<1>1. pc[r] = "return" /\ Open(task[r].using) /\ r \in DOMAIN target
  BY Zenon DEF Returns, Over
<1>2. task[r].using \in Requests /\ Dialed(task[r].using) /\ Holds(r, task[r].using)
  BY <1>1, Zenon DEF Inv, RequestsInv, RequestAt, Holding, Holds
<1>3. target[r] \in Hosts
  BY <1>1, TargetIn, Zenon DEF Inv
<1> QED  BY <1>1, <1>2, <1>3, Zenon

LEMMA PoolsNext ==
  ASSUME Inv, Kinds
  PROVE  PoolsInv'
\* The pools are a table T, where what is open was pooled after n resets, with
\* at most one connection more: a.
<1>PoolsBy. ASSUME NEW r, By(r), NEW T, Table(T), PoolsDialed(T), NEW n, PoolsFresh(T, n),
                   Table(hosts'), resets_seen' = n, NEW a \in Opt(Requests),
                   \A h \in Hosts : At(hosts', h).h2 # None =>
                     At(hosts', h).h2 = At(T, h).h2 \/ (At(hosts', h).h2 = a /\ conn'[a] # "h1"),
                   \A h \in Hosts : \A i \in DOMAIN At(hosts', h).idle :
                     \/ At(hosts', h).idle[i] = a
                     \/ \E j \in DOMAIN At(T, h).idle : At(hosts', h).idle[i] = At(T, h).idle[j],
                   a # None => Dialed(a)' /\ pooled_at'[a] = n,
                   \A s \in Requests : s # a /\ Open(s)' => pooled_at'[s] = pooled_at[s]
            PROVE  PoolsInv'
  <2> USE <1>PoolsBy
  <2>1. PICK U : U = hosts'
    BY Zenon
  <2>2. ASSUME NEW c \in Requests, Dialed(c), Open(c) => pooled_at[c] = n
        PROVE  /\ Dialed(c)' /\ (Open(c)' => pooled_at'[c] = n)
               /\ conn[c] # "h1" => conn'[c] # "h1"
    <3>1. Dialed(c)' /\ (conn'[c] = conn[c] \/ conn'[c] = "none")
      BY <2>2, DialedStays, Zenon
    <3>2. ASSUME Open(c)'
          PROVE  pooled_at'[c] = n
      <4>1. Open(c)
        BY <3>1, <3>2, Zenon DEF Open, Protocols
      <4>2. CASE c = a
        BY <4>2, Constants, Zenon
      <4>3. CASE c # a
        BY <2>2, <3>2, <4>1, <4>3, Zenon
      <4> QED  BY <4>2, <4>3, Zenon
    <3> QED  BY <3>1, <3>2, Zenon
  <2>3. \A h \in Hosts : At(U, h) \in HostType /\ At(T, h) \in HostType
    BY <2>1, AtIs, Zenon
  <2>4. ASSUME NEW h \in Hosts, NEW c, c = At(U, h).h2, c # None
        PROVE  /\ Dialed(c)' /\ (Open(c)' => pooled_at'[c] = n) /\ conn'[c] # "h1"
    <3>1. c \in Requests
      BY <2>3, <2>4, HostFields, Zenon DEF Opt
    <3>2. CASE c = At(T, h).h2
      <4>1. Dialed(c) /\ conn[c] # "h1" /\ (Open(c) => pooled_at[c] = n)
        BY <2>4, <3>2, Zenon DEF PoolsDialed, PoolsFresh
      <4> QED  BY <2>2, <3>1, <4>1, Zenon
    <3>3. CASE c = a /\ conn'[a] # "h1"
      BY <2>4, <3>3, Zenon
    <3> QED  BY <2>1, <2>4, <3>2, <3>3, Zenon
  <2>5. ASSUME NEW h \in Hosts, NEW i \in DOMAIN At(U, h).idle, NEW c, c = At(U, h).idle[i]
        PROVE  Dialed(c)' /\ (Open(c)' => pooled_at'[c] = n)
    <3>1. c \in Requests
      <4>1. At(U, h).idle \in Seq(Requests)
        BY <2>3, HostFields, Zenon
      <4> QED  BY <2>5, <4>1
    <3>2. CASE c = a
      BY <3>1, <3>2, Constants, Zenon
    <3>3. ASSUME NEW j \in DOMAIN At(T, h).idle, c = At(T, h).idle[j]
          PROVE  Dialed(c)' /\ (Open(c)' => pooled_at'[c] = n)
      <4>1. Dialed(c) /\ (Open(c) => pooled_at[c] = n)
        BY <3>3, Zenon DEF PoolsDialed, PoolsFresh
      <4> QED  BY <2>2, <3>1, <4>1, Zenon
    <3> QED  BY <2>1, <2>5, <3>2, <3>3, Zenon
  <2>6. PoolsDialed(hosts)'
    BY <2>1, <2>4, <2>5, Zenon DEF PoolsDialed, Dialed
  <2>7. PoolsFresh(hosts, resets_seen)'
    <3>1. ASSUME NEW h \in Hosts, At(hosts', h).h2 # None, conn'[At(hosts', h).h2] \in Protocols
          PROVE  pooled_at'[At(hosts', h).h2] = n
      BY <2>1, <2>4, <3>1, Zenon DEF Open
    <3>2. ASSUME NEW h \in Hosts, NEW i \in DOMAIN At(hosts', h).idle,
                 conn'[At(hosts', h).idle[i]] \in Protocols
          PROVE  pooled_at'[At(hosts', h).idle[i]] = n
      <4>1. PICK c : c = At(U, h).idle[i]
        BY Zenon
      <4>2. i \in DOMAIN At(U, h).idle
        BY <2>1, <3>2, Zenon
      <4>3. Open(c)' => pooled_at'[c] = n
        BY <2>5, <4>1, <4>2, Zenon
      <4> QED  BY <2>1, <3>2, <4>1, <4>3, Zenon DEF Open
    <3> QED  BY <3>1, <3>2, Zenon DEF PoolsFresh, Open
  <2> QED  BY <2>6, <2>7, Zenon DEF PoolsInv
<1>PoolsShrink. ASSUME NEW r, By(r), Shrinks,
                       \A s \in Requests : Open(s)' => pooled_at'[s] = pooled_at[s]
                PROVE  PoolsInv'
  <2> USE <1>PoolsShrink
  <2>1. PICK U : U = hosts'
    BY Zenon
  <2>2. Table(U) /\ NarrowAll(U, hosts) /\ PoolsFresh(U, resets_seen')
    BY <2>1, Zenon DEF Shrinks
  <2>3. PoolsDialed(U)
    BY <2>2, NarrowDialed, Zenon DEF Inv, PoolsInv
  <2>4. \A h \in Hosts : At(hosts', h).h2 # None =>
          \/ At(hosts', h).h2 = At(U, h).h2
          \/ At(hosts', h).h2 = None /\ conn'[None] # "h1"
    BY <2>1, Zenon
  <2>5. \A h \in Hosts : \A i \in DOMAIN At(hosts', h).idle :
          \/ At(hosts', h).idle[i] = None
          \/ \E j \in DOMAIN At(U, h).idle : At(hosts', h).idle[i] = At(U, h).idle[j]
    BY <2>1, Zenon
  <2>6. None \in Opt(Requests) /\ Table(hosts')
    BY <2>1, <2>2, Zenon DEF Opt
  <2>7. PICK n : n = resets_seen'
    BY Zenon
  <2>8. None # None => Dialed(None)' /\ pooled_at'[None] = n
    BY Zenon
  <2>9. PoolsFresh(U, n) /\ resets_seen' = n
    BY <2>2, <2>7, Zenon
  <2>10. \A s \in Requests : s # None /\ Open(s)' => pooled_at'[s] = pooled_at[s]
    BY Zenon
  <2> QED  BY <2>2, <2>3, <2>4, <2>5, <2>6, <2>8, <2>9, <2>10, <1>PoolsBy
\* What a step in the hands of r, which does not hold a or connects it, adds to
\* the table as hosts() returned it.
<1>PoolsAdd. ASSUME NEW r, By(r), NEW h \in Hosts, NEW a \in Requests, Table(hosts'),
                    OnlyAt(hosts', SeenHosts, h), resets_seen' = resets, Dialed(a)',
                    pooled_at' = [pooled_at EXCEPT ![a] = resets],
                    \/ At(hosts', h).h2 = At(SeenHosts, h).h2
                    \/ At(hosts', h).h2 = a /\ conn'[a] # "h1",
                    \A i \in DOMAIN At(hosts', h).idle :
                      \/ At(hosts', h).idle[i] = a
                      \/ \E j \in DOMAIN At(SeenHosts, h).idle :
                           At(hosts', h).idle[i] = At(SeenHosts, h).idle[j]
             PROVE  PoolsInv'
  <2> USE <1>PoolsAdd
  <2>1. PICK T : T = SeenHosts
    BY Zenon
  <2>2. PICK n : n = resets
    BY Zenon
  <2>3. Table(T) /\ PoolsDialed(T) /\ PoolsFresh(T, n) /\ resets_seen' = n
    BY <2>1, <2>2, SeenPools, Zenon
  <2>4. \A k \in Hosts : At(hosts', k).h2 # None =>
          At(hosts', k).h2 = At(T, k).h2 \/ (At(hosts', k).h2 = a /\ conn'[a] # "h1")
    BY <2>1, Zenon DEF OnlyAt
  <2>5. \A k \in Hosts : \A i \in DOMAIN At(hosts', k).idle :
          \/ At(hosts', k).idle[i] = a
          \/ \E j \in DOMAIN At(T, k).idle : At(hosts', k).idle[i] = At(T, k).idle[j]
    <3> SUFFICES ASSUME NEW k \in Hosts, NEW i \in DOMAIN At(hosts', k).idle,
                        At(hosts', k).idle[i] # a
                 PROVE  \E j \in DOMAIN At(T, k).idle : At(hosts', k).idle[i] = At(T, k).idle[j]
      BY Zenon
    <3>1. CASE k # h
      <4>1. At(hosts', k) = At(T, k)
        BY <2>1, <3>1, Zenon DEF OnlyAt
      <4>2. i \in DOMAIN At(T, k).idle /\ At(hosts', k).idle[i] = At(T, k).idle[i]
        BY <4>1, Zenon
      <4> QED  BY <4>2, Zenon
    <3>2. CASE k = h
      BY <2>1, <3>2, Zenon
    <3> QED  BY <3>1, <3>2, Zenon
  <2>6. pooled_at'[a] = n /\ \A s \in Requests : s # a => pooled_at'[s] = pooled_at[s]
    BY <2>2, TypesNow, Zenon
  <2>7. a \in Opt(Requests) /\ (a # None => Dialed(a)' /\ pooled_at'[a] = n)
    BY <2>6, Zenon DEF Opt
  <2>8. \A s \in Requests : s # a /\ Open(s)' => pooled_at'[s] = pooled_at[s]
    BY <2>6, Zenon
  <2> QED  BY <2>3, <2>4, <2>5, <2>7, <2>8, <1>PoolsBy
<1>1. ASSUME NEW r \in Requests, By(r), Shrinks, pooled_at' = pooled_at
      PROVE  PoolsInv'
  BY <1>1, <1>PoolsShrink, Zenon
<1>2. ASSUME NEW r \in Requests, NEW t, NEW P, NEW w, Searching(r, t, P, w)
      PROVE  PoolsInv'
  BY <1>1, <1>2, SearchesBy, Zenon DEF Searching, TurnsPools, Turn
<1>3. ASSUME NEW r \in Requests, Over(r), Kept \/ Unlistens(r), pooled_at' = pooled_at
      PROVE  PoolsInv'
  BY <1>1, <1>3, OverBy, Zenon DEF Kept, Unlistens
<1>4. ASSUME NEW r \in Requests, Over(r), Returns(r)
      PROVE  PoolsInv'
  <2>1. PICK h \in Hosts : h = target[r]
    BY <1>4, ReturnsIs, Zenon
  <2>2. PICK a \in Requests : a = task[r].using /\ Dialed(a)
    BY <1>4, ReturnsIs, Zenon
  <2>3. By(r)
    BY <1>4, OverBy, Zenon
  <2>4. /\ Table(hosts') /\ OnlyAt(hosts', SeenHosts, h) /\ resets_seen' = resets
        /\ pooled_at' = [pooled_at EXCEPT ![a] = resets]
        /\ At(hosts', h).h2 = At(SeenHosts, h).h2
        /\ At(hosts', h).idle = Append(At(SeenHosts, h).idle, a)
    BY <1>4, <2>1, <2>2, Zenon DEF Returns
  <2>5. Dialed(a)'
    BY <2>2, <2>3, DialedStays, Zenon
  <2>6. At(SeenHosts, h).idle \in Seq(Requests)
    BY SeenPools, AtIs, HostFields, Zenon
  <2>7. \A i \in DOMAIN At(hosts', h).idle :
          \/ At(hosts', h).idle[i] = a
          \/ \E j \in DOMAIN At(SeenHosts, h).idle :
               At(hosts', h).idle[i] = At(SeenHosts, h).idle[j]
    <3>1. PICK q \in Seq(Requests) : q = At(SeenHosts, h).idle
      BY <2>6, Zenon
    <3>2. \A i \in DOMAIN Append(q, a) :
            Append(q, a)[i] = a \/ (i \in DOMAIN q /\ Append(q, a)[i] = q[i])
      BY InAppend, Zenon
    <3>3. \A i \in DOMAIN Append(q, a) :
            Append(q, a)[i] = a \/ \E j \in DOMAIN q : Append(q, a)[i] = q[j]
      BY <3>2, Zenon
    <3>4. PICK U : U = At(hosts', h).idle
      BY Zenon
    <3>5. U = Append(q, a)
      BY <2>4, <3>1, <3>4, Zenon
    <3>6. \A i \in DOMAIN U : U[i] = a \/ \E j \in DOMAIN q : U[i] = q[j]
      BY <3>3, <3>5, Zenon
    <3> QED  BY <3>1, <3>4, <3>6, Zenon
  <2> QED  BY <2>3, <2>4, <2>5, <2>7, <1>PoolsAdd
<1>5. ASSUME NEW r \in Requests,
             TakesSlot(r) \/ Dials(r) \/ Awaits(r) \/ GetsPermit(r) \/ Negotiates(r)
      PROVE  PoolsInv'
  <2>1. By(r)
    BY <1>5, WaitersBy, Zenon
  <2>2. Shrinks /\ pooled_at' = pooled_at
    BY <1>5, Zenon DEF TakesSlot, Dials, Awaits, GetsPermit, Negotiates, Kept, Unlistens
  <2> QED  BY <1>1, <2>1, <2>2, Zenon
<1>6. ASSUME NEW r \in Requests, ConnectsH1(r)
      PROVE  PoolsInv'
  <2>1. By(r) /\ target[r] \in Hosts
    BY <1>6, ConnectsBy, WaitingHost, Zenon
  <2>2. /\ Table(hosts') /\ OnlyAt(hosts', SeenHosts, target[r]) /\ resets_seen' = resets
        /\ At(hosts', target[r]).h2 = At(SeenHosts, target[r]).h2
        /\ At(hosts', target[r]).idle = At(SeenHosts, target[r]).idle
        /\ pooled_at' = pooled_at
    BY <1>6, Zenon DEF ConnectsH1, Connected
  <2>3. PICK U : U = hosts'
    BY Zenon
  <2>4. NarrowAll(U, SeenHosts)
    <3>1. ASSUME NEW k \in Hosts
          PROVE  Narrows(At(U, k), At(SeenHosts, k))
      <4>1. At(U, k) \in HostType /\ At(SeenHosts, k) \in HostType
        BY <2>2, <2>3, SeenPools, AtIs, Zenon
      <4>2. Sub(At(SeenHosts, k).idle, At(SeenHosts, k).idle)
        BY <4>1, HostFields, SubRefl, Zenon
      <4>3. At(U, k).idle = At(SeenHosts, k).idle /\ At(U, k).h2 = At(SeenHosts, k).h2
        BY <2>2, <2>3, Zenon DEF OnlyAt
      <4> QED  BY <4>1, <4>2, <4>3, Zenon DEF Narrows
    <3> QED  BY <3>1, Zenon DEF NarrowAll
  <2>5. NarrowAll(U, hosts) /\ PoolsFresh(U, resets)
    BY <2>4, SeenPools, NarrowAllTrans, NarrowFresh, Zenon DEF Inv, Types
  <2>6. Shrinks
    BY <2>2, <2>3, <2>5, TypesNow, Zenon DEF Shrinks
  <2> QED  BY <1>1, <2>1, <2>2, <2>6, Zenon
<1>7. ASSUME NEW r \in Requests, ConnectsH2(r)
      PROVE  PoolsInv'
  <2>1. By(r) /\ target[r] \in Hosts /\ pc'[r] = "send" /\ ~task'[r].pooled
    BY <1>7, ConnectsBy, WaitingHost, Zenon
  <2>2. PICK h \in Hosts : h = target[r]
    BY <2>1, Zenon
  <2>3. /\ Table(hosts') /\ OnlyAt(hosts', SeenHosts, h) /\ resets_seen' = resets
        /\ At(hosts', h).h2 = r /\ At(hosts', h).idle = At(SeenHosts, h).idle
        /\ pooled_at' = [pooled_at EXCEPT ![r] = resets]
        /\ conn' = [conn EXCEPT ![r] = "h2"]
    BY <1>7, <2>2, Zenon DEF ConnectsH2, Connected
  <2>4. conn'[r] # "h1"
    BY <2>3, TypesNow, Zenon
  <2>5. Dialed(r)'
    BY <2>1, Zenon DEF Dialed
  <2>6. \A i \in DOMAIN At(hosts', h).idle :
          \/ At(hosts', h).idle[i] = r
          \/ \E j \in DOMAIN At(SeenHosts, h).idle :
               At(hosts', h).idle[i] = At(SeenHosts, h).idle[j]
    BY <2>3, Zenon
  <2> QED  BY <2>1, <2>3, <2>4, <2>5, <2>6, <1>PoolsAdd
<1>8. ASSUME NEW r \in Requests, Responds(r) \/ BodyEnds(r)
      PROVE  PoolsInv'
  <2>1. Shrinks /\ pooled_at' = pooled_at
    BY <1>8, Zenon DEF Responds, BodyEnds, Kept
  <2> QED  BY <1>1, <1>8, <2>1, AnswersBy, Zenon
<1>9. ASSUME NEW c \in Requests, ConnEnds(c)
      PROVE  PoolsInv'
  <2>1. By(c) /\ conn'[c] = "none"
    BY <1>9, ConnEndsBy, Zenon
  <2>2. Shrinks /\ \A s \in Requests : s # c => pooled_at'[s] = pooled_at[s]
    BY <1>9, TypesNow, Zenon DEF ConnEnds, Kept
  <2>3. \A s \in Requests : Open(s)' => pooled_at'[s] = pooled_at[s]
    BY <2>1, <2>2, Zenon DEF Open, Protocols
  <2> QED  BY <2>1, <2>2, <2>3, <1>PoolsShrink, Zenon
<1>10. ASSUME Quiet, Shrinks
       PROVE  PoolsInv'
  <2>1. PICK r : r \in Requests
    BY PoolAssumption, Zenon
  <2>2. By(r) /\ pooled_at' = pooled_at
    BY <1>10, <2>1, QuietBy, Zenon DEF Quiet
  <2> QED  BY <1>1, <1>10, <2>1, <2>2, Zenon
<1> QED  BY <1>2, <1>3, <1>4, <1>5, <1>6, <1>7, <1>8, <1>9, <1>10, Zenon DEF Kinds, Reaps, Kept

-----------------------------------------------------------------------------
(* HTTP/1.1 connections are in one place. *)

LEMMA OnceNext ==
  ASSUME Inv, Kinds
  PROVE  OnceInv'
\* r moves; what it holds then, and what is then open, is in no other place.
<1>OnceBy. ASSUME NEW r, By(r), NEW U, U = hosts', IdleOnce(U),
                  \A c \in Requests : conn'[c] = "h1" /\ conn[c] # "h1" =>
                    NotIdle(c, U) /\ \A s \in Requests : ~Holds(s, c),
                  \A c \in Requests : conn'[c] = "h1" /\ Holds(r, c)' =>
                    NotIdle(c, U) /\ \A s \in Requests : s # r => ~Holds(s, c),
                  \A c, s \in Requests : conn[c] = "h1" /\ s # r /\ Holds(s, c) => NotIdle(c, U)
           PROVE  OnceInv'
  <2> USE <1>OnceBy
  <2>1. HeldOnce
    BY Zenon DEF Inv, OnceInv
  <2>2. ASSUME NEW s \in Requests, s # r, NEW c, Holds(s, c)'
        PROVE  Holds(s, c)
    BY <2>2, Zenon DEF Holds, By, Moves
  <2>3. ASSUME NEW c \in Requests, conn'[c] = "h1", NEW h \in Hosts, NEW k \in Hosts,
               NEW i \in DOMAIN At(U, h).idle, NEW j \in DOMAIN At(U, k).idle,
               At(U, h).idle[i] = c, At(U, k).idle[j] = c
        PROVE  h = k /\ i = j
    <3>1. CASE conn[c] = "h1"
      BY <2>3, <3>1 DEF IdleOnce
    <3>2. CASE conn[c] # "h1"
      BY <2>3, <3>2, Zenon DEF NotIdle
    <3> QED  BY <3>1, <3>2, Zenon
  <2>4. IdleOnce(hosts)'
    <3> SUFFICES ASSUME NEW c \in Requests, conn'[c] = "h1", NEW h \in Hosts, NEW k \in Hosts,
                        NEW i \in DOMAIN At(hosts', h).idle, NEW j \in DOMAIN At(hosts', k).idle,
                        At(hosts', h).idle[i] = c, At(hosts', k).idle[j] = c
                 PROVE  h = k /\ i = j
      BY DEF IdleOnce
    <3> QED  BY <2>3
  <2>5. ASSUME NEW c \in Requests, conn'[c] = "h1", NEW x \in Requests, NEW y \in Requests,
               Holds(x, c)', Holds(y, c)'
        PROVE  x = y
    <3>1. CASE x = r \/ y = r
      BY <2>2, <2>5, <3>1, Zenon
    <3>2. CASE x # r /\ y # r
      <4>1. Holds(x, c) /\ Holds(y, c)
        BY <2>2, <2>5, <3>2, Zenon
      <4>2. conn[c] = "h1"
        BY <2>5, <4>1, Zenon
      <4> QED  BY <2>1, <4>1, <4>2, Zenon DEF HeldOnce
    <3> QED  BY <3>1, <3>2, Zenon
  <2>6. HeldOnce'
    BY <2>5, Zenon DEF HeldOnce
  <2>7. ASSUME NEW c \in Requests, conn'[c] = "h1", NEW x \in Requests, Holds(x, c)'
        PROVE  NotIdle(c, U)
    <3>1. CASE x = r
      BY <2>7, <3>1, Zenon
    <3>2. CASE x # r
      <4>1. Holds(x, c)
        BY <2>2, <2>7, <3>2, Zenon
      <4>2. conn[c] = "h1"
        BY <2>7, <4>1, Zenon
      <4> QED  BY <3>2, <4>1, <4>2, Zenon
    <3> QED  BY <3>1, <3>2, Zenon
  <2>8. HeldNotIdle(hosts)'
    BY <2>7, Zenon DEF HeldNotIdle
  <2> QED  BY <2>4, <2>6, <2>8, Zenon DEF OnceInv
\* r takes no connection, and no connection is pooled or opened.
<1>OnceLess. ASSUME NEW r, By(r), NEW U, U = hosts', IdleOnce(U),
                    \A c \in Requests : NotIdle(c, hosts) => NotIdle(c, U),
                    \A c \in Requests : conn'[c] = "h1" => conn[c] = "h1",
                    \A c \in Requests : Holds(r, c)' => Holds(r, c)
             PROVE  OnceInv'
  <2> USE <1>OnceLess
  <2>1. HeldOnce /\ HeldNotIdle(hosts) /\ r \in Requests
    BY Zenon DEF Inv, OnceInv, By
  <2>2. \A c \in Requests : conn'[c] = "h1" /\ conn[c] # "h1" =>
          NotIdle(c, U) /\ \A s \in Requests : ~Holds(s, c)
    BY Zenon
  <2>3. \A c \in Requests : conn'[c] = "h1" /\ Holds(r, c)' =>
          NotIdle(c, U) /\ \A s \in Requests : s # r => ~Holds(s, c)
    BY <2>1, Zenon DEF HeldOnce, HeldNotIdle
  <2>4. \A c, s \in Requests : conn[c] = "h1" /\ s # r /\ Holds(s, c) => NotIdle(c, U)
    BY <2>1, Zenon DEF HeldNotIdle
  <2> QED  BY <2>2, <2>3, <2>4, <1>OnceBy, Zenon
<1>OnceShrink. ASSUME NEW r, By(r), Shrinks,
                      \A c \in Requests : conn'[c] = "h1" => conn[c] = "h1",
                      \A c \in Requests : Holds(r, c)' => Holds(r, c)
               PROVE  OnceInv'
  <2> USE <1>OnceShrink
  <2>1. PICK U : U = hosts'
    BY Zenon
  <2>2. NarrowAll(U, hosts) /\ IdleOnce(hosts)
    BY <2>1, Zenon DEF Shrinks, Inv, OnceInv
  <2>3. IdleOnce(U)
    BY <2>2, NarrowOnce, Zenon
  <2>4. \A c \in Requests : NotIdle(c, hosts) => NotIdle(c, U)
    BY <2>2, NarrowNotIdle, Zenon
  <2> QED  BY <2>1, <2>3, <2>4, <1>OnceLess, Zenon
\* Tables with the same idle lists.
<1>SameIdle. ASSUME NEW U, NEW T, \A h \in Hosts : At(U, h).idle = At(T, h).idle
             PROVE  /\ IdleOnce(T) => IdleOnce(U)
                    /\ \A c : NotIdle(c, T) => NotIdle(c, U)
  <2> USE <1>SameIdle
  <2>1. IdleOnce(T) => IdleOnce(U)
    BY DEF IdleOnce
  <2>2. \A c : NotIdle(c, T) => NotIdle(c, U)
    BY Zenon DEF NotIdle
  <2> QED  BY <2>1, <2>2, Zenon
<1>SeenOnce. ASSUME Inv
             PROVE  /\ IdleOnce(SeenHosts) /\ \A c : NotIdle(c, hosts) => NotIdle(c, SeenHosts)
  <2> USE <1>SeenOnce
  <2>1. NarrowAll(SeenHosts, hosts) /\ IdleOnce(hosts)
    BY SeenPools, Zenon DEF Inv, OnceInv
  <2> QED  BY <2>1, NarrowOnce, NarrowNotIdle, Zenon
\* Nobody holds, and no idle list has, what a request has not dialled yet.
<1>NowhereYet. ASSUME NEW r \in Requests, ~Dialed(r)
               PROVE  NotIdle(r, hosts) /\ \A s \in Requests : ~Holds(s, r)
  <2> USE <1>NowhereYet
  <2>1. NotIdle(r, hosts)
    BY Zenon DEF Inv, PoolsInv, PoolsDialed, NotIdle
  <2>2. \A s \in Requests : ~Holds(s, r)
    BY Zenon DEF Inv, RequestsInv, RequestAt, Holds
  <2> QED  BY <2>1, <2>2, Zenon
\* checkout's result is in the hands of r only.
<1>OnceFound. ASSUME NEW r \in Requests, By(r), Shrinks, conn' = conn, NEW t \in TaskType, Finds(r, t)
              PROVE  OnceInv'
  <2> USE <1>OnceFound
  <2>1. PICK U : U = hosts'
    BY Zenon
  <2>2. NarrowAll(U, hosts) /\ IdleOnce(hosts) /\ HeldNotIdle(hosts)
    BY <2>1, Zenon DEF Shrinks, Inv, OnceInv
  <2>3. IdleOnce(U) /\ \A c \in Requests : NotIdle(c, hosts) => NotIdle(c, U)
    BY <2>2, NarrowOnce, NarrowNotIdle, Zenon
  <2>4. PICK a \in Requests :
          /\ pc'[r] = "send" /\ task'[r].using = a
          /\ conn[a] = "h1" => NotIdle(a, hosts') /\ ~NotIdle(a, hosts)
    BY FoundIs, Zenon
  <2>5. \A c \in Requests : conn'[c] = "h1" /\ conn[c] # "h1" =>
          NotIdle(c, U) /\ \A s \in Requests : ~Holds(s, c)
    BY Zenon
  <2>6. ASSUME NEW c \in Requests, conn'[c] = "h1", Holds(r, c)'
        PROVE  NotIdle(c, U) /\ \A s \in Requests : s # r => ~Holds(s, c)
    <3>1. c = a
      BY <2>4, <2>6, Zenon DEF Holds
    <3>2. NotIdle(c, U) /\ ~NotIdle(c, hosts) /\ conn[c] = "h1"
      BY <2>1, <2>4, <2>6, <3>1, Zenon
    <3> QED  BY <2>2, <3>2, Zenon DEF HeldNotIdle
  <2>7. \A c, s \in Requests : conn[c] = "h1" /\ s # r /\ Holds(s, c) => NotIdle(c, U)
    BY <2>2, <2>3, Zenon DEF HeldNotIdle
  <2> QED  BY <2>1, <2>3, <2>5, <2>6, <2>7, <1>OnceBy, Zenon
\* A new connection is in the hands of r only.
<1>OnceConnects. ASSUME NEW r \in Requests, ConnectsH1(r) \/ ConnectsH2(r)
                 PROVE  OnceInv'
  <2> USE <1>OnceConnects
  <2>1. By(r) /\ pc[r] \in Waiting /\ task'[r].using = r /\ target[r] \in Hosts
    BY ConnectsBy, WaitingHost, Zenon
  <2>2. ~Dialed(r)
    BY <2>1, NotDialed, Zenon
  <2>3. NotIdle(r, hosts) /\ \A s \in Requests : ~Holds(s, r)
    BY <2>2, <1>NowhereYet, Zenon
  <2>4. PICK U : U = hosts'
    BY Zenon
  <2>5. \A k \in Hosts : At(U, k).idle = At(SeenHosts, k).idle
    BY <2>1, <2>4, Zenon DEF ConnectsH1, ConnectsH2, Connected, OnlyAt
  <2>6. IdleOnce(U) /\ \A c : NotIdle(c, hosts) => NotIdle(c, U)
    BY <2>5, <1>SeenOnce, <1>SameIdle, Zenon
  <2>7. HeldNotIdle(hosts)
    BY Zenon DEF Inv, OnceInv
  <2>8. \A c \in Requests : conn'[c] = "h1" /\ conn[c] # "h1" =>
          NotIdle(c, U) /\ \A s \in Requests : ~Holds(s, c)
    BY <2>1, <2>3, <2>6, Zenon DEF By
  <2>9. \A c \in Requests : conn'[c] = "h1" /\ Holds(r, c)' =>
          NotIdle(c, U) /\ \A s \in Requests : s # r => ~Holds(s, c)
    BY <2>1, <2>3, <2>6, Zenon DEF Holds
  <2>10. \A c, s \in Requests : conn[c] = "h1" /\ s # r /\ Holds(s, c) => NotIdle(c, U)
    BY <2>6, <2>7, Zenon DEF HeldNotIdle
  <2> QED  BY <2>1, <2>4, <2>6, <2>8, <2>9, <2>10, <1>OnceBy, Zenon
\* A connection that is given back is idle, and nobody holds it.
<1>OnceReturns. ASSUME NEW r \in Requests, Over(r), Returns(r)
                PROVE  OnceInv'
  <2> USE <1>OnceReturns
  <2>1. PICK h \in Hosts : h = target[r]
    BY ReturnsIs, Zenon
  <2>2. PICK a \in Requests : a = task[r].using /\ Holds(r, a)
    BY ReturnsIs, Zenon
  <2>3. By(r) /\ conn' = conn /\ \A c : ~Holds(r, c)'
    BY OverBy, Zenon DEF Over, Goes, Holds, Holding
  <2>4. PICK U : U = hosts'
    BY Zenon
  <2>5. PICK q \in Seq(Requests) : q = At(SeenHosts, h).idle
    <3>1. At(SeenHosts, h).idle \in Seq(Requests)
      BY SeenPools, AtIs, HostFields, Zenon
    <3> QED  BY <3>1, Zenon
  <2>6. OnlyAt(U, SeenHosts, h) /\ At(U, h).idle = Append(q, a)
    BY <2>1, <2>2, <2>4, <2>5, Zenon DEF Returns
  <2>7. IdleOnce(SeenHosts) /\ \A c : NotIdle(c, hosts) => NotIdle(c, SeenHosts)
    BY <1>SeenOnce, Zenon
  <2>8. HeldOnce /\ HeldNotIdle(hosts)
    BY Zenon DEF Inv, OnceInv
  <2>9. conn[a] = "h1" => NotIdle(a, SeenHosts)
    BY <2>2, <2>7, <2>8, Zenon DEF HeldNotIdle
  <2>10. ASSUME NEW k \in Hosts, NEW i \in DOMAIN At(U, k).idle
         PROVE  \/ k = h /\ i = Len(q) + 1 /\ At(U, k).idle[i] = a
                \/ i \in DOMAIN At(SeenHosts, k).idle /\ At(U, k).idle[i] = At(SeenHosts, k).idle[i]
    <3>1. CASE k = h
      <4>1. i \in DOMAIN Append(q, a)
        BY <2>6, <2>10, <3>1, Zenon
      <4>2. \/ i = Len(q) + 1 /\ Append(q, a)[i] = a
            \/ i \in DOMAIN q /\ Append(q, a)[i] = q[i]
        BY <4>1, InAppend, Zenon
      <4> QED  BY <2>5, <2>6, <3>1, <4>2, Zenon
    <3>2. CASE k # h
      BY <2>6, <2>10, <3>2, Zenon DEF OnlyAt
    <3> QED  BY <3>1, <3>2, Zenon
  <2>11. ASSUME NEW c \in Requests, c # a, NotIdle(c, SeenHosts)
         PROVE  NotIdle(c, U)
    BY <2>10, <2>11, Zenon DEF NotIdle
  <2>12. IdleOnce(U)
    <3> SUFFICES ASSUME NEW c \in Requests, conn[c] = "h1", NEW m \in Hosts, NEW k \in Hosts,
                        NEW i \in DOMAIN At(U, m).idle, NEW j \in DOMAIN At(U, k).idle,
                        At(U, m).idle[i] = c, At(U, k).idle[j] = c
                 PROVE  m = k /\ i = j
      BY DEF IdleOnce
    <3>1. CASE c = a
      <4>1. m = h /\ i = Len(q) + 1
        BY <2>9, <2>10, <3>1, ZenonT(40) DEF NotIdle
      <4>2. k = h /\ j = Len(q) + 1
        BY <2>9, <2>10, <3>1, ZenonT(40) DEF NotIdle
      <4> QED  BY <4>1, <4>2, Zenon
    <3>2. CASE c # a
      <4>1. i \in DOMAIN At(SeenHosts, m).idle /\ At(SeenHosts, m).idle[i] = c
        BY <2>10, <3>2, Zenon
      <4>2. j \in DOMAIN At(SeenHosts, k).idle /\ At(SeenHosts, k).idle[j] = c
        BY <2>10, <3>2, Zenon
      <4> QED  BY <2>7, <4>1, <4>2 DEF IdleOnce
    <3> QED  BY <3>1, <3>2, Zenon
  <2>13. \A c \in Requests : conn'[c] = "h1" /\ conn[c] # "h1" =>
           NotIdle(c, U) /\ \A s \in Requests : ~Holds(s, c)
    BY <2>3, Zenon
  <2>14. \A c \in Requests : conn'[c] = "h1" /\ Holds(r, c)' =>
           NotIdle(c, U) /\ \A s \in Requests : s # r => ~Holds(s, c)
    BY <2>3, Zenon
  <2>15. ASSUME NEW c \in Requests, NEW s \in Requests, conn[c] = "h1", s # r, Holds(s, c)
         PROVE  NotIdle(c, U)
    <3>1. c # a
      BY <2>2, <2>8, <2>15, Zenon DEF HeldOnce
    <3>2. NotIdle(c, SeenHosts)
      BY <2>7, <2>8, <2>15, Zenon DEF HeldNotIdle
    <3> QED  BY <2>11, <3>1, <3>2, Zenon
  <2> QED  BY <2>3, <2>4, <2>12, <2>13, <2>14, <2>15, <1>OnceBy, Zenon
<1>1. ASSUME NEW r \in Requests, By(r), Shrinks, conn' = conn, pc'[r] \notin Holding
      PROVE  OnceInv'
  <2>1. \A c \in Requests : Holds(r, c)' => Holds(r, c)
    BY <1>1, Zenon DEF Holds
  <2> QED  BY <1>1, <2>1, <1>OnceShrink, Zenon
<1>2. ASSUME NEW r \in Requests, NEW t, NEW P, NEW w, Searching(r, t, P, w)
      PROVE  OnceInv'
  <2>1. By(r) /\ Shrinks /\ conn' = conn /\ t \in TaskType
    BY <1>2, SearchesBy, SearchingIs, Zenon DEF Turn
  <2>2. CASE Finds(r, t)
    BY <2>1, <2>2, <1>OnceFound, Zenon
  <2>3. CASE Parks(r, t)
    <3>1. pc'[r] \in {"h1_wait", "dial_wait"}
      BY <2>3, ParkedIs, Zenon
    <3> QED  BY <1>1, <2>1, <3>1, Zenon DEF Holding
  <2> QED  BY <1>2, <2>2, <2>3, Zenon DEF Searching
<1>3. ASSUME NEW r \in Requests, Over(r), Kept \/ Unlistens(r)
      PROVE  OnceInv'
  <2>1. Shrinks /\ conn' = conn /\ pc'[r] = "done"
    BY <1>3, Zenon DEF Over, Goes, Kept, Unlistens
  <2> QED  BY <1>1, <1>3, <2>1, OverBy, Zenon DEF Holding
<1>4. ASSUME NEW r \in Requests, Over(r), Returns(r)
      PROVE  OnceInv'
  BY <1>4, <1>OnceReturns, Zenon
<1>5. ASSUME NEW r \in Requests,
             TakesSlot(r) \/ Dials(r) \/ Awaits(r) \/ GetsPermit(r) \/ Negotiates(r)
      PROVE  OnceInv'
  <2>1. By(r) /\ conn' = conn /\ pc'[r] \notin Holding
    BY <1>5, WaitersBy, Zenon DEF Waiting, Holding
  <2>2. Shrinks
    BY <1>5, Zenon DEF TakesSlot, Dials, Awaits, GetsPermit, Negotiates, Kept, Unlistens
  <2> QED  BY <1>1, <2>1, <2>2, Zenon
<1>6. ASSUME NEW r \in Requests, ConnectsH1(r) \/ ConnectsH2(r)
      PROVE  OnceInv'
  BY <1>6, <1>OnceConnects, Zenon
<1>7. ASSUME NEW r \in Requests, Responds(r) \/ BodyEnds(r)
      PROVE  OnceInv'
  <2>1. By(r) /\ conn' = conn /\ pc[r] \in Holding /\ task'[r] = task[r]
    BY <1>7, AnswersBy, Zenon
  <2>2. Shrinks
    BY <1>7, Zenon DEF Responds, BodyEnds, Kept
  <2>3. \A c \in Requests : Holds(r, c)' => Holds(r, c)
    BY <2>1, Zenon DEF Holds
  <2> QED  BY <2>1, <2>2, <2>3, <1>OnceShrink, Zenon
<1>8. ASSUME NEW c \in Requests, ConnEnds(c)
      PROVE  OnceInv'
  <2>1. By(c) /\ conn'[c] = "none" /\ pc' = pc /\ task' = task /\ Shrinks
    BY <1>8, ConnEndsBy, Zenon DEF ConnEnds, Kept
  <2>2. \A s \in Requests : conn'[s] = "h1" => conn[s] = "h1"
    BY <2>1, Zenon DEF By
  <2>3. \A s \in Requests : Holds(c, s)' => Holds(c, s)
    BY <2>1, Zenon DEF Holds
  <2> QED  BY <2>1, <2>2, <2>3, <1>OnceShrink, Zenon
<1>9. ASSUME Quiet, Shrinks
      PROVE  OnceInv'
  <2>1. PICK r : r \in Requests
    BY PoolAssumption, Zenon
  <2>2. By(r) /\ pc' = pc /\ task' = task /\ conn' = conn
    BY <1>9, <2>1, QuietBy, Zenon
  <2>3. \A c \in Requests : Holds(r, c)' => Holds(r, c)
    BY <2>2, Zenon DEF Holds
  <2> QED  BY <1>9, <2>2, <2>3, <1>OnceShrink, Zenon
<1> QED  BY <1>2, <1>3, <1>4, <1>5, <1>6, <1>7, <1>8, <1>9, Zenon DEF Kinds, Reaps, Kept

-----------------------------------------------------------------------------
(* Who holds permits. *)

\* A request that has not dialled and does not connect holds no dial lock.
LEMMA NoLock ==
  ASSUME Inv, NEW r \in Requests, pc[r] \notin {"connect", "h2_connect"}
  PROVE  \A h \in Hosts : dialing[h] # r
BY Zenon DEF Inv, PermitsInv, PermitAt

LEMMA PermitsNext ==
  ASSUME Inv, Kinds
  PROVE  PermitsInv'
<1>PermitsBy. ASSUME NEW r, By(r), PermitAt(r)',
                     \A s \in Requests : s # r => (s \in global' <=> s \in global),
                     \A s \in Requests : s # r => (s \in slots' <=> s \in slots),
                     \A s \in Requests : s # r => \A h \in Hosts : dialing'[h] = s => dialing[h] = s
              PROVE  PermitsInv'
  <2> USE <1>PermitsBy
  <2> SUFFICES ASSUME NEW s \in Requests, s # r
               PROVE  PermitAt(s)'
    BY Zenon DEF PermitsInv
  <2>1. pc'[s] = pc[s] /\ conn'[s] = conn[s] /\ target' = target
    BY Zenon DEF By, Moves
  <2>2. PermitAt(s)
    BY Zenon DEF Inv, PermitsInv
  <2> QED  BY <2>1, <2>2, Zenon DEF PermitAt, Open
<1>UnlockedIs. ASSUME NEW r \in Requests, dialing' = Unlocked(r)
               PROVE  /\ \A h \in Hosts : dialing'[h] # r
                      /\ \A s \in Requests : s # r => \A h \in Hosts : dialing'[h] = s => dialing[h] = s
  <2> USE <1>UnlockedIs
  <2>1. \A h \in Hosts : dialing'[h] = IF dialing[h] = r THEN None ELSE dialing[h]
    BY Zenon DEF Unlocked
  <2> QED  BY <2>1, Constants, Zenon
<1>1. \A s \in Requests : PermitAt(s)
  BY Zenon DEF Inv, PermitsInv
<1>2. ASSUME NEW r \in Requests, NEW t, NEW P, NEW w, Searching(r, t, P, w)
      PROVE  PermitsInv'
  <2>1. By(r) /\ Turn(r, t, P, w)
    BY <1>2, SearchesBy, SearchingIs, Zenon
  <2>2. /\ ~Open(r)' /\ r \notin slots' /\ slots' = slots /\ dialing' = dialing
        /\ t \in TaskType /\ (P = global \/ P = global \union {r})
        /\ \A h \in Hosts : dialing'[h] # r
    BY <2>1, NoLock, NotDialedIs, Zenon DEF Turn, Open
  <2>3. CASE Finds(r, t) /\ global' = P \ {r}
    <3>1. pc'[r] = "send"
      BY <2>2, <2>3, FoundIs, Zenon
    <3>2. PermitAt(r)'
      BY <2>2, <2>3, <3>1, Zenon DEF PermitAt
    <3>3. \A s \in Requests : s # r => (s \in global' <=> s \in global)
      BY <2>2, <2>3, Zenon
    <3> QED  BY <2>1, <2>2, <3>2, <3>3, <1>PermitsBy, Zenon
  <2>4. CASE Parks(r, t) /\ global' = P
    <3>1. pc'[r] \in {"h1_wait", "dial_wait"}
      BY <2>4, ParkedIs, Zenon
    <3>2. PermitAt(r)'
      BY <2>2, <3>1, Zenon DEF PermitAt
    <3>3. \A s \in Requests : s # r => (s \in global' <=> s \in global)
      BY <2>2, <2>4, Zenon
    <3> QED  BY <2>1, <2>2, <3>2, <3>3, <1>PermitsBy, Zenon
  <2> QED  BY <1>2, <2>3, <2>4, Zenon DEF Searching
<1>3. ASSUME NEW r \in Requests, Over(r)
      PROVE  PermitsInv'
  <2>1. /\ By(r) /\ pc'[r] = "done" /\ conn' = conn /\ dialing' = Unlocked(r)
        /\ global' = (IF Open(r) THEN global ELSE global \ {r})
        /\ slots' = (IF Open(r) THEN slots ELSE slots \ {r})
    BY <1>3, OverBy, Zenon DEF Over, Goes
  <2>2. Open(r) => pc[r] \notin Waiting
    BY NotDialed, Zenon DEF Inv, RequestsInv, RequestAt
  <2>3. r \in slots' => conn[r] = "h1"
    BY <1>1, <2>1, <2>2, Zenon DEF PermitAt, Waiting
  <2>4. PermitAt(r)'
    BY <1>1, <2>1, <2>3, <1>UnlockedIs, Zenon DEF PermitAt, Open
  <2>5. \A s \in Requests : s # r => (s \in global' <=> s \in global) /\ (s \in slots' <=> s \in slots)
    BY <2>1, Zenon
  <2> QED  BY <2>1, <2>4, <2>5, <1>UnlockedIs, <1>PermitsBy, Zenon
<1>4. ASSUME NEW r \in Requests, TakesSlot(r)
      PROVE  PermitsInv'
  <2>1. By(r) /\ conn' = conn /\ pc[r] \in Waiting
    BY <1>4, WaitersBy, Zenon
  <2>2. /\ pc[r] = "h1_wait" /\ pc'[r] = (IF r \in global THEN "connect" ELSE "permit_wait")
        /\ slots' = slots \union {r} /\ global' = global /\ dialing' = dialing
    BY <1>4, Zenon DEF TakesSlot, Goes
  <2>3. ~Open(r)'
    BY <2>1, NotDialed, NotDialedIs, Zenon DEF Open
  <2>4. PermitAt(r)'
    BY <2>2, <2>3, NoLock, Zenon DEF PermitAt
  <2> QED  BY <2>1, <2>2, <2>4, <1>PermitsBy, Zenon
<1>5. ASSUME NEW r \in Requests, Dials(r)
      PROVE  PermitsInv'
  <2>1. By(r) /\ conn' = conn /\ pc[r] \in Waiting /\ target' = target /\ target[r] \in Hosts
    BY <1>5, WaitersBy, WaitingHost, Zenon DEF By
  <2>2. /\ pc[r] = "dial_wait" /\ pc'[r] = "connect" /\ global' = global \union {r}
        /\ slots' = slots \/ slots' = slots \union {r}
        /\ dialing' = [dialing EXCEPT ![target[r]] = r]
    BY <1>5, Zenon DEF Dials, Goes
  <2>3. \A h \in Hosts : dialing'[h] = IF h = target[r] THEN r ELSE dialing[h]
    BY <2>1, <2>2, TypesNow, Zenon
  <2>4. PermitAt(r)'
    BY <2>1, <2>2, <2>3, NoLock, Zenon DEF PermitAt
  <2>5. \A s \in Requests : s # r => \A h \in Hosts : dialing'[h] = s => dialing[h] = s
    BY <2>3, Zenon
  <2>6. \A s \in Requests : s # r => (s \in global' <=> s \in global) /\ (s \in slots' <=> s \in slots)
    <3>1. slots' = slots \/ slots' = slots \union {r}
      BY <2>2, Zenon
    <3>2. \A s \in Requests : s # r => (s \in slots' <=> s \in slots)
      BY <3>1
    <3>3. \A s \in Requests : s # r => (s \in global' <=> s \in global)
      BY <2>2, Zenon
    <3> QED  BY <3>2, <3>3, Zenon
  <2> QED  BY <2>1, <2>4, <2>5, <2>6, <1>PermitsBy, Zenon
<1>6. ASSUME NEW r \in Requests, Awaits(r)
      PROVE  PermitsInv'
  <2>1. By(r) /\ conn' = conn /\ pc[r] \in Waiting
    BY <1>6, WaitersBy, Zenon
  <2>2. /\ pc[r] = "dial_wait" /\ pc'[r] = "permit_wait" /\ r \notin global
        /\ slots' = slots /\ global' = global /\ dialing' = dialing
    BY <1>6, Zenon DEF Awaits, Goes
  <2>3. ~Open(r)'
    BY <2>1, NotDialed, NotDialedIs, Zenon DEF Open
  <2>4. PermitAt(r)'
    BY <2>2, <2>3, NoLock, Zenon DEF PermitAt
  <2> QED  BY <2>1, <2>2, <2>4, <1>PermitsBy, Zenon
<1>7. ASSUME NEW r \in Requests, GetsPermit(r)
      PROVE  PermitsInv'
  <2>1. By(r) /\ conn' = conn
    BY <1>7, WaitersBy, Zenon
  <2>2. /\ pc[r] = "permit_wait" /\ pc'[r] = "connect" /\ global' = global \union {r}
        /\ slots' = slots /\ dialing' = dialing
    BY <1>7, Zenon DEF GetsPermit, Goes
  <2>3. PermitAt(r)'
    BY <2>2, NoLock, Zenon DEF PermitAt
  <2>4. \A s \in Requests : s # r => (s \in global' <=> s \in global)
    BY <2>2, Zenon
  <2> QED  BY <2>1, <2>2, <2>3, <2>4, <1>PermitsBy, Zenon
<1>8. ASSUME NEW r \in Requests, Negotiates(r)
      PROVE  PermitsInv'
  <2>1. By(r) /\ conn' = conn /\ target' = target
    BY <1>8, WaitersBy, Zenon DEF By
  <2>2. /\ pc[r] = "connect" /\ pc'[r] = "h2_connect" /\ global' = global
        /\ slots' = slots \ {r} /\ dialing' = dialing
    BY <1>8, Zenon DEF Negotiates, Goes
  <2>3. PermitAt(r)'
    BY <1>1, <2>1, <2>2, Zenon DEF PermitAt
  <2>4. \A s \in Requests : s # r => (s \in slots' <=> s \in slots)
    BY <2>2, Zenon
  <2> QED  BY <2>1, <2>2, <2>3, <2>4, <1>PermitsBy, Zenon
<1>9. ASSUME NEW r \in Requests, ConnectsH1(r) \/ ConnectsH2(r)
      PROVE  PermitsInv'
  <2>1. By(r) /\ pc[r] \in Waiting /\ pc'[r] = "send" /\ conn'[r] \in Protocols
    BY <1>9, ConnectsBy, Zenon
  <2>2. global' = global /\ slots' = slots /\ dialing' = Unlocked(r)
    BY <1>9, Zenon DEF ConnectsH1, ConnectsH2, Connected
  <2>3. r \in global
    BY <1>1, <1>9, Zenon DEF PermitAt, ConnectsH1, ConnectsH2
  <2>4. r \in slots => conn'[r] = "h1"
    <3>1. CASE ConnectsH1(r)
      BY <3>1, TypesNow, Zenon DEF ConnectsH1, Connected
    <3>2. CASE ConnectsH2(r)
      <4>1. conn[r] # "h1"
        BY <2>1, NotDialed, NotDialedIs, Zenon
      <4>2. pc[r] = "h2_connect"
        BY <3>2, Zenon DEF ConnectsH2
      <4> QED  BY <1>1, <4>1, <4>2, Zenon DEF PermitAt
    <3> QED  BY <1>9, <3>1, <3>2, Zenon
  <2>5. PermitAt(r)'
    BY <2>1, <2>2, <2>3, <2>4, <1>UnlockedIs, Zenon DEF PermitAt, Open
  <2> QED  BY <2>1, <2>2, <2>5, <1>UnlockedIs, <1>PermitsBy, Zenon
<1>10. ASSUME NEW r \in Requests, Responds(r) \/ BodyEnds(r)
       PROVE  PermitsInv'
  <2>1. By(r) /\ conn' = conn /\ pc[r] \in Holding /\ pc'[r] \in {"body", "return"}
    BY <1>10, AnswersBy, Zenon
  <2>2. slots' = slots /\ global' = global /\ dialing' = dialing
    BY <1>10, Zenon DEF Responds, BodyEnds
  <2>3. PermitAt(r)'
    BY <1>1, <2>1, <2>2, NoLock, Zenon DEF PermitAt, Open, Holding
  <2> QED  BY <2>1, <2>2, <2>3, <1>PermitsBy, Zenon
<1>11. ASSUME NEW c \in Requests, ConnEnds(c)
       PROVE  PermitsInv'
  <2>1. By(c) /\ pc' = pc /\ conn'[c] = "none" /\ target' = target
    BY <1>11, ConnEndsBy, Zenon DEF By
  <2>2. Open(c) /\ global' = global \ {c} /\ slots' = slots \ {c} /\ dialing' = dialing
    BY <1>11, Zenon DEF ConnEnds
  <2>3. pc[c] \notin Waiting
    BY <2>2, NotDialed, Zenon DEF Inv, RequestsInv, RequestAt
  <2>4. PermitAt(c)'
    BY <1>1, <2>1, <2>2, <2>3, Zenon DEF PermitAt, Open, Protocols, Waiting
  <2>5. \A s \in Requests : s # c => (s \in global' <=> s \in global) /\ (s \in slots' <=> s \in slots)
    BY <2>2, Zenon
  <2> QED  BY <2>1, <2>2, <2>4, <2>5, <1>PermitsBy, Zenon
<1>12. ASSUME Quiet
       PROVE  PermitsInv'
  BY <1>1, <1>12, Zenon DEF Quiet, PermitsInv, PermitAt, Open
<1> QED  BY <1>2, <1>3, <1>4, <1>5, <1>6, <1>7, <1>8, <1>9, <1>10, <1>11, <1>12, Zenon
         DEF Kinds, Reaps

-----------------------------------------------------------------------------
(* The limits of the semaphores. *)

LEMMA CardLess ==
  ASSUME Counts, NEW S, S \subseteq Requests, NEW T, T \subseteq S
  PROVE  /\ Cardinality(S) \in Nat /\ Cardinality(T) \in Nat
         /\ Cardinality(T) <= Cardinality(S)
<1>1. S \in SUBSET Requests /\ T \in SUBSET S
  BY Zenon
<1> QED  BY <1>1, Zenon DEF Counts

LEMMA CardFits ==
  ASSUME Counts, NEW S, S \subseteq Requests, NEW T, T \subseteq S, NEW n \in Nat, Cardinality(S) <= n
  PROVE  Cardinality(T) <= n
<1>1. Cardinality(T) <= Cardinality(S) /\ Cardinality(T) \in Nat /\ Cardinality(S) \in Nat
  BY CardLess, Zenon
<1> QED  BY <1>1

LEMMA LimitsNext ==
  ASSUME Counts, Inv, Kinds
  PROVE  LimitsInv'
<1>CardMore. ASSUME NEW S, S \subseteq Requests, NEW r \in Requests, NEW T, T \subseteq S \union {r}
             PROVE  Cardinality(T) <= Cardinality(S) + 1 /\ Cardinality(T) \in Nat /\ Cardinality(S) \in Nat
  <2> USE <1>CardMore
  <2>1. S \in SUBSET Requests /\ S \union {r} \subseteq Requests
    BY Zenon
  <2>2. Cardinality(S) \in Nat /\ Cardinality(S \union {r}) <= Cardinality(S) + 1
    BY <2>1, Zenon DEF Counts
  <2>3. /\ Cardinality(T) <= Cardinality(S \union {r})
        /\ Cardinality(T) \in Nat /\ Cardinality(S \union {r}) \in Nat
    BY <2>1, CardLess, Zenon
  <2> QED  BY <2>2, <2>3
<1>CardRoom. ASSUME NEW S, S \subseteq Requests, NEW r \in Requests, NEW T, T \subseteq S \union {r},
                    NEW n \in Nat, Cardinality(S) < n
             PROVE  Cardinality(T) <= n
  <2> USE <1>CardRoom
  <2>1. Cardinality(T) <= Cardinality(S) + 1 /\ Cardinality(T) \in Nat /\ Cardinality(S) \in Nat
    BY <1>CardMore, Zenon
  <2> QED  BY <2>1
\* A permit or a slot is taken only where one is left.
<1>LimitsBy. ASSUME NEW r \in Requests, target' = target,
                    global' \subseteq global \/ (global' \subseteq global \union {r} /\ PermitLeft),
                    slots' \subseteq slots \/ (slots' \subseteq slots \union {r} /\ SlotLeft(target[r]))
             PROVE  LimitsInv'
  <2> USE <1>LimitsBy
  <2>1. global \subseteq Requests /\ slots \subseteq Requests
    BY TypesNow, Zenon
  <2>2. MAX_CONNECTIONS \in Nat /\ MAX_H1_PER_HOST \in Nat
    BY Constants
  <2>3. /\ Cardinality(global) <= MAX_CONNECTIONS
        /\ \A h \in Hosts : Cardinality({s \in slots : target[s] = h}) <= MAX_H1_PER_HOST
    BY Zenon DEF Inv, LimitsInv
  <2>4. Cardinality(global') <= MAX_CONNECTIONS
    <3>1. CASE global' \subseteq global
      BY <2>1, <2>2, <2>3, <3>1, CardFits, Zenon
    <3>2. CASE global' \subseteq global \union {r} /\ PermitLeft
      BY <2>1, <2>2, <3>2, <1>CardRoom, Zenon DEF PermitLeft
    <3> QED  BY <3>1, <3>2, Zenon
  <2>5. ASSUME NEW h \in Hosts
        PROVE  Cardinality({s \in slots' : target'[s] = h}) <= MAX_H1_PER_HOST
    <3> DEFINE S == {s \in slots : target[s] = h}
               T == {s \in slots' : target'[s] = h}
    <3>1. S \subseteq Requests
      BY <2>1, Zenon
    <3>2. CASE T \subseteq S
      <4>1. Cardinality(S) <= MAX_H1_PER_HOST
        BY <2>3, Zenon
      <4> HIDE DEF S, T
      <4>2. Cardinality(T) <= MAX_H1_PER_HOST
        BY <2>2, <3>1, <3>2, <4>1, CardFits, Zenon
      <4> QED  BY <4>2, Zenon DEF T
    <3>3. CASE slots' \subseteq slots \union {r} /\ SlotLeft(target[r]) /\ target[r] = h
      <4>1. Cardinality(S) < MAX_H1_PER_HOST
        BY <3>3, Zenon DEF SlotLeft
      <4>2. T \subseteq S \union {r}
        BY <3>3, Zenon
      <4> HIDE DEF S, T
      <4>3. Cardinality(T) <= MAX_H1_PER_HOST
        BY <2>2, <3>1, <4>1, <4>2, <1>CardRoom, Zenon
      <4> QED  BY <4>3, Zenon DEF T
    <3>4. CASE slots' \subseteq slots \union {r} /\ target[r] # h
      <4>1. T \subseteq S
        BY <3>4, Zenon
      <4> QED  BY <3>2, <4>1, Zenon
    <3>5. CASE slots' \subseteq slots
      <4>1. T \subseteq S
        BY <3>5, Zenon
      <4> QED  BY <3>2, <4>1, Zenon
    <3> QED  BY <3>3, <3>4, <3>5, Zenon
  <2> QED  BY <2>4, <2>5, Zenon DEF LimitsInv
<1>1. ASSUME NEW r \in Requests, NEW t, NEW P, NEW w, Searching(r, t, P, w)
      PROVE  LimitsInv'
  <2>1. /\ target' = target /\ slots' = slots
        /\ P = global \/ (P = global \union {r} /\ PermitLeft)
        /\ global' = P \ {r} \/ global' = P
    <3>1. Turn(r, t, P, w) /\ (global' = P \ {r} \/ global' = P)
      BY <1>1, SearchingIs, Zenon
    <3> QED  BY <3>1, Zenon DEF Turn
  <2>2. global' \subseteq global \/ (global' \subseteq global \union {r} /\ PermitLeft)
    BY <2>1, Zenon
  <2> QED  BY <2>1, <2>2, <1>LimitsBy, Zenon
<1>2. ASSUME NEW r \in Requests, Over(r)
      PROVE  LimitsInv'
  <2>1. target' = target /\ global' \subseteq global /\ slots' \subseteq slots
    BY <1>2, Zenon DEF Over
  <2> QED  BY <2>1, <1>LimitsBy, Zenon
<1>3. ASSUME NEW r \in Requests, TakesSlot(r)
      PROVE  LimitsInv'
  <2>1. target' = target /\ global' = global /\ slots' = slots \union {r} /\ SlotLeft(target[r])
    BY <1>3, Zenon DEF TakesSlot, Alone
  <2> QED  BY <2>1, <1>LimitsBy, Zenon
<1>4. ASSUME NEW r \in Requests, Dials(r)
      PROVE  LimitsInv'
  <2>1. /\ target' = target /\ global' = global \union {r} /\ (r \in global \/ PermitLeft)
        /\ slots' = (IF SlotLeft(target[r]) THEN slots \union {r} ELSE slots)
    BY <1>4, Zenon DEF Dials, Alone
  <2>2. global' \subseteq global \/ (global' \subseteq global \union {r} /\ PermitLeft)
    BY <2>1, Zenon
  <2>3. slots' \subseteq slots \/ (slots' \subseteq slots \union {r} /\ SlotLeft(target[r]))
    BY <2>1, Zenon
  <2> QED  BY <2>1, <2>2, <2>3, <1>LimitsBy, Zenon
<1>5. ASSUME NEW r \in Requests, GetsPermit(r)
      PROVE  LimitsInv'
  <2>1. target' = target /\ global' = global \union {r} /\ PermitLeft /\ slots' = slots
    BY <1>5, Zenon DEF GetsPermit, Alone
  <2> QED  BY <2>1, <1>LimitsBy, Zenon
<1>6. ASSUME target' = target, global' \subseteq global, slots' \subseteq slots
      PROVE  LimitsInv'
  <2>1. PICK r : r \in Requests
    BY PoolAssumption, Zenon
  <2> QED  BY <1>6, <2>1, <1>LimitsBy, Zenon
<1>7. ASSUME NEW r \in Requests,
             Awaits(r) \/ ConnectsH1(r) \/ ConnectsH2(r) \/ Responds(r) \/ BodyEnds(r)
      PROVE  LimitsInv'
  <2>1. target' = target /\ global' = global /\ slots' = slots
    BY <1>7, Zenon DEF Awaits, ConnectsH1, ConnectsH2, Connected, Responds, BodyEnds, Alone
  <2> QED  BY <1>6, <2>1, Zenon
<1>8. ASSUME NEW r \in Requests, Negotiates(r) \/ ConnEnds(r)
      PROVE  LimitsInv'
  <2>1. target' = target /\ global' \subseteq global /\ slots' \subseteq slots
    BY <1>8, Zenon DEF Negotiates, ConnEnds, Alone
  <2> QED  BY <1>6, <2>1, Zenon
<1>9. ASSUME Quiet
      PROVE  LimitsInv'
  BY <1>6, <1>9, Zenon DEF Quiet
<1> QED  BY <1>1, <1>2, <1>3, <1>4, <1>5, <1>7, <1>8, <1>9, Zenon DEF Kinds, Reaps

-----------------------------------------------------------------------------
(* Origins that speak HTTP/1.1 only. *)

LEMMA H1Now ==
  ASSUME Inv, NEW h, H1Only(h)
  PROVE  At(hosts, h).protocol \in {"h1", "unknown"} /\ At(hosts, h).h2 = None
<1>1. At(hosts, h).protocol \in Protocols \union {"unknown"}
  <2>1. At(hosts, h) \in HostType
    BY AtIs, Zenon DEF Inv, Types, H1Only
  <2> QED  BY <2>1, HostFields, Zenon
<1>2. At(hosts, h).protocol # "h2" /\ At(hosts, h).h2 = None
  BY Zenon DEF Inv, H1Inv, H1Only
<1> QED  BY <1>1, <1>2, Zenon DEF Protocols

\* What hosts() returns has the protocols of now.
LEMMA SeenKept ==
  ASSUME Inv, NEW h \in Hosts
  PROVE  /\ At(SeenHosts, h).protocol = At(hosts, h).protocol
         /\ At(SeenHosts, h).ready = At(hosts, h).ready
         /\ At(SeenHosts, h).h2 = None \/ At(SeenHosts, h).h2 = At(hosts, h).h2
         /\ Sub(At(SeenHosts, h).idle, At(hosts, h).idle)
BY SeenPools, Zenon DEF KeepAll, Keeps, Narrows

LEMMA H1Next ==
  ASSUME Counts, Inv, Kinds
  PROVE  H1Inv'
\* A step that keeps the protocols and narrows the pools.
<1>H1Kept. ASSUME Inv, \A h \in Hosts : At(hosts', h).protocol = At(hosts, h).protocol,
                  \A h \in Hosts : At(hosts', h).h2 = None \/ At(hosts', h).h2 = At(hosts, h).h2
           PROVE  H1Tables
  BY <1>H1Kept, H1Now, Zenon DEF H1Tables, H1Only
<1>H1Stays. ASSUME NEW h, Shrinks, StaysBut(h)
            PROVE  H1Tables
  <2> USE <1>H1Stays
  <2>1. \A k \in Hosts : At(hosts', k).protocol = At(hosts, k).protocol
    BY Zenon DEF StaysBut
  <2>2. \A k \in Hosts : At(hosts', k).h2 = None \/ At(hosts', k).h2 = At(hosts, k).h2
    BY Zenon DEF Shrinks, NarrowAll, Narrows
  <2> QED  BY <2>1, <2>2, <1>H1Kept, Zenon
<1>H1Keeps. ASSUME Kept
            PROVE  H1Tables
  <2> USE <1>H1Keeps
  <2>1. StaysBut(None) /\ Shrinks
    BY KeptStays, Zenon DEF Kept
  <2> QED  BY <2>1, <1>H1Stays, Zenon
<1>H1By. ASSUME NEW r, By(r), H1Tables,
                r \in DOMAIN target /\ H1Only(target[r]) => H1At(r)',
                \A s \in Requests : s # r => (s \in slots' <=> s \in slots),
                \A s \in Requests : s # r => \A h \in Hosts : dialing[h] = s => dialing'[h] = s
         PROVE  H1Inv'
  <2> USE <1>H1By
  <2>1. target' = target
    BY Zenon DEF By
  <2>2. \A h \in Hosts : Offers[h] = {"h1"} =>
          At(hosts', h).protocol # "h2" /\ At(hosts', h).h2 = None
    BY Zenon DEF H1Tables
  <2>3. ASSUME NEW s \in DOMAIN target, Offers[target[s]] = {"h1"}
        PROVE  H1At(s)'
    <3>1. s \in Requests /\ target[s] \in Hosts
      BY TargetIn, Zenon DEF Inv
    <3>2. CASE s = r
      BY <2>3, <3>1, <3>2, Zenon DEF H1Only
    <3>3. CASE s # r
      <4>1. /\ pc'[s] = pc[s] /\ task'[s] = task[s] /\ conn'[s] = conn[s]
            /\ s \in slots' <=> s \in slots
        BY <3>1, <3>3, Zenon DEF By, Moves
      <4>2. At(hosts', target[s]).protocol = "unknown" => At(hosts, target[s]).protocol = "unknown"
        BY <2>3, <3>1, Zenon DEF H1Tables
      <4>3. dialing[target[s]] = s => dialing'[target[s]] = s
        BY <3>1, <3>3, Zenon
      <4>4. H1At(s)
        BY <2>3, Zenon DEF Inv, H1Inv
      <4> QED  BY <2>1, <4>1, <4>2, <4>3, <4>4, Zenon DEF H1At
    <3> QED  BY <3>2, <3>3, Zenon
  <2> QED  BY <2>1, <2>2, <2>3, Zenon DEF H1Inv
<1>UnlockedKeeps. ASSUME NEW r, dialing' = Unlocked(r)
                  PROVE  \A s \in Requests : s # r => \A h \in Hosts : dialing[h] = s => dialing'[h] = s
  BY <1>UnlockedKeeps, Zenon DEF Unlocked
\* While an HTTP/1.1 origin's protocol is unknown and nobody dials, it has all
\* of its slots.
<1>SlotsLeft. ASSUME NEW h, H1Only(h), At(hosts, h).protocol = "unknown", dialing[h] = None
              PROVE  SlotLeft(h)
  <2> USE <1>SlotsLeft
  <2>1. ASSUME NEW s \in slots, target[s] = h
        PROVE  FALSE
    <3>1. s \in Requests
      BY TypesNow, Zenon
    <3>2. conn[s] = "h1" \/ pc[s] \in {"permit_wait", "connect"}
      BY <2>1, <3>1, Zenon DEF Inv, PermitsInv, PermitAt
    <3>3. pc[s] # "new"
      BY <3>1, <3>2, NotDialed, NotDialedIs, Zenon
    <3>4. s \in DOMAIN target
      BY <3>1, <3>3, Zenon DEF Inv, RequestsInv, RequestAt
    <3>5. H1At(s)
      BY <2>1, <3>4, Zenon DEF Inv, H1Inv, H1Only
    <3>6. dialing[h] = s
      BY <2>1, <3>5, Zenon DEF H1At
    <3> QED  BY <3>1, <3>6, Constants, Zenon
  <2>2. {s \in slots : target[s] = h} = {}
    BY <2>1, Zenon
  <2>3. Cardinality({s \in slots : target[s] = h}) = 0
    BY <2>2, Zenon DEF Counts
  <2>4. MAX_H1_PER_HOST > 0
    BY Constants
  <2> QED  BY <2>3, <2>4 DEF SlotLeft
<1>H1Connects. ASSUME NEW r \in Requests, ConnectsH1(r)
               PROVE  H1Tables
  <2> USE <1>H1Connects
  <2>1. target[r] \in Hosts
    BY ConnectsBy, WaitingHost, Zenon
  <2>2. PICK k \in Hosts : k = target[r]
    BY <2>1, Zenon
  <2>3. /\ OnlyAt(hosts', SeenHosts, k) /\ At(hosts', k).protocol = "h1"
        /\ At(hosts', k).h2 = At(SeenHosts, k).h2
    BY <2>2, Zenon DEF ConnectsH1, Connected
  <2>4. ASSUME NEW h \in Hosts, Offers[h] = {"h1"}
        PROVE  /\ At(hosts', h).protocol # "h2" /\ At(hosts', h).h2 = None
               /\ At(hosts', h).protocol = "unknown" => At(hosts, h).protocol = "unknown"
    <3>1. At(hosts, h).protocol # "h2" /\ At(hosts, h).h2 = None
      BY <2>4, H1Now, Zenon DEF H1Only
    <3>2. At(SeenHosts, h).protocol = At(hosts, h).protocol /\ At(SeenHosts, h).h2 = None
      BY <3>1, SeenKept, Zenon
    <3>3. CASE h = k
      BY <2>3, <3>2, <3>3, Zenon
    <3>4. CASE h # k
      BY <2>3, <3>1, <3>2, <3>4, Zenon DEF OnlyAt
    <3> QED  BY <3>3, <3>4, Zenon
  <2> QED  BY <2>4, Zenon DEF H1Tables
<1>H1Returns. ASSUME NEW r \in Requests, Over(r), Returns(r)
              PROVE  H1Tables
  <2> USE <1>H1Returns
  <2>1. PICK k \in Hosts : k = target[r]
    BY ReturnsIs, Zenon
  <2>2. /\ OnlyAt(hosts', SeenHosts, k) /\ At(hosts', k).protocol = At(SeenHosts, k).protocol
        /\ At(hosts', k).h2 = At(SeenHosts, k).h2
    BY <2>1, Zenon DEF Returns
  <2>3. ASSUME NEW h \in Hosts
        PROVE  /\ At(hosts', h).protocol = At(SeenHosts, h).protocol
               /\ At(hosts', h).h2 = At(SeenHosts, h).h2
    BY <2>2, Zenon DEF OnlyAt
  <2>4. \A h \in Hosts : At(hosts', h).protocol = At(hosts, h).protocol
    BY <2>3, SeenKept, Zenon
  <2>5. \A h \in Hosts : At(hosts', h).h2 = None \/ At(hosts', h).h2 = At(hosts, h).h2
    BY <2>3, SeenKept, Zenon
  <2> QED  BY <2>4, <2>5, <1>H1Kept, Zenon
<1>H1Searching. ASSUME NEW r \in Requests, NEW t, NEW P, NEW w, Searching(r, t, P, w)
                PROVE  H1Inv'
  <2> USE <1>H1Searching
  <2>1. By(r) /\ Turn(r, t, P, w) /\ Shrinks /\ StaysBut(target[r])
    BY SearchesBy, SearchingIs, Zenon
  <2>2. H1Tables
    BY <2>1, <1>H1Stays, Zenon
  <2>3. /\ target' = target /\ r \notin slots' /\ slots' = slots /\ dialing' = dialing
        /\ conn'[r] # "h1" /\ t \in TaskType
    BY <2>1, NotDialedIs, Zenon DEF Turn
  <2>4. ASSUME r \in DOMAIN target, H1Only(target[r])
        PROVE  H1At(r)'
    <3>1. CASE Finds(r, t)
      <4>1. pc'[r] = "send"
        BY <2>3, <3>1, FoundIs, Zenon
      <4> QED  BY <2>3, <4>1, Zenon DEF H1At
    <3>2. CASE Parks(r, t)
      <4>1. At(hosts, target[r]).protocol \in {"h1", "unknown"}
        BY <2>4, H1Now, Zenon
      <4>2. At(hosts', target[r]).protocol = At(hosts, target[r]).protocol
        BY <2>1, <2>4, Zenon DEF StaysBut, H1Only
      <4>3. /\ pc'[r] = IF At(hosts, target[r]).protocol = "h1" THEN "h1_wait" ELSE "dial_wait"
            /\ task'[r].protocol = At(hosts, target[r]).protocol
        BY <3>2, ParkedIs, Zenon
      <4> QED  BY <2>3, <4>1, <4>2, <4>3, Zenon DEF H1At
    <3> QED  BY <3>1, <3>2, Zenon DEF Searching
  <2> QED  BY <2>1, <2>2, <2>3, <2>4, <1>H1By, Zenon
<1>H1Over. ASSUME NEW r \in Requests, Over(r), Kept \/ Unlistens(r) \/ Returns(r)
           PROVE  H1Inv'
  <2> USE <1>H1Over
  <2>1. H1Tables
    BY <1>H1Keeps, <1>H1Stays, <1>H1Returns, Zenon DEF Unlistens
  <2>2. /\ By(r) /\ pc'[r] = "done" /\ conn' = conn /\ dialing' = Unlocked(r) /\ target' = target
        /\ slots' = (IF Open(r) THEN slots ELSE slots \ {r})
    BY OverBy, Zenon DEF Over, Goes
  <2>3. ASSUME r \in DOMAIN target, H1Only(target[r])
        PROVE  H1At(r)'
    <3>1. H1At(r)
      BY <2>3, Zenon DEF Inv, H1Inv, H1Only
    <3>2. conn'[r] = "h1" => r \in slots'
      BY <2>2, <3>1, Zenon DEF H1At, Open, Protocols
    <3>3. ASSUME At(hosts', target[r]).protocol = "unknown"
          PROVE  r \notin slots'
      <4>1. At(hosts, target[r]).protocol = "unknown"
        BY <2>1, <2>3, <3>3, Zenon DEF H1Tables, H1Only
      <4>2. r \in slots => pc[r] \in {"connect", "h2_connect"}
        BY <2>3, <3>1, <4>1, NoLock, Zenon DEF H1At, H1Only
      <4>3. pc[r] \in {"connect", "h2_connect"} => ~Open(r)
        BY NotDialed, NotDialedIs, Zenon DEF Waiting
      <4> QED  BY <2>2, <4>2, <4>3, Zenon
    <3> QED  BY <2>2, <3>2, <3>3, Zenon DEF H1At
  <2>4. \A s \in Requests : s # r => (s \in slots' <=> s \in slots)
    BY <2>2, Zenon
  <2> QED  BY <2>1, <2>2, <2>3, <2>4, <1>UnlockedKeeps, <1>H1By, Zenon
<1>H1TakesSlot. ASSUME NEW r \in Requests, TakesSlot(r)
                PROVE  H1Inv'
  <2> USE <1>H1TakesSlot
  <2>1. /\ By(r) /\ pc[r] = "h1_wait" /\ slots' = slots \union {r} /\ dialing' = dialing
        /\ pc'[r] \in {"connect", "permit_wait"} /\ target' = target
    BY WaitersBy, Zenon DEF TakesSlot, Goes, By
  <2>2. H1Tables
    BY <1>H1Stays, Zenon DEF TakesSlot, Unlistens
  <2>3. ASSUME r \in DOMAIN target, H1Only(target[r])
        PROVE  H1At(r)'
    <3>1. H1At(r)
      BY <2>3, Zenon DEF Inv, H1Inv, H1Only
    <3>2. At(hosts', target[r]).protocol # "unknown"
      BY <2>1, <2>2, <2>3, <3>1, Zenon DEF H1Tables, H1At, H1Only
    <3> QED  BY <2>1, <3>2, Zenon DEF H1At
  <2>4. \A s \in Requests : s # r => (s \in slots' <=> s \in slots)
    BY <2>1, Zenon
  <2> QED  BY <2>1, <2>2, <2>3, <2>4, <1>H1By, Zenon
<1>H1Dials. ASSUME NEW r \in Requests, Dials(r)
            PROVE  H1Inv'
  <2> USE <1>H1Dials
  <2>1. By(r) /\ target' = target /\ r \in DOMAIN target /\ target[r] \in Hosts
    BY WaitersBy, WaitingHost, Zenon DEF By
  <2>2. /\ pc[r] = "dial_wait" /\ pc'[r] = "connect" /\ dialing[target[r]] = None
        /\ task[r].protocol = "unknown" => At(hosts, target[r]).protocol # "h1"
        /\ dialing' = [dialing EXCEPT ![target[r]] = r]
        /\ slots' = (IF SlotLeft(target[r]) THEN slots \union {r} ELSE slots)
    BY Zenon DEF Dials, Goes
  <2>3. H1Tables
    BY <1>H1Keeps, Zenon DEF Dials
  <2>4. \A h \in Hosts : dialing'[h] = IF h = target[r] THEN r ELSE dialing[h]
    BY <2>1, <2>2, TypesNow, Zenon
  <2>5. ASSUME H1Only(target[r])
        PROVE  H1At(r)'
    <3>1. task[r].protocol = "unknown"
      BY <2>1, <2>2, <2>5, Zenon DEF Inv, H1Inv, H1Only, H1At
    <3>2. At(hosts, target[r]).protocol = "unknown"
      BY <2>2, <2>5, <3>1, H1Now, Zenon
    <3>3. SlotLeft(target[r])
      BY <2>2, <2>5, <3>2, <1>SlotsLeft, Zenon
    <3>4. r \in slots'
      BY <2>2, <3>3, Zenon
    <3> QED  BY <2>1, <2>2, <2>4, <3>4, Zenon DEF H1At
  <2>6. \A s \in Requests : s # r => (s \in slots' <=> s \in slots)
    <3>1. slots' = slots \/ slots' = slots \union {r}
      BY <2>2, Zenon
    <3> QED  BY <3>1
  <2>7. \A s \in Requests : s # r => \A h \in Hosts : dialing[h] = s => dialing'[h] = s
    BY <2>2, <2>4, Constants, Zenon
  <2> QED  BY <2>1, <2>3, <2>5, <2>6, <2>7, <1>H1By, Zenon
<1>H1Reaps. ASSUME Reaps
            PROVE  H1Inv'
  <2> USE <1>H1Reaps
  <2>1. /\ target' = target /\ pc' = pc /\ task' = task /\ conn' = conn /\ slots' = slots
        /\ dialing' = dialing
    BY Zenon DEF Reaps, Quiet
  <2>2. ASSUME NEW h \in Hosts, h \notin DOMAIN hosts'
        PROVE  /\ At(hosts', h).protocol # "h2" /\ At(hosts', h).h2 = None
               /\ h \in DOMAIN hosts \/ At(hosts', h) = At(hosts, h)
    <3>1. At(hosts', h) = NewHost(h)
      BY <2>2, Zenon DEF At
    <3>2. NewHost(h).protocol # "h2" /\ NewHost(h).h2 = None
      BY NewHostIs, Zenon
    <3>3. h \notin DOMAIN hosts => At(hosts, h) = NewHost(h)
      BY Zenon DEF At
    <3> QED  BY <3>1, <3>2, <3>3
  <2>3. ASSUME NEW h \in Hosts, h \in DOMAIN hosts'
        PROVE  /\ At(hosts', h).protocol = At(hosts, h).protocol
               /\ At(hosts', h).h2 = None \/ At(hosts', h).h2 = At(hosts, h).h2
    BY <2>3, Zenon DEF Reaps, Keeps, Narrows
  <2>4. \A h \in Hosts : Offers[h] = {"h1"} =>
          At(hosts', h).protocol # "h2" /\ At(hosts', h).h2 = None
    BY <2>2, <2>3, H1Now, Zenon DEF H1Only
  <2>5. ASSUME NEW s \in DOMAIN target, Offers[target[s]] = {"h1"}
        PROVE  H1At(s)'
    <3>1. s \in Requests /\ target[s] \in Hosts /\ H1At(s)
      BY <2>5, TargetIn, Zenon DEF Inv, H1Inv
    <3>2. CASE target[s] \in DOMAIN hosts' \/ target[s] \notin DOMAIN hosts
      <4>1. At(hosts', target[s]).protocol = At(hosts, target[s]).protocol
        BY <2>2, <2>3, <3>1, <3>2, Zenon
      <4> QED  BY <2>1, <3>1, <4>1, Zenon DEF H1At
    <3>3. CASE target[s] \notin DOMAIN hosts' /\ target[s] \in DOMAIN hosts
      <4>1. s \notin slots /\ pc[s] \notin Waiting
        BY <2>5, <3>3, Zenon DEF Reaps
      <4> QED  BY <2>1, <3>1, <4>1, Zenon DEF H1At, Waiting
    <3> QED  BY <3>2, <3>3, Zenon
  <2> QED  BY <2>1, <2>4, <2>5, Zenon DEF H1Inv
<1>1. \A s \in Requests : s \in DOMAIN target /\ H1Only(target[s]) => H1At(s)
  BY Zenon DEF Inv, H1Inv, H1Only
<1>2. ASSUME NEW r \in Requests, Awaits(r)
      PROVE  H1Inv'
  <2>1. By(r) /\ conn' = conn /\ H1Tables
    BY <1>2, WaitersBy, <1>H1Keeps, Zenon DEF Awaits
  <2>2. pc[r] = "dial_wait" /\ pc'[r] = "permit_wait" /\ slots' = slots /\ dialing' = dialing
    BY <1>2, Zenon DEF Awaits, Goes
  <2>3. r \notin slots /\ conn[r] # "h1"
    <3>1. conn[r] # "h1"
      BY <2>2, NotDialed, NotDialedIs, Zenon DEF Waiting
    <3> QED  BY <2>2, <3>1, Zenon DEF Inv, PermitsInv, PermitAt
  <2>4. H1At(r)'
    BY <2>1, <2>2, <2>3, Zenon DEF H1At
  <2> QED  BY <2>1, <2>2, <2>4, <1>H1By, Zenon
<1>3. ASSUME NEW r \in Requests, GetsPermit(r)
      PROVE  H1Inv'
  <2>1. By(r) /\ target' = target /\ H1Tables
    BY <1>3, WaitersBy, <1>H1Keeps, Zenon DEF GetsPermit, By
  <2>2. /\ pc[r] = "permit_wait" /\ pc'[r] = "connect" /\ slots' = slots /\ dialing' = dialing
        /\ r \in slots
    BY <1>3, Zenon DEF GetsPermit, Goes
  <2>3. ASSUME r \in DOMAIN target, H1Only(target[r])
        PROVE  H1At(r)'
    <3>1. At(hosts, target[r]).protocol # "unknown"
      BY <1>1, <2>2, <2>3, NoLock, ZenonT(40) DEF H1At, H1Only
    <3>2. At(hosts', target[r]).protocol # "unknown"
      BY <2>1, <2>3, <3>1, Zenon DEF H1Tables, H1Only
    <3> QED  BY <2>1, <2>2, <3>2, Zenon DEF H1At
  <2> QED  BY <2>1, <2>2, <2>3, <1>H1By, Zenon
<1>4. ASSUME NEW r \in Requests, Negotiates(r)
      PROVE  H1Inv'
  <2>1. By(r) /\ H1Tables
    BY <1>4, WaitersBy, <1>H1Keeps, Zenon DEF Negotiates
  <2>2. slots' = slots \ {r} /\ dialing' = dialing /\ ~H1Only(target[r])
    BY <1>4, Zenon DEF Negotiates, H1Only
  <2>3. \A s \in Requests : s # r => (s \in slots' <=> s \in slots)
    BY <2>2, Zenon
  <2> QED  BY <2>1, <2>2, <2>3, <1>H1By, Zenon
<1>5. ASSUME NEW r \in Requests, ConnectsH1(r)
      PROVE  H1Inv'
  <2>1. By(r) /\ pc'[r] = "send" /\ target' = target /\ H1Tables
    BY <1>5, ConnectsBy, <1>H1Connects, Zenon DEF By
  <2>2. /\ pc[r] = "connect" /\ slots' = slots /\ dialing' = Unlocked(r)
        /\ At(hosts', target[r]).protocol = "h1"
    BY <1>5, Zenon DEF ConnectsH1, Connected
  <2>3. ASSUME r \in DOMAIN target, H1Only(target[r])
        PROVE  H1At(r)'
    BY <1>1, <2>1, <2>2, <2>3, Zenon DEF H1At
  <2> QED  BY <2>1, <2>2, <2>3, <1>UnlockedKeeps, <1>H1By, Zenon
<1>6. ASSUME NEW r \in Requests, ConnectsH2(r)
      PROVE  H1Inv'
  <2>1. By(r) /\ r \in DOMAIN target /\ target[r] \in Hosts
    BY <1>6, ConnectsBy, WaitingHost, Zenon
  <2>2. PICK k \in Hosts : k = target[r]
    BY <2>1, Zenon
  <2>3. /\ OnlyAt(hosts', SeenHosts, k) /\ slots' = slots /\ dialing' = Unlocked(r)
        /\ pc[r] = "h2_connect"
    BY <1>6, <2>2, Zenon DEF ConnectsH2, Connected
  <2>4. ~H1Only(k)
    BY <1>1, <2>1, <2>2, <2>3, Zenon DEF H1At
  <2>5. ASSUME NEW h \in Hosts, Offers[h] = {"h1"}
        PROVE  /\ At(hosts', h).protocol # "h2" /\ At(hosts', h).h2 = None
               /\ At(hosts', h).protocol = "unknown" => At(hosts, h).protocol = "unknown"
    <3>1. At(hosts', h) = At(SeenHosts, h)
      BY <2>3, <2>4, <2>5, Zenon DEF OnlyAt, H1Only
    <3>2. At(hosts, h).protocol # "h2" /\ At(hosts, h).h2 = None
      BY <2>5, H1Now, Zenon DEF H1Only
    <3>3. /\ At(SeenHosts, h).protocol = At(hosts, h).protocol
          /\ At(SeenHosts, h).h2 = None \/ At(SeenHosts, h).h2 = At(hosts, h).h2
      BY SeenKept, Zenon
    <3> QED  BY <3>1, <3>2, <3>3, Zenon
  <2>6. H1Tables
    BY <2>5, Zenon DEF H1Tables
  <2> QED  BY <2>1, <2>2, <2>3, <2>4, <2>6, <1>UnlockedKeeps, <1>H1By, Zenon
<1>7. ASSUME NEW r \in Requests, Responds(r) \/ BodyEnds(r)
      PROVE  H1Inv'
  <2>1. By(r) /\ conn' = conn /\ pc'[r] \in {"body", "return"} /\ target' = target
    BY <1>7, AnswersBy, Zenon DEF By
  <2>2. slots' = slots /\ dialing' = dialing /\ H1Tables
    BY <1>7, <1>H1Keeps, Zenon DEF Responds, BodyEnds
  <2>3. ASSUME r \in DOMAIN target, H1Only(target[r])
        PROVE  H1At(r)'
    <3>1. At(hosts', target[r]).protocol = "unknown" => At(hosts, target[r]).protocol = "unknown"
      BY <2>2, <2>3, Zenon DEF H1Tables, H1Only
    <3> QED  BY <1>1, <2>1, <2>2, <2>3, <3>1, Zenon DEF H1At
  <2> QED  BY <2>1, <2>2, <2>3, <1>H1By, Zenon
<1>8. ASSUME NEW c \in Requests, ConnEnds(c)
      PROVE  H1Inv'
  <2>1. By(c) /\ pc' = pc /\ task' = task /\ conn'[c] = "none" /\ target' = target
    BY <1>8, ConnEndsBy, Zenon DEF By
  <2>2. Open(c) /\ slots' = slots \ {c} /\ dialing' = dialing /\ H1Tables
    BY <1>8, <1>H1Keeps, Zenon DEF ConnEnds
  <2>3. pc[c] \notin Waiting
    BY <2>2, NotDialed, Zenon DEF Inv, RequestsInv, RequestAt
  <2>4. H1At(c)'
    BY <2>1, <2>2, <2>3, Zenon DEF H1At, Waiting
  <2>5. \A s \in Requests : s # c => (s \in slots' <=> s \in slots)
    BY <2>2, Zenon
  <2> QED  BY <2>1, <2>2, <2>4, <2>5, <1>H1By, Zenon
<1>9. CASE Quiet /\ Kept
  <2>1. PICK r : r \in Requests
    BY PoolAssumption, Zenon
  <2>2. By(r) /\ pc' = pc /\ task' = task /\ conn' = conn /\ H1Tables
    BY <1>9, <2>1, QuietBy, <1>H1Keeps, Zenon
  <2>3. slots' = slots /\ dialing' = dialing /\ target' = target
    BY <1>9, Zenon DEF Quiet
  <2>4. ASSUME r \in DOMAIN target, H1Only(target[r])
        PROVE  H1At(r)'
    <3>1. At(hosts', target[r]).protocol = "unknown" => At(hosts, target[r]).protocol = "unknown"
      BY <2>2, <2>4, Zenon DEF H1Tables, H1Only
    <3> QED  BY <1>1, <2>1, <2>2, <2>3, <2>4, <3>1, Zenon DEF H1At
  <2> QED  BY <2>2, <2>3, <2>4, <1>H1By, Zenon
<1> QED  BY <1>2, <1>3, <1>4, <1>5, <1>6, <1>7, <1>8, <1>9, <1>H1Searching, <1>H1Over, <1>H1TakesSlot,
            <1>H1Dials, <1>H1Reaps, Zenon DEF Kinds

-----------------------------------------------------------------------------
(* Wake-ups. *)

\* The numbers of idle connections, wake-ups and requests that wait.
LEMMA Numbers ==
  ASSUME NEW T, Table(T), NEW h \in Hosts
  PROVE  /\ At(T, h).idle \in Seq(Requests) /\ Len(At(T, h).idle) \in Nat
         /\ At(T, h).ready \in Nat
<1>1. At(T, h).idle \in Seq(Requests) /\ At(T, h).ready \in Nat
  BY AtIs, HostFields, Zenon
<1>2. Len(At(T, h).idle) \in Nat
  BY <1>1
<1> QED  BY <1>1, <1>2, Zenon

LEMMA WakeNext ==
  ASSUME Counts, Inv, Kinds
  PROVE  WakeInv'
<1>WakeNow. ASSUME NEW h, H1Only(h)
            PROVE  WokenAt(h)
  BY <1>WakeNow, Zenon DEF Inv, WakeInv, H1Only, WokenAt, Woken
<1>WakeThen. ASSUME \A h \in Hosts : Offers[h] = {"h1"} => WokenAt(h)'
             PROVE  WakeInv'
  BY <1>WakeThen, Zenon DEF WakeInv, WokenAt, Woken
\* Who listens after a step of r that leaves it elsewhere.
<1>ListensLess. ASSUME NEW r, By(r), pc'[r] # "h1_wait" \/ task'[r].fresh_only, NEW h
                PROVE  Listening(h)' = Listening(h) \ {r}
  <2> USE <1>ListensLess
  <2>1. ASSUME NEW s \in Requests, s # r
        PROVE  s \in Listening(h)' <=> s \in Listening(h)
    BY <2>1, Zenon DEF By, Moves, Listening
  <2>2. r \notin Listening(h)'
    BY Zenon DEF Listening
  <2>3. \A s : s \in Listening(h)' \/ s \in Listening(h) => s \in Requests
    BY Zenon DEF Listening
  <2> QED  BY <2>1, <2>2, <2>3, Zenon
<1>ListensOther. ASSUME NEW r, By(r), NEW h, target[r] # h
                 PROVE  Listening(h)' \subseteq Listening(h)
  BY <1>ListensOther, Zenon DEF By, Moves, Listening
<1>ListensSame. ASSUME pc' = pc, task' = task, target' = target, NEW h
                PROVE  Listening(h)' \subseteq Listening(h)
  BY <1>ListensSame, Zenon DEF Listening
<1>Listeners. ASSUME NEW h, Listening(h)' \subseteq Listening(h)
              PROVE  /\ Cardinality(Listening(h))' \in Nat /\ Cardinality(Listening(h)) \in Nat
                     /\ Cardinality(Listening(h))' <= Cardinality(Listening(h))
  <2> USE <1>Listeners
  <2>1. Listening(h) \subseteq Requests
    BY Zenon DEF Listening
  <2> QED  BY <2>1, CardLess, Zenon
<1>WokenLess. ASSUME NEW q \in Nat, NEW n \in Nat, NEW m \in Nat, NEW p \in Nat, NEW k \in Nat,
                     Woken(q, n, m), p <= q, k <= m
              PROVE  Woken(p, n, k)
  BY <1>WokenLess DEF Woken
\* An origin that loses idle connections or listeners, but no wake-up.
<1>WakeKept. ASSUME NEW h, H1Only(h), Table(hosts'), Listening(h)' \subseteq Listening(h),
                    Len(At(hosts', h).idle) <= Len(At(hosts, h).idle),
                    At(hosts', h).ready = At(hosts, h).ready
             PROVE  WokenAt(h)'
  <2> USE <1>WakeKept
  <2>1. /\ Cardinality(Listening(h))' \in Nat /\ Cardinality(Listening(h)) \in Nat
        /\ Cardinality(Listening(h))' <= Cardinality(Listening(h))
    BY <1>Listeners, Zenon
  <2>2. /\ Len(At(hosts, h).idle) \in Nat /\ At(hosts, h).ready \in Nat
        /\ Len(At(hosts', h).idle) \in Nat
    BY Numbers, Zenon DEF Inv, Types, H1Only
  <2>3. Woken(Len(At(hosts, h).idle), At(hosts, h).ready, Cardinality(Listening(h)))
    BY <1>WakeNow, Zenon DEF WokenAt
  <2>4. Woken(Len(At(hosts', h).idle), At(hosts, h).ready, Cardinality(Listening(h))')
    BY <2>1, <2>2, <2>3, <1>WokenLess, Zenon
  <2> QED  BY <2>4, Zenon DEF WokenAt
<1>KeepsLen. ASSUME NEW h \in Hosts, Keeps(At(hosts', h), At(hosts, h))
             PROVE  Len(At(hosts', h).idle) <= Len(At(hosts, h).idle) /\ At(hosts', h).ready = At(hosts, h).ready
  BY <1>KeepsLen, Zenon DEF Keeps, Narrows, Sub
<1>WakeKeeps. ASSUME Kept, \A h \in Hosts : Listening(h)' \subseteq Listening(h)
              PROVE  WakeInv'
  <2> USE <1>WakeKeeps
  <2>1. ASSUME NEW h \in Hosts, Offers[h] = {"h1"}
        PROVE  WokenAt(h)'
    <3>1. Keeps(At(hosts', h), At(hosts, h)) /\ Table(hosts')
      BY Zenon DEF Kept, KeepAll, Shrinks
    <3>2. H1Only(h)
      BY <2>1, Zenon DEF H1Only
    <3> QED  BY <3>1, <3>2, <1>KeepsLen, <1>WakeKept, Zenon
  <2> QED  BY <2>1, <1>WakeThen, Zenon
\* Only the wake-ups of the origin r is for change.
<1>WakeBut. ASSUME NEW r, By(r), Shrinks, StaysBut(target[r]),
                   \A h \in Hosts : H1Only(h) /\ h = target[r] => WokenAt(h)'
            PROVE  WakeInv'
  <2> USE <1>WakeBut
  <2>1. ASSUME NEW h \in Hosts, Offers[h] = {"h1"}, h # target[r]
        PROVE  WokenAt(h)'
    <3>1. Keeps(At(hosts', h), At(hosts, h)) /\ Table(hosts')
      BY <2>1, Zenon DEF StaysBut, Shrinks
    <3>2. H1Only(h) /\ Listening(h)' \subseteq Listening(h)
      BY <2>1, <1>ListensOther, Zenon DEF H1Only
    <3> QED  BY <3>1, <3>2, <1>KeepsLen, <1>WakeKept, Zenon
  <2> QED  BY <2>1, <1>WakeThen, Zenon DEF H1Only
<1>ShrinksLen. ASSUME Shrinks, NEW h \in Hosts
               PROVE  Len(At(hosts', h).idle) <= Len(At(hosts, h).idle) /\ Table(hosts')
  BY <1>ShrinksLen, Zenon DEF Shrinks, NarrowAll, Narrows, Sub
\* A wake-up is used up by a request that waited for it and takes a connection.
<1>WakeSearching. ASSUME NEW r \in Requests, NEW t, NEW P, NEW w, Searching(r, t, P, w)
                  PROVE  WakeInv'
  <2> USE <1>WakeSearching
  <2>1. By(r) /\ Turn(r, t, P, w) /\ Shrinks /\ StaysBut(target[r])
    BY SearchesBy, SearchingIs, Zenon
  <2>2. ASSUME NEW h \in Hosts, H1Only(h), h = target[r]
        PROVE  WokenAt(h)'
    <3>1. Len(At(hosts', h).idle) <= Len(At(hosts, h).idle) /\ Table(hosts')
      BY <2>1, <1>ShrinksLen, Zenon
    <3>2. At(hosts', h).ready = At(hosts, h).ready - w /\ t \in TaskType
      BY <2>1, <2>2, Zenon DEF Searching, TurnsPools, Turn
    <3>3. At(hosts, h).h2 = None
      BY <2>2, H1Now, Zenon
    <3>4. /\ Len(At(hosts, h).idle) \in Nat /\ At(hosts, h).ready \in Nat
          /\ Len(At(hosts', h).idle) \in Nat /\ At(hosts', h).ready \in Nat
      BY <3>1, Numbers, Zenon DEF Inv, Types
    <3>5. CASE At(hosts', h).idle = <<>>
      <4>1. Len(At(hosts', h).idle) = 0
        BY <3>5
      <4> QED  BY <4>1, Zenon DEF WokenAt, Woken
    <3>6. CASE /\ At(hosts', h).idle # <<>> /\ w = 0
      <4>1. pc'[r] # "h1_wait" \/ task'[r].fresh_only
        BY <2>2, <3>2, <3>6, FoundIs, ParkedIs, Zenon DEF Searching
      <4>2. Listening(h)' \subseteq Listening(h)
        BY <2>1, <4>1, <1>ListensLess, Zenon
      <4>3. At(hosts', h).ready = At(hosts, h).ready
        BY <3>2, <3>4, <3>6
      <4> QED  BY <2>2, <3>1, <4>2, <4>3, <1>WakeKept, Zenon
    <3>7. CASE At(hosts', h).idle # <<>> /\ w # 0
      <4>1. w = 1 /\ r \in Listening(h) /\ ~t.fresh_only
        BY <2>1, <2>2, <3>7, Zenon DEF Turn
      <4>2. Finds(r, t)
        BY <2>2, <3>7, <4>1, ParkedIs, Zenon DEF Searching
      <4>3. pc'[r] = "send" /\ Len(At(hosts', h).idle) < Len(At(hosts, h).idle)
        BY <2>2, <3>2, <3>3, <4>2, FoundIs, Zenon
      <4>4. Listening(h)' = Listening(h) \ {r}
        BY <2>1, <4>3, <1>ListensLess, Zenon
      <4>5. Listening(h) \in SUBSET Requests /\ Listening(h) \ {r} \in SUBSET Listening(h)
        BY Zenon DEF Listening
      <4>6. Cardinality(Listening(h) \ {r}) = Cardinality(Listening(h)) - 1
        BY <4>1, <4>5, Zenon DEF Counts
      <4>7. Cardinality(Listening(h) \ {r}) \in Nat /\ Cardinality(Listening(h)) \in Nat
        BY <4>5, Zenon DEF Counts
      <4>8. At(hosts', h).ready = At(hosts, h).ready - 1
        BY <3>2, <4>1, Zenon
      <4>9. Woken(Len(At(hosts, h).idle), At(hosts, h).ready, Cardinality(Listening(h)))
        BY <2>2, <1>WakeNow, Zenon DEF WokenAt
      <4>10. Woken(Len(At(hosts', h).idle), At(hosts', h).ready, Cardinality(Listening(h) \ {r}))
        BY <3>4, <4>3, <4>6, <4>7, <4>8, <4>9 DEF Woken
      <4> QED  BY <4>4, <4>10, Zenon DEF WokenAt
    <3> QED  BY <3>5, <3>6, <3>7, Zenon
  <2> QED  BY <2>1, <2>2, <1>WakeBut, Zenon
<1>WokenPasses. ASSUME NEW q \in Nat, NEW n \in Nat, NEW m \in Nat, NEW p \in Nat, NEW k \in Nat,
                       Woken(q, n, m), p <= q, k <= m
                PROVE  Woken(p, Least(n, k + 1), k)
  BY <1>WokenPasses DEF Woken, Least
\* A request that leaves passes its wake-up on.
<1>WakeUnlistens. ASSUME NEW r \in Requests, By(r), pc'[r] # "h1_wait", Unlistens(r)
                  PROVE  WakeInv'
  <2> USE <1>WakeUnlistens
  <2>1. /\ Shrinks /\ StaysBut(target[r])
        /\ At(hosts', target[r]).ready =
             Least(At(hosts, target[r]).ready, Cardinality(Listening(target[r]) \ {r}) + 1)
    BY Zenon DEF Unlistens
  <2>2. ASSUME NEW h \in Hosts, H1Only(h), h = target[r]
        PROVE  WokenAt(h)'
    <3>1. Len(At(hosts', h).idle) <= Len(At(hosts, h).idle) /\ Table(hosts')
      BY <2>1, <1>ShrinksLen, Zenon
    <3>2. /\ Len(At(hosts, h).idle) \in Nat /\ At(hosts, h).ready \in Nat
          /\ Len(At(hosts', h).idle) \in Nat
      BY <3>1, Numbers, Zenon DEF Inv, Types
    <3>3. Listening(h)' = Listening(h) \ {r}
      BY <1>ListensLess, Zenon
    <3>4. /\ Cardinality(Listening(h)') \in Nat /\ Cardinality(Listening(h)) \in Nat
          /\ Cardinality(Listening(h)') <= Cardinality(Listening(h))
      <4>1. Listening(h)' \subseteq Listening(h)
        BY <3>3, Zenon
      <4> QED  BY <4>1, <1>Listeners, Zenon
    <3>5. Woken(Len(At(hosts, h).idle), At(hosts, h).ready, Cardinality(Listening(h)))
      BY <2>2, <1>WakeNow, Zenon DEF WokenAt
    <3>6. At(hosts', h).ready = Least(At(hosts, h).ready, Cardinality(Listening(h)') + 1)
      BY <2>1, <2>2, <3>3, Zenon
    <3>7. Woken(Len(At(hosts', h).idle),
                Least(At(hosts, h).ready, Cardinality(Listening(h)') + 1),
                Cardinality(Listening(h)'))
      BY <3>1, <3>2, <3>4, <3>5, <1>WokenPasses, Zenon
    <3> QED  BY <3>6, <3>7, Zenon DEF WokenAt
  <2> QED  BY <2>1, <2>2, <1>WakeBut, Zenon
<1>WokenMore. ASSUME NEW q \in Nat, NEW n \in Nat, NEW m \in Nat, NEW p \in Nat, NEW k \in Nat,
                     Woken(q, n, m), p <= q + 1, k <= m
              PROVE  Woken(p, Least(n + 1, m + 1), k)
  BY <1>WokenMore DEF Woken, Least
\* What is given back brings a wake-up.
<1>WakeReturns. ASSUME NEW r \in Requests, Over(r), Returns(r)
                PROVE  WakeInv'
  <2> USE <1>WakeReturns
  <2>1. By(r) /\ pc'[r] = "done"
    BY OverBy, Zenon DEF Over, Goes
  <2>2. PICK k \in Hosts : k = target[r]
    BY ReturnsIs, Zenon
  <2>3. PICK a \in Requests : a = task[r].using
    BY ReturnsIs, Zenon
  <2>4. /\ Table(hosts') /\ OnlyAt(hosts', SeenHosts, k)
        /\ At(hosts', k).idle = Append(At(SeenHosts, k).idle, a)
        /\ At(hosts', k).ready = Least(At(SeenHosts, k).ready + 1, Cardinality(Listening(k)) + 1)
    BY <2>2, <2>3, Zenon DEF Returns
  <2>5. ASSUME NEW h \in Hosts, Offers[h] = {"h1"}
        PROVE  WokenAt(h)'
    <3>1. /\ At(SeenHosts, h).ready = At(hosts, h).ready
          /\ Len(At(SeenHosts, h).idle) <= Len(At(hosts, h).idle)
      BY SeenKept, Zenon DEF Sub
    <3>2. H1Only(h) /\ Listening(h)' \subseteq Listening(h)
      BY <2>1, <2>5, <1>ListensLess, Zenon DEF H1Only
    <3>3. CASE h # k
      <4>1. At(hosts', h) = At(SeenHosts, h)
        BY <2>4, <3>3, Zenon DEF OnlyAt
      <4> QED  BY <2>4, <3>1, <3>2, <4>1, <1>WakeKept, Zenon
    <3>4. CASE h = k
      <4>1. /\ Len(At(hosts, h).idle) \in Nat /\ At(hosts, h).ready \in Nat
            /\ Len(At(hosts', h).idle) \in Nat
        BY <2>4, Numbers, Zenon DEF Inv, Types
      <4>2. At(SeenHosts, h).idle \in Seq(Requests)
        BY SeenPools, Numbers, Zenon
      <4>3. Len(At(hosts', h).idle) <= Len(At(hosts, h).idle) + 1
        <5>1. PICK q \in Seq(Requests) : q = At(SeenHosts, h).idle
          BY <4>2, Zenon
        <5>2. Len(Append(q, a)) = Len(q) + 1
          OBVIOUS
        <5>3. Len(At(hosts', h).idle) = Len(q) + 1 /\ Len(q) <= Len(At(hosts, h).idle)
          BY <2>4, <3>1, <3>4, <5>1, <5>2, Zenon
        <5>4. Len(q) \in Nat
          OBVIOUS
        <5> QED  BY <4>1, <5>3, <5>4
      <4>4. /\ Cardinality(Listening(h)') \in Nat /\ Cardinality(Listening(h)) \in Nat
            /\ Cardinality(Listening(h)') <= Cardinality(Listening(h))
        BY <3>2, <1>Listeners, Zenon
      <4>5. Woken(Len(At(hosts, h).idle), At(hosts, h).ready, Cardinality(Listening(h)))
        BY <3>2, <1>WakeNow, Zenon DEF WokenAt
      <4>6. Woken(Len(At(hosts', h).idle),
                  Least(At(hosts, h).ready + 1, Cardinality(Listening(h)) + 1),
                  Cardinality(Listening(h)'))
        BY <4>1, <4>3, <4>4, <4>5, <1>WokenMore, Zenon
      <4>7. At(hosts', h).ready = Least(At(hosts, h).ready + 1, Cardinality(Listening(h)) + 1)
        BY <2>4, <3>1, <3>4, Zenon
      <4> QED  BY <4>6, <4>7, Zenon DEF WokenAt
    <3> QED  BY <3>3, <3>4, Zenon
  <2> QED  BY <2>5, <1>WakeThen, Zenon
<1>WakeConnects. ASSUME NEW r \in Requests, ConnectsH1(r) \/ ConnectsH2(r)
                 PROVE  WakeInv'
  <2> USE <1>WakeConnects
  <2>1. By(r) /\ pc'[r] = "send" /\ target[r] \in Hosts
    BY ConnectsBy, WaitingHost, Zenon
  <2>2. /\ Table(hosts') /\ OnlyAt(hosts', SeenHosts, target[r])
        /\ At(hosts', target[r]).idle = At(SeenHosts, target[r]).idle
        /\ At(hosts', target[r]).ready = At(SeenHosts, target[r]).ready
    BY Zenon DEF ConnectsH1, ConnectsH2, Connected
  <2>3. ASSUME NEW h \in Hosts, Offers[h] = {"h1"}
        PROVE  WokenAt(h)'
    <3>1. At(hosts', h).idle = At(SeenHosts, h).idle /\ At(hosts', h).ready = At(SeenHosts, h).ready
      BY <2>2, Zenon DEF OnlyAt
    <3>2. /\ At(SeenHosts, h).ready = At(hosts, h).ready
          /\ Len(At(SeenHosts, h).idle) <= Len(At(hosts, h).idle)
      BY SeenKept, Zenon DEF Sub
    <3>3. H1Only(h) /\ Listening(h)' \subseteq Listening(h)
      BY <2>1, <2>3, <1>ListensLess, Zenon DEF H1Only
    <3>4. Len(At(hosts', h).idle) <= Len(At(hosts, h).idle) /\ At(hosts', h).ready = At(hosts, h).ready
      BY <3>1, <3>2, Zenon
    <3> QED  BY <2>2, <3>3, <3>4, <1>WakeKept, Zenon
  <2> QED  BY <2>3, <1>WakeThen, Zenon
<1>WakeReaps. ASSUME Reaps
              PROVE  WakeInv'
  <2> USE <1>WakeReaps
  <2>1. ASSUME NEW h \in Hosts, Offers[h] = {"h1"}
        PROVE  WokenAt(h)'
    <3>1. CASE h \in DOMAIN hosts'
      <4>1. Keeps(At(hosts', h), At(hosts, h)) /\ Table(hosts')
        BY <3>1, Zenon DEF Reaps, Shrinks
      <4>2. H1Only(h) /\ Listening(h)' \subseteq Listening(h)
        BY <2>1, <1>ListensSame, Zenon DEF H1Only, Reaps, Quiet
      <4> QED  BY <4>1, <4>2, <1>KeepsLen, <1>WakeKept, Zenon
    <3>2. CASE h \notin DOMAIN hosts'
      <4>1. At(hosts', h).idle = <<>>
        BY <3>2, NewHostIs, Zenon DEF At
      <4>2. Len(At(hosts', h).idle) = 0
        BY <4>1
      <4> QED  BY <4>2, Zenon DEF WokenAt, Woken
    <3> QED  BY <3>1, <3>2, Zenon
  <2> QED  BY <2>1, <1>WakeThen, Zenon
<1>1. ASSUME NEW r \in Requests, By(r), pc'[r] # "h1_wait", Kept
      PROVE  WakeInv'
  <2>1. \A h \in Hosts : Listening(h)' \subseteq Listening(h)
    BY <1>1, <1>ListensLess, Zenon
  <2> QED  BY <1>1, <2>1, <1>WakeKeeps, Zenon
<1>2. ASSUME NEW r \in Requests, Over(r), Kept
      PROVE  WakeInv'
  BY <1>1, <1>2, OverBy, Zenon DEF Over, Goes
<1>3. ASSUME NEW r \in Requests, Over(r), Unlistens(r)
      PROVE  WakeInv'
  <2>1. By(r) /\ pc'[r] # "h1_wait"
    BY <1>3, OverBy, Zenon DEF Over, Goes
  <2> QED  BY <1>3, <2>1, <1>WakeUnlistens, Zenon
<1>4. ASSUME NEW r \in Requests, TakesSlot(r)
      PROVE  WakeInv'
  <2>1. By(r) /\ pc'[r] # "h1_wait" /\ Unlistens(r)
    BY <1>4, WaitersBy, Zenon DEF TakesSlot, Goes
  <2> QED  BY <2>1, <1>WakeUnlistens, Zenon
<1>5. ASSUME NEW r \in Requests, Dials(r) \/ Awaits(r) \/ GetsPermit(r) \/ Negotiates(r)
      PROVE  WakeInv'
  <2>1. By(r)
    BY <1>5, WaitersBy, Zenon
  <2>2. pc'[r] # "h1_wait" /\ Kept
    BY <1>5, Zenon DEF Dials, Awaits, GetsPermit, Negotiates, Goes
  <2> QED  BY <1>1, <2>1, <2>2, Zenon
<1>6. ASSUME NEW r \in Requests, Responds(r) \/ BodyEnds(r)
      PROVE  WakeInv'
  <2>1. By(r)
    BY <1>6, AnswersBy, Zenon
  <2>2. pc'[r] # "h1_wait" /\ Kept
    BY <1>6, Zenon DEF Responds, BodyEnds, Goes
  <2> QED  BY <1>1, <2>1, <2>2, Zenon
<1>7. ASSUME Kept, pc' = pc, task' = task, target' = target
      PROVE  WakeInv'
  <2>1. \A h \in Hosts : Listening(h)' \subseteq Listening(h)
    BY <1>7, <1>ListensSame, Zenon
  <2> QED  BY <1>7, <2>1, <1>WakeKeeps, Zenon
<1>8. ASSUME NEW c \in Requests, ConnEnds(c)
      PROVE  WakeInv'
  BY <1>7, <1>8, Zenon DEF ConnEnds
<1>9. CASE Quiet /\ Kept
  BY <1>7, <1>9, Zenon DEF Quiet
<1> QED  BY <1>2, <1>3, <1>4, <1>5, <1>6, <1>8, <1>9, <1>WakeSearching, <1>WakeReturns, <1>WakeConnects,
            <1>WakeReaps, Zenon DEF Kinds

-----------------------------------------------------------------------------
(* The invariant holds at first and from step to step, and what it says. *)

\* The pool starts empty.
LEMMA InitIs ==
  ASSUME Counts, Init
  PROVE  Inv
<1>1. DOMAIN hosts = {}
  BY Zenon DEF Init
<1>2. \A h \in Hosts :
        /\ At(hosts, h).protocol # "h2" /\ At(hosts, h).h2 = None /\ At(hosts, h).idle = <<>>
  BY <1>1, NewHostIs, Zenon DEF At
<1>3. DOMAIN <<>> = {} /\ Len(<<>>) = 0
  OBVIOUS
<1>4. \A r \in Requests :
        /\ conn[r] = "none" /\ pc[r] = "new" /\ task[r] = NewTask(r) /\ sent[r] = 0
        /\ pooled_at[r] = None
  BY Zenon DEF Init
<1>5. \A r \in Requests : ~Open(r) /\ conn[r] # "h1" /\ pc[r] \notin Waiting /\ pc[r] \notin Holding
  BY <1>4, Zenon DEF Open, Protocols, Waiting, Holding
<1>6. Types
  <2>1. target \in UNION {[made -> Hosts] : made \in SUBSET Requests}
    BY PoolAssumption, Zenon DEF Init
  <2>2. resets \in 0..MaxResets /\ resets_seen \in 0..resets
    BY Constants DEF Init
  <2>3. Table(hosts)
    BY <1>1, Zenon DEF Table
  <2>4. dialing \in [Hosts -> Opt(Requests)]
    BY Zenon DEF Init, Opt
  <2>5. global \subseteq Requests /\ slots \subseteq Requests /\ worn \subseteq Requests
    BY Zenon DEF Init
  <2>6. conn \in [Requests -> Protocols \union {"none"}] /\ pc \in [Requests -> Where]
    BY DEF Init, Where
  <2>7. task \in [Requests -> TaskType]
    BY NewTaskIs, Zenon DEF Init
  <2>8. sent \in [Requests -> Nat]
    BY DEF Init
  <2>9. pooled_at \in [Requests -> Opt(0..MaxResets)]
    BY Zenon DEF Init, Opt
  <2> QED  BY <2>1, <2>2, <2>3, <2>4, <2>5, <2>6, <2>7, <2>8, <2>9, Zenon DEF Types
<1>7. RequestsInv
  BY <1>4, <1>5, Zenon DEF RequestsInv, RequestAt
<1>8. SentInv
  <2>1. ASSUME NEW r \in Requests
        PROVE  SentAt(r)
    <3>1. sent[r] <= IF r \in Replayables THEN 2 ELSE 1
      BY <1>4
    <3>2. Unsent(r, task[r], sent[r])
      BY <1>4, NewTaskIs, Zenon DEF Unsent
    <3> QED  BY <1>4, <3>1, <3>2, Zenon DEF SentAt
  <2> QED  BY <2>1, Zenon DEF SentInv
<1>9. PoolsInv
  BY <1>2, <1>3, Zenon DEF PoolsInv, PoolsDialed, PoolsFresh
<1>10. OnceInv
  BY <1>5, Zenon DEF OnceInv, IdleOnce, HeldOnce, HeldNotIdle
<1>11. PermitsInv
  <2>1. global = {} /\ slots = {} /\ \A h \in Hosts : dialing[h] = None
    BY Zenon DEF Init
  <2> QED  BY <1>4, <1>5, <2>1, Constants, Zenon DEF PermitsInv, PermitAt
<1>12. LimitsInv
  <2>1. global = {} /\ slots = {}
    BY Zenon DEF Init
  <2>2. \A h : {s \in slots : target[s] = h} = {}
    BY <2>1, Zenon
  <2>3. 0 <= MAX_CONNECTIONS /\ 0 <= MAX_H1_PER_HOST
    BY Constants
  <2>4. Cardinality({}) = 0
    BY Zenon DEF Counts
  <2> QED  BY <2>1, <2>2, <2>3, <2>4, Zenon DEF LimitsInv
<1>13. H1Inv
  <2>1. slots = {}
    BY Zenon DEF Init
  <2>2. \A r \in DOMAIN target : r \in Requests
    BY <1>6, TargetIn, Zenon
  <2> QED  BY <1>2, <1>4, <1>5, <2>1, <2>2, Zenon DEF H1Inv, H1At
<1>14. WakeInv
  BY <1>2, <1>3, Zenon DEF WakeInv
<1> QED  BY <1>6, <1>7, <1>8, <1>9, <1>10, <1>11, <1>12, <1>13, <1>14, Zenon DEF Inv

LEMMA InvNext ==
  ASSUME Counts, Inv, [Next]_vars
  PROVE  Inv'
<1>1. Kinds
  BY StepIs, Zenon
<1>2. Types' /\ RequestsInv' /\ SentInv'
  BY <1>1, TypesNext, RequestsNext, SentNext, Zenon
<1>3. PoolsInv' /\ OnceInv' /\ PermitsInv'
  BY <1>1, PoolsNext, OnceNext, PermitsNext, Zenon
<1>4. LimitsInv' /\ H1Inv' /\ WakeInv'
  BY <1>1, LimitsNext, H1Next, WakeNext, Zenon
<1> QED  BY <1>2, <1>3, <1>4, Zenon DEF Inv

\* Who starts to send on a pooled connection found it in a table that has seen
\* every reset.
LEMMA HandedOutIs ==
  ASSUME Counts, Inv, [Next]_vars
  PROVE  [\A r \in Requests :
            /\ pc'[r] = "send" /\ task'[r].pooled
            /\ pc[r] # "send"
            => pooled_at[task'[r].using] = resets]_vars
<1>1. Kinds
  BY StepIs, Zenon
<1>2. ASSUME NEW r \in Requests, Moves(r), NEW s \in Requests, s # r
      PROVE  pc'[s] = pc[s]
  BY <1>2, Zenon DEF Moves
<1> SUFFICES ASSUME NEW s \in Requests, pc'[s] = "send", task'[s].pooled, pc[s] # "send"
             PROVE  pooled_at[task'[s].using] = resets
  BY Zenon
<1>3. ASSUME NEW r \in Requests, NEW t, NEW P, NEW w, Searching(r, t, P, w)
      PROVE  pooled_at[task'[s].using] = resets
  <2>1. Turn(r, t, P, w) /\ Moves(r)
    BY <1>3, SearchingIs, Zenon
  <2>2. s = r /\ t \in TaskType
    BY <1>2, <2>1, Zenon DEF Turn
  <2>3. Finds(r, t)
    BY <1>3, <2>2, ParkedIs, Zenon DEF Searching
  <2> QED  BY <2>2, <2>3, FoundIs, ZenonT(40)
<1>4. ASSUME NEW r \in Requests, Over(r)
      PROVE  FALSE
  <2>1. Moves(r) /\ pc'[r] = "done"
    BY <1>4, Zenon DEF Over, Goes
  <2> QED  BY <1>2, <2>1, Zenon
<1>5. ASSUME NEW r \in Requests,
             TakesSlot(r) \/ Dials(r) \/ Awaits(r) \/ GetsPermit(r) \/ Negotiates(r)
      PROVE  FALSE
  <2>1. Moves(r) /\ pc'[r] # "send"
    BY <1>5, WaitersBy, Zenon DEF By, Waiting
  <2> QED  BY <1>2, <2>1, Zenon
<1>6. ASSUME NEW r \in Requests, ConnectsH1(r) \/ ConnectsH2(r)
      PROVE  FALSE
  <2>1. Moves(r) /\ ~task'[r].pooled
    BY <1>6, ConnectsBy, Zenon DEF By
  <2> QED  BY <1>2, <2>1, Zenon
<1>7. ASSUME NEW r \in Requests, Responds(r) \/ BodyEnds(r)
      PROVE  FALSE
  <2>1. Moves(r) /\ pc'[r] # "send"
    BY <1>7, AnswersBy, Zenon DEF By
  <2> QED  BY <1>2, <2>1, Zenon
<1>8. ASSUME pc' = pc
      PROVE  FALSE
  BY <1>8, Zenon
<1> QED  BY <1>1, <1>3, <1>4, <1>5, <1>6, <1>7, <1>8, Zenon DEF Kinds, ConnEnds, Quiet, Reaps

\* A set whose members are all the same has at most one.
LEMMA AtMostOne ==
  ASSUME Counts, NEW S, \A x, y \in S : x = y
  PROVE  Cardinality(S) \in {0, 1} /\ (Cardinality(S) = 1 => S # {})
<1>1. CASE S = {}
  <2>1. Cardinality(S) = 0
    BY <1>1, Zenon DEF Counts
  <2> QED  BY <2>1
<1>2. CASE S # {}
  <2>1. PICK x : x \in S
    BY <1>2, Zenon
  <2>2. S = {x}
    BY <2>1, Zenon
  <2> QED  BY <1>2, <2>2, Zenon DEF Counts
<1> QED  BY <1>1, <1>2, Zenon

LEMMA ExclusiveH1Is ==
  ASSUME Counts, Inv
  PROVE  ExclusiveH1
<1>1. IdleOnce(hosts) /\ HeldOnce /\ HeldNotIdle(hosts)
  BY Zenon DEF Inv, OnceInv
<1> SUFFICES ASSUME NEW c \in Requests, conn[c] = "h1"
             PROVE  LET places == {p \in Hosts \X (1..Cardinality(Requests)) :
                                     /\ p[1] \in DOMAIN hosts
                                     /\ p[2] \in DOMAIN hosts[p[1]].idle
                                     /\ hosts[p[1]].idle[p[2]] = c}
                    IN  Cardinality(places) + Cardinality(Used(c)) <= 1
  BY Zenon DEF ExclusiveH1
<1> DEFINE N == 1..Cardinality(Requests)
           places == {p \in Hosts \X N :
                        /\ p[1] \in DOMAIN hosts
                        /\ p[2] \in DOMAIN hosts[p[1]].idle
                        /\ hosts[p[1]].idle[p[2]] = c}
<1>2. ASSUME NEW p \in places
      PROVE  /\ p = <<p[1], p[2]>> /\ p[1] \in Hosts
             /\ p[2] \in DOMAIN At(hosts, p[1]).idle /\ At(hosts, p[1]).idle[p[2]] = c
  <2>1. p \in Hosts \X N
    BY Zenon
  <2>2. p = <<p[1], p[2]>> /\ p[1] \in Hosts
    BY <2>1
  <2>3. p[1] \in DOMAIN hosts /\ p[2] \in DOMAIN hosts[p[1]].idle /\ hosts[p[1]].idle[p[2]] = c
    BY Zenon
  <2>4. At(hosts, p[1]) = hosts[p[1]]
    BY <2>3, Zenon DEF At
  <2> QED  BY <2>2, <2>3, <2>4, Zenon
<1>3. ASSUME NEW p \in places, NEW o \in places
      PROVE  p = o
  <2>1. p[1] = o[1] /\ p[2] = o[2]
    BY <1>1, <1>2 DEF IdleOnce
  <2> QED  BY <1>2, <2>1, Zenon
<1>4. \A r \in Used(c) : r \in Requests /\ Holds(r, c)
  BY Zenon DEF Used, Holds, Holding
<1>5. \A r, s \in Used(c) : r = s
  BY <1>1, <1>4, Zenon DEF HeldOnce
<1>6. places = {} \/ Used(c) = {}
  BY <1>1, <1>2, <1>4, ZenonT(40) DEF HeldNotIdle, NotIdle
<1> HIDE DEF places
<1>7. Cardinality(places) \in {0, 1} /\ Cardinality(Used(c)) \in {0, 1}
  BY <1>3, <1>5, AtMostOne, Zenon
<1>8. Cardinality(places) = 0 \/ Cardinality(Used(c)) = 0
  BY <1>6, Zenon DEF Counts
<1>9. Cardinality(places) + Cardinality(Used(c)) <= 1
  BY <1>7, <1>8
<1> QED  BY <1>9, Zenon DEF places

LEMMA PermitsAccountedIs ==
  ASSUME Inv
  PROVE  PermitsAccounted
<1>1. \A r \in Requests : PermitAt(r)
  BY Zenon DEF Inv, PermitsInv
<1>2. global \subseteq Requests /\ slots \subseteq Requests /\ dialing \in [Hosts -> Opt(Requests)]
  BY TypesNow, Zenon
<1>3. \A h \in Hosts : dialing[h] # None => dialing[h] \in Requests
  BY <1>2, Zenon DEF Opt
<1> QED  BY <1>1, <1>2, <1>3, Zenon DEF PermitAt, PermitsAccounted

LEMMA H1LimitIs ==
  ASSUME Counts, Inv
  PROVE  H1LimitOfH1Origins
<1> SUFFICES ASSUME NEW h \in Hosts, Offers[h] = {"h1"}
             PROVE  Cardinality(OpenH1(h)) <= MAX_H1_PER_HOST
  BY Zenon DEF H1LimitOfH1Origins
<1> DEFINE S == {s \in slots : target[s] = h}
<1>1. OpenH1(h) \subseteq S
  <2>1. ASSUME NEW c \in Requests, conn[c] = "h1", target[c] = h
        PROVE  c \in slots
    <3>1. pc[c] # "new"
      BY <2>1, NotDialed, NotDialedIs, Zenon
    <3>2. c \in DOMAIN target
      BY <3>1, Zenon DEF Inv, RequestsInv, RequestAt
    <3>3. H1At(c)
      BY <2>1, <3>2, Zenon DEF Inv, H1Inv
    <3> QED  BY <2>1, <3>3, Zenon DEF H1At
  <2> QED  BY <2>1, Zenon DEF OpenH1
<1>2. S \subseteq Requests /\ Cardinality(S) <= MAX_H1_PER_HOST
  BY TypesNow, Zenon DEF Inv, LimitsInv
<1>3. MAX_H1_PER_HOST \in Nat
  BY Constants
<1> HIDE DEF S
<1> QED  BY <1>1, <1>2, <1>3, CardFits, Zenon

LEMMA NoLostWakeupIs ==
  ASSUME Counts, Inv
  PROVE  NoLostWakeup
<1> SUFFICES ASSUME NEW h \in DOMAIN hosts, Offers[h] = {"h1"}, hosts[h].idle # <<>>,
                    Listening(h) # {}
             PROVE  hosts[h].ready > 0
  BY Zenon DEF NoLostWakeup
<1>1. Table(hosts) /\ h \in Hosts
  BY Zenon DEF Inv, Types, Table
<1>2. At(hosts, h) = hosts[h]
  BY Zenon DEF At
<1>3. hosts[h].idle \in Seq(Requests) /\ hosts[h].ready \in Nat
  BY <1>1, <1>2, Numbers, Zenon
<1>4. Len(hosts[h].idle) # 0 /\ Len(hosts[h].idle) \in Nat
  BY <1>3
<1>5. Cardinality(Listening(h)) # 0 /\ Cardinality(Listening(h)) \in Nat
  <2>1. Listening(h) \in SUBSET Requests
    BY Zenon DEF Listening
  <2> QED  BY <2>1, Zenon DEF Counts
<1>6. \/ Len(hosts[h].idle) = 0 \/ hosts[h].ready >= Len(hosts[h].idle)
      \/ hosts[h].ready >= Cardinality(Listening(h))
  BY <1>1, <1>2, Zenon DEF Inv, WakeInv
<1> QED  BY <1>3, <1>4, <1>5, <1>6

LEMMA AccountedIs ==
  ASSUME Counts, Inv
  PROVE  ConnectionsAccounted
<1>1. TypeOK
  BY Zenon DEF Inv, Types, LimitsInv, Table, TypeOK
<1> QED  BY <1>1, ExclusiveH1Is, PermitsAccountedIs, H1LimitIs, NoLostWakeupIs, Zenon
         DEF ConnectionsAccounted

-----------------------------------------------------------------------------
(* What is used of cardinalities holds, by the theorems on finite sets. *)

F == INSTANCE FiniteSetTheorems

\* The library's theorems are about the cardinalities of this module.
LEMMA SameIs ==
  ASSUME NEW S
  PROVE  F!Cardinality(S) = Cardinality(S) /\ (F!IsFiniteSet(S) <=> IsFiniteSet(S))
<1>1. F!Cardinality(S) = Cardinality(S)
  BY DEF Cardinality, F!Cardinality
<1>2. F!IsFiniteSet(S) <=> IsFiniteSet(S)
  BY DEF IsFiniteSet, F!IsFiniteSet
<1> QED  BY <1>1, <1>2, Zenon

\* The empty set and the sets of one member.
LEMMA EmptyIs ==
  Cardinality({}) = 0 /\ \A x : Cardinality({x}) = 1
BY SameIs, F!FS_EmptySet, F!FS_Singleton, Zenon

\* How many members a finite set has.
LEMMA SizeIs ==
  ASSUME NEW S, IsFiniteSet(S)
  PROVE  Cardinality(S) \in Nat /\ (Cardinality(S) = 0 <=> S = {})
BY SameIs, F!FS_CardinalityType, F!FS_EmptySet, Zenon

\* A part of a finite set.
LEMMA PartIs ==
  ASSUME NEW S, IsFiniteSet(S), NEW T \in SUBSET S
  PROVE  /\ IsFiniteSet(T) /\ Cardinality(T) <= Cardinality(S)
         /\ Cardinality(S) = Cardinality(T) => S = T
BY SameIs, F!FS_Subset, Zenon

\* A finite set with a member more or less.
LEMMA OneMoreIs ==
  ASSUME NEW S, IsFiniteSet(S), NEW x
  PROVE  /\ Cardinality(S \union {x}) = IF x \in S THEN Cardinality(S) ELSE Cardinality(S) + 1
         /\ Cardinality(S \ {x}) = IF x \in S THEN Cardinality(S) - 1 ELSE Cardinality(S)
<1>1. F!IsFiniteSet(S)
  BY SameIs, Zenon
<1>2. Cardinality(S \union {x}) = IF x \in S THEN Cardinality(S) ELSE Cardinality(S) + 1
  <2>1. F!Cardinality(S \union {x}) = IF x \in S THEN F!Cardinality(S) ELSE F!Cardinality(S) + 1
    BY <1>1, F!FS_AddElement, Zenon
  <2> QED  BY <2>1, SameIs, Zenon
<1>3. Cardinality(S \ {x}) = IF x \in S THEN Cardinality(S) - 1 ELSE Cardinality(S)
  <2>1. F!Cardinality(S \ {x}) = IF x \in S THEN F!Cardinality(S) - 1 ELSE F!Cardinality(S)
    BY <1>1, F!FS_RemoveElement, Zenon
  <2> QED  BY <2>1, SameIs, Zenon
<1> QED  BY <1>2, <1>3, Zenon

\* The numbers up to m.
LEMMA IntervalIs ==
  ASSUME NEW m \in Nat
  PROVE  IsFiniteSet(1..m) /\ Cardinality(1..m) = m
<1>1. 1 \in Int /\ m \in Int
  OBVIOUS
<1>2. IsFiniteSet(1..m) /\ Cardinality(1..m) = IF 1 > m THEN 0 ELSE m - 1 + 1
  BY <1>1, SameIs, F!FS_Interval, ZenonT(40)
<1> QED  BY <1>2

\* The places of a list: each number up to how many there are is the rank of
\* one.
LEMMA Ranked ==
  ASSUME NEW m \in Nat, NEW G, G \subseteq 1..m
  PROVE  /\ IsFiniteSet(G) /\ Cardinality(G) \in Nat /\ Cardinality(G) <= m
         /\ \A n \in 1..Cardinality(G) :
              \E i \in G : Cardinality({j \in G : j <= i}) = n
<1> DEFINE below(i) == {j \in G : j <= i}
           rank == [i \in G |-> Cardinality(below(i))]
           C == Cardinality(G)
<1>1. IsFiniteSet(1..m) /\ Cardinality(1..m) = m
  BY IntervalIs, Zenon
<1>2. IsFiniteSet(G) /\ C <= m
  <2>1. G \in SUBSET (1..m)
    BY Zenon
  <2>2. IsFiniteSet(G) /\ Cardinality(G) <= Cardinality(1..m)
    BY <1>1, <2>1, PartIs, Zenon
  <2> QED  BY <1>1, <2>2, Zenon
<1>3. C \in Nat
  BY <1>2, SizeIs, Zenon
<1> HIDE DEF C
<1>4. \A i \in G : IsFiniteSet(below(i)) /\ Cardinality(below(i)) \in 1..C
  <2> TAKE i \in G
  <2>1. below(i) \in SUBSET G /\ i \in below(i)
    <3>1. i <= i
      OBVIOUS
    <3> QED  BY <3>1, Zenon
  <2> HIDE DEF below
  <2>2. IsFiniteSet(below(i)) /\ Cardinality(below(i)) <= C
    BY <1>2, <2>1, PartIs, Zenon DEF C
  <2>3. Cardinality(below(i)) \in Nat
    BY <2>2, SizeIs, Zenon
  <2>4. Cardinality(below(i)) # 0
    BY <2>1, <2>2, SizeIs, Zenon
  <2> QED  BY <1>3, <2>2, <2>3, <2>4
<1>5. ASSUME NEW i \in G, NEW k \in G, Cardinality(below(i)) = Cardinality(below(k)), i < k
      PROVE  FALSE
  <2>1. below(i) \in SUBSET below(k) /\ k \in below(k) /\ k \notin below(i)
    <3>1. i \in Nat /\ k \in Nat /\ \A j \in G : j \in Nat
      OBVIOUS
    <3>2. k <= k /\ ~(k <= i) /\ \A j \in Nat : j <= i => j <= k
      BY <1>5, <3>1
    <3> QED  BY <3>1, <3>2, Zenon
  <2>2. IsFiniteSet(below(k))
    BY <1>4, Zenon
  <2> HIDE DEF below
  <2>3. below(k) = below(i)
    BY <1>5, <2>1, <2>2, PartIs, Zenon
  <2> QED  BY <2>1, <2>3, Zenon
<1>6. \A i, k \in G : Cardinality(below(i)) = Cardinality(below(k)) => i = k
  <2> TAKE i, k \in G
  <2> HAVE Cardinality(below(i)) = Cardinality(below(k))
  <2> HIDE DEF below
  <2>1. i = k \/ i < k \/ k < i
    OBVIOUS
  <2>2. ~(i < k) /\ ~(k < i)
    BY <1>5, Zenon
  <2> QED  BY <2>1, <2>2, Zenon
<1> HIDE DEF below
<1>7. rank \in F!Injection(G, 1..C)
  <2>1. rank \in [G -> 1..C]
    BY <1>4, Zenon
  <2>2. \A i, k \in G : rank[i] = rank[k] => i = k
    BY <1>6, Zenon
  <2> HIDE DEF rank
  <2> QED  BY <2>1, <2>2, Zenon DEF F!Injection, F!IsInjective
<1>8. IsFiniteSet(1..C) /\ Cardinality(1..C) = C
  BY <1>3, IntervalIs, Zenon
<1>9. \A n \in 1..C : \E i \in G : rank[i] = n
  <2> HIDE DEF rank
  <2>1. F!IsFiniteSet(1..C) /\ F!Cardinality(G) = F!Cardinality(1..C)
    BY <1>8, SameIs, Zenon DEF C
  <2>2. rank \in F!Surjection(G, 1..C)
    BY <1>7, <2>1, F!FS_Injection, Zenon
  <2> QED  BY <2>2, Zenon DEF F!Surjection
<1>10. \A n \in 1..C : \E i \in G : Cardinality(below(i)) = n
  BY <1>9, Zenon
<1> QED  BY <1>2, <1>3, <1>10, Zenon DEF C, below

\* A set of places that is not empty has a last one: the place whose rank is
\* how many there are.
LEMMA LastIs ==
  ASSUME NEW m \in Nat, NEW G, G \subseteq 1..m, G # {}
  PROVE  \E i \in G : \A j \in G : j <= i
<1>1. IsFiniteSet(G) /\ Cardinality(G) \in 1..Cardinality(G)
  <2>1. IsFiniteSet(G) /\ Cardinality(G) \in Nat /\ Cardinality(G) # 0
    BY Ranked, SizeIs, Zenon
  <2> QED  BY <2>1
<1>2. PICK i \in G : Cardinality({j \in G : j <= i}) = Cardinality(G)
  <2>1. \A n \in 1..Cardinality(G) : \E i \in G : Cardinality({j \in G : j <= i}) = n
    BY Ranked, ZenonT(40)
  <2> QED  BY <1>1, <2>1, Zenon
<1>3. {j \in G : j <= i} = G
  <2>1. {j \in G : j <= i} \in SUBSET G
    BY Zenon
  <2> QED  BY <1>1, <1>2, <2>1, PartIs, Zenon
<1> QED  BY <1>3, Zenon

\* What is used of cardinalities holds, since there are finitely many requests.
LEMMA CountsHold == Counts
<1>1. IsFiniteSet(Requests)
  BY Constants, Zenon
<1>2. ASSUME NEW S \in SUBSET Requests
      PROVE  IsFiniteSet(S) /\ Cardinality(S) \in Nat /\ (Cardinality(S) = 0 <=> S = {})
  BY <1>1, PartIs, SizeIs, Zenon
<1>3. ASSUME NEW S \in SUBSET Requests, NEW T \in SUBSET S
      PROVE  Cardinality(T) \in Nat /\ Cardinality(T) <= Cardinality(S)
  BY <1>2, PartIs, SizeIs, Zenon
<1>4. ASSUME NEW S \in SUBSET Requests, NEW r
      PROVE  /\ Cardinality(S \union {r}) <= Cardinality(S) + 1
             /\ r \in S => Cardinality(S \ {r}) = Cardinality(S) - 1
  <2>1. /\ Cardinality(S) \in Nat
        /\ Cardinality(S \union {r}) = Cardinality(S) \/ Cardinality(S \union {r}) = Cardinality(S) + 1
        /\ r \in S => Cardinality(S \ {r}) = Cardinality(S) - 1
    BY <1>2, OneMoreIs, Zenon
  <2> QED  BY <2>1
<1>5. ASSUME NEW m \in Nat, NEW G \in SUBSET (1..m)
      PROVE  /\ Cardinality(G) \in Nat /\ Cardinality(G) <= m
             /\ \A n \in 1..Cardinality(G) :
                  \E i \in G : Cardinality({j \in G : j <= i}) = n
             /\ G # {} => \E i \in G : \A j \in G : j <= i
  <2>1. G \subseteq 1..m
    BY Zenon
  <2>2. /\ Cardinality(G) \in Nat /\ Cardinality(G) <= m
        /\ \A n \in 1..Cardinality(G) : \E i \in G : Cardinality({j \in G : j <= i}) = n
    BY <2>1, Ranked, ZenonT(40)
  <2>3. G # {} => \E i \in G : \A j \in G : j <= i
    BY <2>1, LastIs, ZenonT(40)
  <2> QED  BY <2>2, <2>3, Zenon
<1> QED  BY <1>1, <1>2, <1>3, <1>4, <1>5, EmptyIs, Zenon DEF Counts

-----------------------------------------------------------------------------
(* The theorems. *)

\* The inductive invariant holds in every state of the pool.
THEOREM InvHolds == Spec => []Inv
<1>1. Init => Inv
  BY InitIs, CountsHold, Zenon
<1>2. Inv /\ [Next]_vars => Inv'
  BY InvNext, CountsHold, Zenon
<1> QED  BY <1>1, <1>2, PTL DEF Spec

\* Pool::send retries on a new connection, and replays, at most once and only
\* what is safe to repeat: a request reaches a server at most once, or twice if
\* repeating it is safe, for any requests and any order of failures.
THEOREM SentOnceHolds == Spec => []SentOnce
<1>1. Inv => SentOnce
  BY Zenon DEF Inv, SentInv, SentAt, SentOnce
<1> QED  BY <1>1, InvHolds, PTL

\* checkout looks at the table as hosts() returns it: a connection it hands out
\* was pooled after the last reset that was asked for.
THEOREM HandedOutAfterResetHolds == Spec => HandedOutAfterReset
<1>1. Inv /\ [Next]_vars =>
        [\A r \in Requests :
           /\ pc'[r] = "send" /\ task'[r].pooled
           /\ pc[r] # "send"
           => pooled_at[task'[r].using] = resets]_vars
  BY HandedOutIs, CountsHold, Zenon
<1> QED  BY <1>1, InvHolds, PTL DEF Spec, HandedOutAfterReset

\* Connections, permits, slots and wake-ups are accounted for, whatever the
\* tasks of checkout, connect, give_back, evict_one and reap do between their
\* awaits: one place per HTTP/1.1 connection, a permit for each open connection
\* and none leaked, at most max_connections of them, at most max_h1_per_host to
\* an HTTP/1.1 origin, and no waiter there that sleeps beside an idle connection.
THEOREM ConnectionsAccountedHolds == Spec => []ConnectionsAccounted
<1>1. Inv => ConnectionsAccounted
  BY AccountedIs, CountsHold, Zenon
<1> QED  BY <1>1, InvHolds, PTL

=============================================================================
