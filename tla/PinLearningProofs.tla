------------------------- MODULE PinLearningProofs -------------------------
(* Proofs about PinLearning, for every set of hosts and every choice of    *)
(* the windows and limits that satisfies the module's assumptions.         *)
EXTENDS PinLearning, FiniteSetTheorems, TLAPS

(***************************************************************************)
(* What a step can do to the pins and the two lists that take them back.   *)
(***************************************************************************)

\* Pins and list entries only disappear.
Drops ==
  /\ DOMAIN pins' \subseteq DOMAIN pins
  /\ \A h \in DOMAIN pins' : pins'[h] = pins[h]
  /\ upstream' \subseteq upstream
  /\ silent' \subseteq silent
  /\ cause' = cause

\* `h` becomes a pin; of the others, pins and entries only disappear.
Learns(h, why) ==
  /\ h \in Hosts
  /\ h \in DOMAIN pins' /\ pins'[h] = now
  /\ \A k \in DOMAIN pins' : k # h => k \in DOMAIN pins /\ pins'[k] = pins[k]
  /\ cause' = [cause EXCEPT ![h] = why]
  /\ \A e \in upstream' :
       e \in upstream \/ (why = "upstream" /\ e = <<h, now>>)
  /\ \A e \in silent' :
       e \in silent \/ (why \in SilentCauses /\ e = <<h, now>>)
  /\ why # "upstream" => \A e \in upstream' : e[1] # h
  /\ why = "alert" => \A e \in silent' : e[1] # h

LearnsSome ==
  \E h \in Hosts, why \in {"alert", "upstream", "silent", "flood"} :
    Learns(h, why)

LEMMA LivePinsShrink ==
  /\ DOMAIN LivePins \subseteq DOMAIN pins
  /\ \A h \in DOMAIN LivePins : LivePins[h] = pins[h]
BY DEF LivePins, Restrict

LEMMA TakeBackShrinks ==
  ASSUME NEW live, NEW entries
  PROVE  /\ DOMAIN take_back(live, entries) \subseteq DOMAIN live
         /\ \A h \in DOMAIN take_back(live, entries) :
              take_back(live, entries)[h] = live[h]
BY DEF take_back, Restrict

LEMMA InsertIs ==
  ASSUME NEW map, NEW key, NEW value
  PROVE  /\ DOMAIN Insert(map, key, value) = DOMAIN map \cup {key}
         /\ Insert(map, key, value)[key] = value
         /\ \A k \in DOMAIN map : k # key => Insert(map, key, value)[k] = map[k]
BY DEF Insert

\* What making `h` a pin does to the pins.
LEMMA BecomesPinIs ==
  ASSUME NEW h, NEW why, BecomesPin(LivePins, h, why)
  PROVE  /\ h \in DOMAIN pins'
         /\ pins'[h] = now
         /\ \A k \in DOMAIN pins' :
              k # h => k \in DOMAIN pins /\ pins'[k] = pins[k]
         /\ cause' = [cause EXCEPT ![h] = why]
<1>1. pins' = Insert(LivePins, h, now)
  BY DEF BecomesPin
<1>2. /\ DOMAIN pins' = DOMAIN LivePins \cup {h}
      /\ pins'[h] = now
      /\ \A k \in DOMAIN LivePins : k # h => pins'[k] = LivePins[k]
  BY <1>1 DEF Insert
<1> QED BY <1>2, LivePinsShrink DEF BecomesPin

LEMMA RejectionShape ==
  ASSUME NEW h \in Hosts, record_client_rejection(h)
  PROVE  Drops \/ Learns(h, "alert")
<1>1. CASE AlreadyPinned(h)
  BY <1>1, LivePinsShrink DEF AlreadyPinned, Drops, tables
<1>2. CASE SecondRejection(h)
  <2>1. BecomesPin(LivePins, h, "alert")
    BY <1>2 DEF SecondRejection
  <2>2. upstream' = NotOf(upstream, h) /\ silent' = NotOf(silent, h)
    BY <1>2 DEF SecondRejection
  <2> QED
    BY <2>1, <2>2, BecomesPinIs DEF Learns, NotOf
<1>3. CASE FirstRejection(h)
  BY <1>3, LivePinsShrink DEF FirstRejection, Drops
<1> QED BY <1>1, <1>2, <1>3 DEF record_client_rejection

LEMMA UpstreamShape ==
  ASSUME NEW h \in Hosts, learn_upstream_untrusted(h)
  PROVE  Drops \/ Learns(h, "upstream")
<1>1. CASE AlreadyPinned(h)
  BY <1>1, LivePinsShrink DEF AlreadyPinned, Drops, tables
<1>2. CASE UpstreamIgnored(h)
  BY <1>2, LivePinsShrink DEF UpstreamIgnored, Drops, tables
<1>3. CASE UpstreamBurstSeen(h)
  <2>1. pins' = take_back(LivePins, UpstreamBurst)
    BY <1>3 DEF UpstreamBurstSeen
  <2>2. /\ DOMAIN pins' \subseteq DOMAIN pins
        /\ \A k \in DOMAIN pins' : pins'[k] = pins[k]
    BY <2>1, LivePinsShrink, TakeBackShrinks
  <2> QED BY <1>3, <2>2 DEF UpstreamBurstSeen, Drops, RecentUpstream
<1>4. CASE UpstreamLearned(h)
  <2>1. BecomesPin(LivePins, h, "upstream")
    BY <1>4 DEF UpstreamLearned
  <2>2. upstream' = RecentUpstream \cup {<<h, now>>} /\ silent' = silent
    BY <1>4 DEF UpstreamLearned
  <2> QED BY <2>1, <2>2, BecomesPinIs DEF Learns, RecentUpstream
<1> QED BY <1>1, <1>2, <1>3, <1>4 DEF learn_upstream_untrusted

LEMMA LearnSilentShape ==
  ASSUME NEW h \in Hosts, NEW why \in SilentCauses, NEW pending, NEW flood,
         learn_silent(LivePins, h, why, pending, flood)
  PROVE  Learns(h, why)
<1>1. BecomesPin(LivePins, h, why)
  BY DEF learn_silent
<1>2. /\ upstream' = NotOf(upstream, h)
      /\ silent' = {e \in silent : within(e[2], now, SILENT_RECENT_SECS)}
                      \cup {<<h, now>>}
  BY DEF learn_silent
<1>3. why # "alert" /\ why # "upstream"
  BY DEF SilentCauses
<1> QED BY <1>1, <1>2, <1>3, BecomesPinIs DEF Learns, NotOf

LEMMA RefusalShape ==
  ASSUME NEW h \in Hosts, record_silent_refusal(h)
  PROVE  Drops \/ \E why \in SilentCauses : Learns(h, why)
<1>1. CASE AlreadyPinned(h)
  BY <1>1, LivePinsShrink DEF AlreadyPinned, Drops, tables
<1>2. CASE RefusalOfUnpinned(h)
  <2>1. CASE silent_burst(LivePins)
    <3> DEFINE burst == {e \in silent : within(e[2], now, SILENT_BURST_SECS)}
    <3>1. pins' = take_back(LivePins, burst)
      BY <2>1 DEF silent_burst
    <3>2. /\ DOMAIN pins' \subseteq DOMAIN pins
          /\ \A k \in DOMAIN pins' : pins'[k] = pins[k]
      BY <3>1, LivePinsShrink, TakeBackShrinks
    <3> QED BY <2>1, <3>2 DEF silent_burst, Drops
  <2>2. CASE RefusalIgnored(LivePins)
    BY <2>2, LivePinsShrink DEF RefusalIgnored, Drops
  <2>3. CASE RefusalJudged(LivePins, h)
    <3>1. PICK flood \in count_for_flood(h) :
            RefusalOfTrusting(LivePins, h, flood)
              \/ RefusalCounted(LivePins, h, flood)
      BY <2>3 DEF RefusalJudged
    <3>2. CASE RefusalOfTrusting(LivePins, h, flood)
      <4>1. CASE learn_silent(LivePins, h, "flood", silent_pending, flood)
        BY <4>1, LearnSilentShape DEF SilentCauses
      <4>2. CASE pins' = LivePins /\ UNCHANGED <<recent, upstream, silent, cause>>
        BY <4>2, LivePinsShrink DEF Drops
      <4> QED BY <3>2, <4>1, <4>2 DEF RefusalOfTrusting
    <3>3. CASE RefusalCounted(LivePins, h, flood)
      <4>1. PICK pending \in count_pending(h) :
              \/ learn_silent(LivePins, h, "silent", pending, flood)
              \/ /\ pins' = LivePins
                 /\ UNCHANGED <<recent, upstream, silent, held_back_logged, cause>>
        BY <3>3 DEF RefusalCounted
      <4>2. CASE learn_silent(LivePins, h, "silent", pending, flood)
        BY <4>2, LearnSilentShape DEF SilentCauses
      <4>3. CASE pins' = LivePins /\ UNCHANGED <<upstream, silent, cause>>
        BY <4>3, LivePinsShrink DEF Drops
      <4> QED BY <4>1, <4>2, <4>3
    <3> QED BY <3>1, <3>2, <3>3
  <2> QED BY <1>2, <2>1, <2>2, <2>3 DEF RefusalOfUnpinned
<1> QED BY <1>1, <1>2 DEF record_silent_refusal

LEMMA NextShape ==
  ASSUME Next
  PROVE  Drops \/ LearnsSome
<1>1. CASE \E h \in AlertHosts : record_client_rejection(h)
  BY <1>1, HostAssumption, RejectionShape DEF LearnsSome
<1>2. CASE \E h \in UpstreamHosts : learn_upstream_untrusted(h)
  BY <1>2, HostAssumption, UpstreamShape DEF LearnsSome
<1>3. CASE \E h \in SilentHosts : record_silent_refusal(h)
  BY <1>3, HostAssumption, RefusalShape DEF LearnsSome, SilentCauses
<1>4. CASE \E h \in HandshakeHosts : record_intercepted_handshake(h)
  BY <1>4 DEF record_intercepted_handshake, Drops
<1>5. CASE \E t \in Readings : on_network_change(t)
  <2>1. PICK t \in Readings : on_network_change(t)
    BY <1>5
  <2> QED BY <2>1, TakeBackShrinks DEF on_network_change, Drops
<1>6. CASE \E hosts \in SUBSET ForgetHosts : forget_pins(hosts)
  BY <1>6 DEF forget_pins, Drops, Restrict
<1>7. CASE Tick
  BY <1>7 DEF Tick, Drops, tables
<1>8. CASE SetClock
  BY <1>8 DEF SetClock, Drops, tables
<1> QED
  BY <1>1, <1>2, <1>3, <1>4, <1>5, <1>6, <1>7, <1>8
  DEF Next, SteadyNext, Learn

(***************************************************************************)
(* Each list takes back only its own pins.  take_back compares times, and  *)
(* times repeat when the clock is set, so the inductive invariant is about *)
(* hosts: a pin of another cause has no entry at all in the list.          *)
(***************************************************************************)

OwnLists ==
  /\ cause \in [Hosts -> Causes]
  /\ DOMAIN pins \subseteq Hosts
  /\ \A h \in DOMAIN pins :
       /\ cause[h] # "upstream" => \A e \in upstream : e[1] # h
       /\ cause[h] = "alert" => \A e \in silent : e[1] # h

LEMMA OwnListsInit == Init => OwnLists
<1> SUFFICES ASSUME Init PROVE OwnLists
  OBVIOUS
<1>1. DOMAIN pins \subseteq Hosts
  BY Zenon, ClockAssumption DEF Init
<1>2. cause \in [Hosts -> Causes]
  BY Zenon DEF Init, Causes
<1> QED BY Zenon, <1>1, <1>2 DEF Init, OwnLists

LEMMA OwnListsStep == OwnLists /\ [Next]_vars => OwnLists'
<1> SUFFICES ASSUME OwnLists, [Next]_vars PROVE OwnLists'
  OBVIOUS
<1>1. CASE UNCHANGED vars
  BY Zenon, <1>1 DEF OwnLists, vars, tables
<1>2. CASE Drops
  BY Zenon, <1>2 DEF OwnLists, Drops
<1>3. CASE LearnsSome
  <2>1. PICK h \in Hosts, why \in {"alert", "upstream", "silent", "flood"} :
          Learns(h, why)
    BY Zenon, <1>3 DEF LearnsSome
  <2>2. cause' \in [Hosts -> Causes]
    BY Zenon, <2>1 DEF OwnLists, Learns, Causes
  <2>3. DOMAIN pins' \subseteq Hosts
    BY Zenon, <2>1 DEF OwnLists, Learns
  <2>4. ASSUME NEW k \in DOMAIN pins'
        PROVE  /\ cause'[k] # "upstream" => \A e \in upstream' : e[1] # k
               /\ cause'[k] = "alert" => \A e \in silent' : e[1] # k
    <3>1. CASE k = h
      BY Zenon, <2>1, <3>1 DEF OwnLists, Learns
    <3>2. CASE k # h
      <4>1. k \in DOMAIN pins /\ cause'[k] = cause[k]
        BY Zenon, <2>1, <2>3, <3>2 DEF OwnLists, Learns
      <4> QED BY <2>1, <3>2, <4>1 DEF OwnLists, Learns
    <3> QED BY Zenon, <3>1, <3>2
  <2> QED BY Zenon, <2>2, <2>3, <2>4 DEF OwnLists
<1> QED BY Zenon, <1>1, <1>2, <1>3, NextShape

LEMMA OwnListsInvariant == Spec => []OwnLists
BY OwnListsInit, OwnListsStep, PTL DEF Spec

\* A burst or a network change never takes back a pin that another cause
\* taught: not through the upstream list, and never one learned from alerts,
\* however the wall clock is set (policy.rs: take_back and its callers).
THEOREM TakesBackOwnPinsHolds == Spec => []TakesBackOwnPins
<1>1. OwnLists => TakesBackOwnPins
  BY Zenon DEF OwnLists, TakesBackOwnPins
<1> QED BY <1>1, OwnListsInvariant, PTL

(***************************************************************************)
(* What can remove a live pin: its entry in a list, or the user.           *)
(***************************************************************************)

Listed(h) == <<h, pins[h]>> \in upstream \/ <<h, pins[h]>> \in silent

Keeps(h) == h \in DOMAIN pins' /\ pins'[h] = pins[h]

LEMMA LivePinsKeep ==
  ASSUME NEW h \in DOMAIN pins, pin_is_live(pins[h], now)
  PROVE  h \in DOMAIN LivePins /\ LivePins[h] = pins[h]
BY Zenon DEF LivePins, Restrict

LEMMA TakeBackKeeps ==
  ASSUME NEW live, NEW entries, NEW h \in DOMAIN live,
         <<h, live[h]>> \notin entries
  PROVE  /\ h \in DOMAIN take_back(live, entries)
         /\ take_back(live, entries)[h] = live[h]
BY Zenon DEF take_back, Restrict

\* A host that becomes a pin was none, so no live pin is overwritten.
LEMMA BecomesPinKeeps ==
  ASSUME NEW h, NEW why, NEW k \in DOMAIN pins, pin_is_live(pins[k], now),
         h \notin DOMAIN LivePins, BecomesPin(LivePins, h, why)
  PROVE  Keeps(k)
<1>1. k \in DOMAIN LivePins /\ LivePins[k] = pins[k] /\ k # h
  BY Zenon, LivePinsKeep
<1>2. pins' = Insert(LivePins, h, now)
  BY Zenon DEF BecomesPin
<1> QED BY Zenon, <1>1, <1>2 DEF Insert, Keeps

LEMMA RefusalKeeps ==
  ASSUME NEW h \in Hosts, NEW k \in DOMAIN pins, pin_is_live(pins[k], now),
         ~Listed(k), RefusalOfUnpinned(h)
  PROVE  Keeps(k)
<1>1. k \in DOMAIN LivePins /\ LivePins[k] = pins[k]
  BY Zenon, LivePinsKeep
<1>2. CASE pins' = LivePins
  BY Zenon, <1>1, <1>2 DEF Keeps
<1>3. CASE silent_burst(LivePins)
  <2> DEFINE burst == {e \in silent : within(e[2], now, SILENT_BURST_SECS)}
  <2>1. pins' = take_back(LivePins, burst)
    BY Zenon, <1>3 DEF silent_burst
  <2>2. <<k, LivePins[k]>> \notin burst
    BY Zenon, <1>1 DEF Listed
  <2> HIDE DEF burst
  <2> QED BY Zenon, <1>1, <2>1, <2>2, TakeBackKeeps DEF Keeps
<1>4. CASE \E why, pending, flood : learn_silent(LivePins, h, why, pending, flood)
  <2>1. PICK why, pending, flood : learn_silent(LivePins, h, why, pending, flood)
    BY Zenon, <1>4
  <2>2. BecomesPin(LivePins, h, why)
    BY Zenon, <2>1 DEF learn_silent
  <2>3. h \notin DOMAIN LivePins
    BY Zenon DEF RefusalOfUnpinned
  <2> QED BY Zenon, <2>2, <2>3, BecomesPinKeeps
<1> QED
  BY Zenon, <1>2, <1>3, <1>4
  DEF RefusalOfUnpinned, RefusalIgnored, RefusalJudged, RefusalOfTrusting,
      RefusalCounted

LEMMA NextKeeps ==
  ASSUME Next, NEW k \in DOMAIN pins, pin_is_live(pins[k], now), ~Listed(k)
  PROVE  \/ Keeps(k)
         \/ \E hosts \in SUBSET ForgetHosts : k \in hosts /\ forget_pins(hosts)
<1>0. k \in DOMAIN LivePins /\ LivePins[k] = pins[k]
  BY Zenon, LivePinsKeep
<1>1. CASE \E h \in Hosts : AlreadyPinned(h) \/ FirstRejection(h) \/ UpstreamIgnored(h)
  BY Zenon, <1>0, <1>1 DEF AlreadyPinned, FirstRejection, UpstreamIgnored, Keeps
<1>2. CASE \E h \in Hosts : SecondRejection(h) \/ UpstreamLearned(h)
  BY Zenon, <1>2, BecomesPinKeeps DEF SecondRejection, UpstreamLearned
<1>3. CASE \E h \in Hosts : UpstreamBurstSeen(h)
  <2>1. pins' = take_back(LivePins, UpstreamBurst)
    BY Zenon, <1>3 DEF UpstreamBurstSeen
  <2>2. <<k, LivePins[k]>> \notin UpstreamBurst
    BY Zenon, <1>0 DEF Listed, UpstreamBurst, RecentUpstream
  <2> QED BY Zenon, <1>0, <2>1, <2>2, TakeBackKeeps DEF Keeps
<1>4. CASE \E h \in Hosts : RefusalOfUnpinned(h)
  BY Zenon, <1>4, RefusalKeeps
<1>5. CASE \E t \in Readings : on_network_change(t)
  <2>1. PICK t \in Readings : on_network_change(t)
    BY Zenon, <1>5
  <2> DEFINE entries ==
        {e \in upstream : within(e[2], t, UPSTREAM_RECENT_SECS)}
          \cup {e \in silent : within(e[2], t, SILENT_RECENT_SECS)}
  <2>2. pins' = take_back(pins, entries)
    BY Zenon, <2>1 DEF on_network_change
  <2>3. <<k, pins[k]>> \notin entries
    BY Zenon DEF Listed
  <2> HIDE DEF entries
  <2> QED BY Zenon, <2>2, <2>3, TakeBackKeeps DEF Keeps
<1>6. CASE \E hosts \in SUBSET ForgetHosts : forget_pins(hosts)
  <2>1. PICK hosts \in SUBSET ForgetHosts : forget_pins(hosts)
    BY Zenon, <1>6
  <2>2. pins' = Restrict(pins, DOMAIN pins \ hosts)
    BY Zenon, <2>1 DEF forget_pins
  <2>3. CASE k \in hosts
    BY <2>1, <2>3, Zenon
  <2>4. CASE k \notin hosts
    BY Zenon, <2>2, <2>4 DEF Restrict, Keeps
  <2> QED BY <2>3, <2>4, Zenon
<1>7. CASE UNCHANGED pins
  BY Zenon, <1>7 DEF Keeps
<1> QED
  BY Zenon, <1>1, <1>2, <1>3, <1>4, <1>5, <1>6, <1>7, HostAssumption
  DEF Next, SteadyNext, Learn, record_client_rejection,
      learn_upstream_untrusted, record_silent_refusal,
      record_intercepted_handshake, Tick, SetClock

\* Bursts and network changes keep the pins learned from alerts; only expiry
\* and forget_pins remove them (policy.rs:749, "Pins learned from alerts are
\* kept").
THEOREM AlertPinsKeptHolds == Spec => AlertPinsKept
<1>1. OwnLists /\ [Next]_vars =>
        [\A h \in Hosts :
           /\ h \in DOMAIN pins /\ cause[h] = "alert"
           /\ h \notin DOMAIN pins' \/ pins'[h] # pins[h]
           => \/ ~pin_is_live(pins[h], now)
              \/ \E hosts \in SUBSET ForgetHosts :
                   h \in hosts /\ forget_pins(hosts)]_vars
  <2> SUFFICES ASSUME OwnLists, Next, NEW h \in DOMAIN pins,
                      cause[h] = "alert", pin_is_live(pins[h], now)
               PROVE  \/ Keeps(h)
                      \/ \E hosts \in SUBSET ForgetHosts :
                           h \in hosts /\ forget_pins(hosts)
    BY Zenon DEF Keeps
  <2>1. ~Listed(h)
    BY Zenon DEF OwnLists, Listed
  <2> QED BY Zenon, <2>1, NextKeeps
<1> QED BY <1>1, OwnListsInvariant, PTL DEF Spec, AlertPinsKept

(***************************************************************************)
(* The bounded tables.                                                     *)
(***************************************************************************)

Fits(map) ==
  /\ DOMAIN map \subseteq Hosts
  /\ Cardinality(DOMAIN map) <= MAX_RECENT_REJECTIONS

LEMMA HostsFinite ==
  ASSUME NEW S \in SUBSET Hosts
  PROVE  IsFiniteSet(S) /\ Cardinality(S) \in Nat
BY Zenon, HostAssumption, FS_Subset, FS_CardinalityType

\* The sizes and windows of the learning code are natural numbers: the parts
\* of WindowAssumption that the steps below use.
LEMMA WindowSizes ==
  /\ MAX_RECENT_REJECTIONS \in Nat /\ MAX_RECENT_REJECTIONS # 0
  /\ SILENT_REFUSALS \in Nat /\ SILENT_REFUSALS # 0
  /\ UPSTREAM_SUPPRESS_SECS \in Nat
  /\ SILENT_SUPPRESS_SECS \in Nat
<1>1. /\ MAX_RECENT_REJECTIONS \in Nat \ {0}
      /\ SILENT_REFUSALS \in Nat \ {0}
  BY WindowAssumption, Zenon
<1>2. UPSTREAM_SUPPRESS_SECS \in Nat /\ SILENT_SUPPRESS_SECS \in Nat
  BY WindowAssumption, Zenon
<1> QED BY Zenon, <1>1, <1>2

LEMMA FitsSmaller ==
  ASSUME NEW map, NEW smaller, Fits(map), DOMAIN smaller \subseteq DOMAIN map
  PROVE  Fits(smaller)
<1>1. Cardinality(DOMAIN smaller) <= Cardinality(DOMAIN map)
  BY Zenon, HostsFinite, FS_Subset DEF Fits
<1> QED BY <1>1, HostsFinite, WindowSizes DEF Fits

LEMMA FitsEmpty == Fits(Empty)
<1>1. DOMAIN Empty = {} BY Zenon DEF Empty
<1> QED BY <1>1, FS_EmptySet, WindowSizes DEF Fits

LEMMA FitsRemove ==
  ASSUME NEW map, NEW key, Fits(map)
  PROVE  Fits(Remove(map, key))
BY Zenon, FitsSmaller DEF Remove, Restrict

\* After make_room there is room for one more host.
LEMMA MakeRoomLeavesRoom ==
  ASSUME NEW map, NEW fresh, NEW last, Fits(map),
         NEW room \in make_room(map, fresh, last)
  PROVE  /\ DOMAIN room \subseteq DOMAIN map
         /\ Cardinality(DOMAIN room) < MAX_RECENT_REJECTIONS
         /\ \A k \in DOMAIN room : room[k] = map[k]
<1> DEFINE kept == Restrict(map, DOMAIN map \cap fresh)
<1>0. /\ DOMAIN kept \subseteq DOMAIN map
      /\ \A k \in DOMAIN kept : kept[k] = map[k]
  BY Zenon DEF Restrict
<1>1. CASE Cardinality(DOMAIN map) < MAX_RECENT_REJECTIONS
  BY Zenon, <1>1 DEF make_room
<1>2. CASE /\ ~(Cardinality(DOMAIN map) < MAX_RECENT_REJECTIONS)
           /\ Cardinality(DOMAIN kept) < MAX_RECENT_REJECTIONS
  BY Zenon, <1>0, <1>2 DEF make_room
<1>3. CASE /\ ~(Cardinality(DOMAIN map) < MAX_RECENT_REJECTIONS)
           /\ ~(Cardinality(DOMAIN kept) < MAX_RECENT_REJECTIONS)
  <2>1. PICK h \in DOMAIN kept : room = Remove(kept, h)
    BY Zenon, <1>3 DEF make_room
  <2> HIDE DEF kept
  <2>2. DOMAIN room = DOMAIN kept \ {h} /\ \A k \in DOMAIN room : room[k] = kept[k]
    BY Zenon, <2>1 DEF Remove, Restrict
  <2>3. Fits(kept)
    BY Zenon, <1>0, FitsSmaller
  <2>4. Cardinality(DOMAIN room) = Cardinality(DOMAIN kept) - 1
    BY Zenon, <2>2, <2>3, HostsFinite, FS_RemoveElement DEF Fits
  <2>5. Cardinality(DOMAIN kept) <= MAX_RECENT_REJECTIONS
    BY Zenon, <2>3 DEF Fits
  <2>6. Cardinality(DOMAIN kept) \in Nat
    BY Zenon, <2>3, HostsFinite DEF Fits
  <2> QED BY <1>0, <2>2, <2>4, <2>5, <2>6, WindowSizes
<1> QED BY Zenon, <1>1, <1>2, <1>3

LEMMA InsertFits ==
  ASSUME NEW room, NEW h \in Hosts, NEW value, DOMAIN room \subseteq Hosts,
         \/ Cardinality(DOMAIN room) < MAX_RECENT_REJECTIONS
         \/ h \in DOMAIN room /\ Fits(room)
  PROVE  Fits(Insert(room, h, value))
<1>1. DOMAIN Insert(room, h, value) = DOMAIN room \cup {h}
  BY Zenon, InsertIs
<1>2. CASE h \in DOMAIN room /\ Fits(room)
  <2>1. DOMAIN room \cup {h} = DOMAIN room
    BY Zenon, <1>2
  <2> QED BY Zenon, <1>1, <1>2, <2>1 DEF Fits
<1>3. CASE h \notin DOMAIN room /\ Cardinality(DOMAIN room) < MAX_RECENT_REJECTIONS
  <2>1. Cardinality(DOMAIN room \cup {h}) = Cardinality(DOMAIN room) + 1
    BY Zenon, <1>3, HostsFinite, FS_AddElement
  <2> QED BY <1>1, <1>3, <2>1, HostsFinite, WindowSizes, SMTT(30) DEF Fits
<1>4. CASE h \in DOMAIN room /\ Cardinality(DOMAIN room) < MAX_RECENT_REJECTIONS
  <2>1. DOMAIN room \cup {h} = DOMAIN room
    BY Zenon, <1>4
  <2>2. Cardinality(DOMAIN room) <= MAX_RECENT_REJECTIONS
    <3>1. Cardinality(DOMAIN room) \in Nat
      BY Zenon, HostsFinite
    <3> QED BY <1>4, <3>1, WindowSizes, SMTT(30)
  <2> QED BY <1>1, <2>1, <2>2, Zenon DEF Fits
<1> QED BY Zenon, <1>2, <1>3, <1>4

LEMMA RoomForFits ==
  ASSUME NEW map, NEW h \in Hosts, NEW fresh, NEW last, NEW value, Fits(map),
         NEW room \in room_for(map, h, fresh, last)
  PROVE  /\ DOMAIN room \subseteq DOMAIN map
         /\ \A k \in DOMAIN room : room[k] = map[k]
         /\ Fits(Insert(room, h, value))
<1>1. CASE h \in DOMAIN map
  <2>1. room = map
    BY Zenon, <1>1 DEF room_for
  <2> QED BY Zenon, <1>1, <2>1, InsertFits DEF Fits
<1>2. CASE h \notin DOMAIN map
  <2>1. room \in make_room(map, fresh, last)
    BY Zenon, <1>2 DEF room_for
  <2>2. /\ DOMAIN room \subseteq DOMAIN map
        /\ Cardinality(DOMAIN room) < MAX_RECENT_REJECTIONS
        /\ \A k \in DOMAIN room : room[k] = map[k]
    BY Zenon, <2>1, MakeRoomLeavesRoom
  <2>3. DOMAIN room \subseteq Hosts
    BY Zenon, <2>2 DEF Fits
  <2> QED BY Zenon, <2>2, <2>3, InsertFits
<1> QED BY Zenon, <1>1, <1>2

AllFit ==
  /\ Fits(recent) /\ Fits(silent_pending) /\ Fits(silent_hosts)
  /\ Fits(silent_flood) /\ Fits(trusted) /\ Fits(held_back_logged)

TablesInv == AllFit /\ PinnedHasNothingPending

LEMMA NoteFits ==
  ASSUME NEW h \in Hosts, Fits(silent_hosts), NEW noted \in note_silent_host(h)
  PROVE  Fits(noted)
<1> DEFINE kept == Restrict(silent_hosts,
                     {k \in DOMAIN silent_hosts :
                        within(silent_hosts[k], now, SILENT_BURST_SECS)})
<1>1. PICK room \in room_for(kept, h, DOMAIN kept, kept) :
        noted = Insert(room, h, now)
  BY Zenon DEF note_silent_host
<1>2. Fits(kept)
  BY Zenon, FitsSmaller DEF Restrict
<1> HIDE DEF kept
<1> QED BY Zenon, <1>1, <1>2, RoomForFits

LEMMA FloodFits ==
  ASSUME NEW h \in Hosts, Fits(silent_flood), NEW flood \in count_for_flood(h)
  PROVE  Fits(flood) /\ DOMAIN flood \subseteq DOMAIN silent_flood \cup {h}
<1>1. PICK fresh, last, value, room :
        /\ room \in room_for(silent_flood, h, fresh, last)
        /\ flood = Insert(room, h, value)
  BY Zenon DEF count_for_flood
<1>2. DOMAIN room \subseteq DOMAIN silent_flood /\ Fits(flood)
  BY Zenon, <1>1, RoomForFits
<1>3. DOMAIN flood = DOMAIN room \cup {h}
  BY Zenon, <1>1 DEF Insert
<1> QED BY Zenon, <1>2, <1>3

LEMMA PendingFits ==
  ASSUME NEW h \in Hosts, Fits(silent_pending), NEW pending \in count_pending(h)
  PROVE  Fits(pending) /\ DOMAIN pending \subseteq DOMAIN silent_pending \cup {h}
<1>1. PICK fresh, last, value, room :
        /\ room \in room_for(silent_pending, h, fresh, last)
        /\ pending = Insert(room, h, value)
  BY Zenon DEF count_pending
<1>2. DOMAIN room \subseteq DOMAIN silent_pending /\ Fits(pending)
  BY Zenon, <1>1, RoomForFits
<1>3. DOMAIN pending = DOMAIN room \cup {h}
  BY Zenon, <1>1 DEF Insert
<1> QED BY Zenon, <1>2, <1>3

LEMMA HeldBackFits ==
  ASSUME NEW h \in Hosts, NEW refusals, Fits(held_back_logged),
         NEW logged \in log_held_back(h, refusals)
  PROVE  Fits(logged)
<1>1. \/ logged = held_back_logged
      \/ \E fresh, room :
           /\ room \in room_for(held_back_logged, h, fresh, held_back_logged)
           /\ logged = Insert(room, h, now)
  BY Zenon DEF log_held_back
<1> QED BY Zenon, <1>1, RoomForFits

LEMMA TablesInit == Init => TablesInv
<1> SUFFICES ASSUME Init PROVE TablesInv
  OBVIOUS
<1>1. AllFit
  BY Zenon, FitsEmpty DEF Init, AllFit
<1>2. PinnedHasNothingPending
  BY Zenon DEF Init, PinnedHasNothingPending, Empty
<1> QED BY Zenon, <1>1, <1>2 DEF TablesInv

\* The pending tables of a host that was not a pin before the step.
LEMMA DisjointAfterCount ==
  ASSUME NEW h, PinnedHasNothingPending, h \notin DOMAIN LivePins,
         DOMAIN pins' \subseteq DOMAIN LivePins,
         DOMAIN recent' \subseteq DOMAIN recent \cup {h},
         DOMAIN silent_pending' \subseteq DOMAIN silent_pending \cup {h},
         DOMAIN silent_flood' \subseteq DOMAIN silent_flood \cup {h}
  PROVE  PinnedHasNothingPending'
BY Zenon, LivePinsShrink DEF PinnedHasNothingPending

\* The pending tables of a host that the step makes a pin.
LEMMA DisjointAfterLearn ==
  ASSUME NEW h, PinnedHasNothingPending,
         DOMAIN pins' \subseteq DOMAIN LivePins \cup {h},
         DOMAIN recent' \subseteq DOMAIN recent \ {h},
         DOMAIN silent_pending' \subseteq DOMAIN silent_pending \ {h},
         DOMAIN silent_flood' \subseteq DOMAIN silent_flood \ {h}
  PROVE  PinnedHasNothingPending'
BY Zenon, LivePinsShrink DEF PinnedHasNothingPending

LEMMA RemoveIs ==
  ASSUME NEW map, NEW key
  PROVE  DOMAIN Remove(map, key) = DOMAIN map \ {key}
BY Zenon DEF Remove, Restrict

LEMMA BecomesPinDomain ==
  ASSUME NEW h, NEW why, BecomesPin(LivePins, h, why)
  PROVE  DOMAIN pins' = DOMAIN LivePins \cup {h}
BY Zenon DEF BecomesPin, Insert

LEMMA RejectionTables ==
  ASSUME TablesInv, NEW h \in Hosts, record_client_rejection(h)
  PROVE  TablesInv'
<1> USE DEF TablesInv, AllFit
<1>1. CASE AlreadyPinned(h)
  BY Zenon, <1>1, LivePinsShrink
  DEF AlreadyPinned, tables, PinnedHasNothingPending, Fits
<1>2. CASE SecondRejection(h)
  <2>1. /\ recent' = Remove(recent, h)
        /\ silent_pending' = Remove(silent_pending, h)
        /\ silent_flood' = Remove(silent_flood, h)
    BY Zenon, <1>2 DEF SecondRejection, ForgetPending
  <2>2. AllFit'
    BY Zenon, <1>2, <2>1, FitsRemove DEF SecondRejection, Fits
  <2>3. DOMAIN pins' = DOMAIN LivePins \cup {h}
    BY Zenon, <1>2, BecomesPinDomain DEF SecondRejection
  <2>4. /\ DOMAIN recent' \subseteq DOMAIN recent \ {h}
        /\ DOMAIN silent_pending' \subseteq DOMAIN silent_pending \ {h}
        /\ DOMAIN silent_flood' \subseteq DOMAIN silent_flood \ {h}
    <3> HIDE DEF TablesInv, AllFit
    <3> QED BY Zenon, <2>1, RemoveIs
  <2>5. PinnedHasNothingPending
    OBVIOUS
  <2>6. PinnedHasNothingPending'
    <3> HIDE DEF TablesInv, AllFit
    <3> QED BY Zenon, <2>3, <2>4, <2>5, DisjointAfterLearn
  <2> QED BY Zenon, <2>2, <2>6
<1>3. CASE FirstRejection(h)
  <2>1. PICK fresh, room :
          /\ room \in make_room(recent, fresh, recent)
          /\ recent' = Insert(room, h, now)
    BY Zenon, <1>3 DEF FirstRejection
  <2>2. DOMAIN room \subseteq DOMAIN recent
        /\ Cardinality(DOMAIN room) < MAX_RECENT_REJECTIONS
    BY Zenon, <2>1, MakeRoomLeavesRoom
  <2>3. DOMAIN room \subseteq Hosts
    BY Zenon, <2>2 DEF Fits
  <2>4. Fits(recent')
    BY Zenon, <2>1, <2>2, <2>3, InsertFits
  <2>5. AllFit'
    BY Zenon, <1>3, <2>4 DEF FirstRejection, Fits
  <2>6. DOMAIN recent' = DOMAIN room \cup {h}
    BY Zenon, <2>1 DEF Insert
  <2>7. PinnedHasNothingPending'
    BY Zenon, <1>3, <2>2, <2>6, DisjointAfterCount DEF FirstRejection
  <2> QED BY Zenon, <2>5, <2>7
<1> QED BY Zenon, <1>1, <1>2, <1>3 DEF record_client_rejection

LEMMA UpstreamTables ==
  ASSUME TablesInv, NEW h \in Hosts, learn_upstream_untrusted(h)
  PROVE  TablesInv'
<1> USE DEF TablesInv, AllFit
<1>1. CASE AlreadyPinned(h) \/ UpstreamIgnored(h)
  BY Zenon, <1>1, LivePinsShrink
  DEF AlreadyPinned, UpstreamIgnored, tables, PinnedHasNothingPending, Fits
<1>2. CASE UpstreamBurstSeen(h)
  <2>1. DOMAIN pins' \subseteq DOMAIN pins
    BY Zenon, <1>2, LivePinsShrink, TakeBackShrinks DEF UpstreamBurstSeen
  <2> QED BY Zenon,
             <1>2, <2>1 DEF UpstreamBurstSeen, PinnedHasNothingPending, Fits
<1>3. CASE UpstreamLearned(h)
  <2>1. /\ recent' = Remove(recent, h)
        /\ silent_pending' = Remove(silent_pending, h)
        /\ silent_flood' = Remove(silent_flood, h)
    BY Zenon, <1>3 DEF UpstreamLearned, ForgetPending
  <2>2. AllFit'
    BY Zenon, <1>3, <2>1, FitsRemove DEF UpstreamLearned, Fits
  <2>3. DOMAIN pins' = DOMAIN LivePins \cup {h}
    BY Zenon, <1>3, BecomesPinDomain DEF UpstreamLearned
  <2>4. /\ DOMAIN recent' \subseteq DOMAIN recent \ {h}
        /\ DOMAIN silent_pending' \subseteq DOMAIN silent_pending \ {h}
        /\ DOMAIN silent_flood' \subseteq DOMAIN silent_flood \ {h}
    <3> HIDE DEF TablesInv, AllFit
    <3> QED BY Zenon, <2>1, RemoveIs
  <2>5. PinnedHasNothingPending
    OBVIOUS
  <2>6. PinnedHasNothingPending'
    <3> HIDE DEF TablesInv, AllFit
    <3> QED BY Zenon, <2>3, <2>4, <2>5, DisjointAfterLearn
  <2> QED BY Zenon, <2>2, <2>6
<1> QED BY Zenon, <1>1, <1>2, <1>3 DEF learn_upstream_untrusted

LEMMA LearnSilentTables ==
  ASSUME TablesInv, NEW h \in Hosts, NEW why, NEW pending, NEW flood,
         Fits(pending), DOMAIN pending \subseteq DOMAIN silent_pending \cup {h},
         Fits(flood), DOMAIN flood \subseteq DOMAIN silent_flood \cup {h},
         learn_silent(LivePins, h, why, pending, flood)
  PROVE  /\ Fits(recent') /\ Fits(silent_pending') /\ Fits(silent_flood')
         /\ Fits(held_back_logged') /\ PinnedHasNothingPending'
<1>1. /\ recent' = Remove(recent, h)
      /\ silent_pending' = Remove(pending, h)
      /\ silent_flood' = Remove(flood, h)
      /\ held_back_logged' = held_back_logged
  BY Zenon DEF learn_silent
<1>2. Fits(recent') /\ Fits(silent_pending') /\ Fits(silent_flood')
  BY Zenon, <1>1, FitsRemove DEF TablesInv, AllFit
<1>3. DOMAIN pins' = DOMAIN LivePins \cup {h}
  BY Zenon, BecomesPinDomain DEF learn_silent
<1>4. /\ DOMAIN recent' \subseteq DOMAIN recent \ {h}
      /\ DOMAIN silent_pending' \subseteq DOMAIN silent_pending \ {h}
      /\ DOMAIN silent_flood' \subseteq DOMAIN silent_flood \ {h}
  BY Zenon, <1>1 DEF Remove, Restrict
<1>5. PinnedHasNothingPending'
  BY Zenon, <1>3, <1>4, DisjointAfterLearn DEF TablesInv
<1> QED BY Zenon, <1>1, <1>2, <1>5 DEF TablesInv, AllFit, Fits

LEMMA RefusalTables ==
  ASSUME TablesInv, NEW h \in Hosts, RefusalOfUnpinned(h)
  PROVE  TablesInv'
<1> USE DEF TablesInv, AllFit
<1>1. PICK noted \in note_silent_host(h) : silent_hosts' = noted
  BY Zenon DEF RefusalOfUnpinned
<1>2. Fits(silent_hosts')
  BY Zenon, <1>1, NoteFits
<1>3. h \notin DOMAIN LivePins
  BY Zenon DEF RefusalOfUnpinned
<1>4. CASE silent_burst(LivePins)
  <2>1. silent_pending' = Empty /\ silent_flood' = Empty
    BY Zenon, <1>4 DEF silent_burst
  <2>2. DOMAIN pins' \subseteq DOMAIN pins
    BY Zenon, <1>4, LivePinsShrink, TakeBackShrinks DEF silent_burst
  <2>3. PinnedHasNothingPending'
    BY Zenon, <1>4, <2>1, <2>2 DEF silent_burst, PinnedHasNothingPending, Empty
  <2> QED BY Zenon, <1>2, <1>4, <2>1, <2>3, FitsEmpty DEF silent_burst, Fits
<1>5. CASE RefusalIgnored(LivePins)
  BY Zenon, <1>2, <1>5, LivePinsShrink
  DEF RefusalIgnored, PinnedHasNothingPending, Fits
<1>6. CASE RefusalJudged(LivePins, h)
  <2>1. PICK flood \in count_for_flood(h) :
          \/ RefusalOfTrusting(LivePins, h, flood)
          \/ RefusalCounted(LivePins, h, flood)
    BY Zenon, <1>6 DEF RefusalJudged
  <2>2. Fits(flood) /\ DOMAIN flood \subseteq DOMAIN silent_flood \cup {h}
    BY Zenon, FloodFits
  <2>3. trusted' = trusted
    BY Zenon, <1>6 DEF RefusalJudged
  <2>4. CASE learn_silent(LivePins, h, "flood", silent_pending, flood)
    BY Zenon, <1>2, <2>2, <2>3, <2>4, LearnSilentTables DEF Fits
  <2>5. CASE /\ silent_pending' = Remove(silent_pending, h)
             /\ silent_flood' = flood
             /\ held_back_logged' \in log_held_back(h, flood[h])
             /\ pins' = LivePins
             /\ UNCHANGED recent
    <3>1. Fits(silent_pending') /\ Fits(silent_flood') /\ Fits(held_back_logged')
      BY Zenon, <2>2, <2>5, FitsRemove, HeldBackFits
    <3>2. PinnedHasNothingPending'
      <4>1. /\ DOMAIN pins' \subseteq DOMAIN LivePins
            /\ DOMAIN recent' \subseteq DOMAIN recent \cup {h}
            /\ DOMAIN silent_pending' \subseteq DOMAIN silent_pending \cup {h}
            /\ DOMAIN silent_flood' \subseteq DOMAIN silent_flood \cup {h}
        <5> HIDE DEF TablesInv, AllFit
        <5> QED BY Zenon, <2>2, <2>5, RemoveIs
      <4>2. PinnedHasNothingPending
        OBVIOUS
      <4> HIDE DEF TablesInv, AllFit
      <4> QED BY Zenon, <1>3, <4>1, <4>2, DisjointAfterCount
    <3> QED BY Zenon, <1>2, <2>3, <2>5, <3>1, <3>2 DEF Fits
  <2>6. CASE RefusalCounted(LivePins, h, flood)
    <3>1. PICK pending \in count_pending(h) :
            \/ learn_silent(LivePins, h, "silent", pending, flood)
            \/ /\ silent_pending' = pending
               /\ silent_flood' = flood
               /\ pins' = LivePins
               /\ UNCHANGED <<recent, upstream, silent, held_back_logged, cause>>
      BY Zenon, <2>6 DEF RefusalCounted
    <3>2. Fits(pending) /\ DOMAIN pending \subseteq DOMAIN silent_pending \cup {h}
      BY Zenon, PendingFits
    <3>3. CASE learn_silent(LivePins, h, "silent", pending, flood)
      BY Zenon, <1>2, <2>2, <2>3, <3>2, <3>3, LearnSilentTables DEF Fits
    <3>4. CASE /\ silent_pending' = pending
               /\ silent_flood' = flood
               /\ pins' = LivePins
               /\ UNCHANGED <<recent, held_back_logged>>
      <4>1. PinnedHasNothingPending'
        BY Zenon, <1>3, <2>2, <3>2, <3>4, DisjointAfterCount
      <4> QED BY Zenon, <1>2, <2>2, <2>3, <3>2, <3>4, <4>1 DEF Fits
    <3> QED BY Zenon, <3>1, <3>3, <3>4
  <2> QED BY Zenon, <2>1, <2>4, <2>5, <2>6 DEF RefusalOfTrusting
<1> QED BY Zenon, <1>4, <1>5, <1>6 DEF RefusalOfUnpinned

LEMMA HandshakeTables ==
  ASSUME TablesInv, NEW h \in Hosts, record_intercepted_handshake(h)
  PROVE  TablesInv'
<1> USE DEF TablesInv, AllFit
<1>1. PICK fresh, last, value, room :
        /\ room \in room_for(trusted, h, fresh, last)
        /\ trusted' = Insert(room, h, value)
  BY Zenon DEF record_intercepted_handshake
<1>2. Fits(trusted')
  BY Zenon, <1>1, RoomForFits
<1>3. silent_pending' = Remove(silent_pending, h)
  BY Zenon DEF record_intercepted_handshake
<1>4. Fits(silent_pending') /\ DOMAIN silent_pending' \subseteq DOMAIN silent_pending
  BY Zenon, <1>3, FitsRemove, RemoveIs
<1> QED
  BY Zenon, <1>2, <1>4
  DEF record_intercepted_handshake, PinnedHasNothingPending, Fits

LEMMA TablesStep == TablesInv /\ [Next]_vars => TablesInv'
<1> SUFFICES ASSUME TablesInv, [Next]_vars PROVE TablesInv'
  OBVIOUS
<1>1. CASE \E h \in AlertHosts : record_client_rejection(h)
  BY Zenon, <1>1, HostAssumption, RejectionTables
<1>2. CASE \E h \in UpstreamHosts : learn_upstream_untrusted(h)
  BY Zenon, <1>2, HostAssumption, UpstreamTables
<1>3. CASE \E h \in SilentHosts : record_silent_refusal(h)
  <2>1. CASE \E h \in SilentHosts : AlreadyPinned(h)
    BY Zenon, <2>1, LivePinsShrink
    DEF AlreadyPinned, tables, TablesInv, AllFit, PinnedHasNothingPending, Fits
  <2>2. CASE \E h \in SilentHosts : RefusalOfUnpinned(h)
    BY Zenon, <2>2, HostAssumption, RefusalTables
  <2> QED BY Zenon, <1>3, <2>1, <2>2 DEF record_silent_refusal
<1>4. CASE \E h \in HandshakeHosts : record_intercepted_handshake(h)
  BY Zenon, <1>4, HostAssumption, HandshakeTables
<1>5. CASE \E t \in Readings : on_network_change(t)
  <2>1. /\ DOMAIN pins' \subseteq DOMAIN pins
        /\ silent_pending' = Empty /\ silent_flood' = Empty /\ silent_hosts' = Empty
        /\ UNCHANGED <<recent, trusted, held_back_logged>>
    BY Zenon, <1>5, TakeBackShrinks DEF on_network_change
  <2>2. PinnedHasNothingPending'
    BY Zenon, <2>1 DEF TablesInv, PinnedHasNothingPending, Empty
  <2> QED BY Zenon, <2>1, <2>2, FitsEmpty DEF TablesInv, AllFit, Fits
<1>6. CASE \E hosts \in SUBSET ForgetHosts : forget_pins(hosts)
  <2>1. /\ DOMAIN pins' \subseteq DOMAIN pins
        /\ DOMAIN recent' \subseteq DOMAIN recent
        /\ DOMAIN silent_pending' \subseteq DOMAIN silent_pending
        /\ DOMAIN silent_flood' \subseteq DOMAIN silent_flood
        /\ UNCHANGED <<silent_hosts, trusted, held_back_logged>>
    BY Zenon, <1>6 DEF forget_pins, Restrict
  <2>2. Fits(recent') /\ Fits(silent_pending') /\ Fits(silent_flood')
    BY Zenon, <2>1, FitsSmaller DEF TablesInv, AllFit
  <2> QED BY Zenon,
             <2>1, <2>2 DEF TablesInv, AllFit, PinnedHasNothingPending, Fits
<1>7. CASE UNCHANGED <<pins, tables>>
  BY Zenon, <1>7 DEF tables, TablesInv, AllFit, PinnedHasNothingPending, Fits
<1> QED
  BY Zenon, <1>1, <1>2, <1>3, <1>4, <1>5, <1>6, <1>7
  DEF Next, SteadyNext, Learn, Tick, SetClock, vars

LEMMA TablesInvariant == Spec => []TablesInv
BY TablesInit, TablesStep, PTL DEF Spec

\* No table of hosts holds more than MAX_RECENT_REJECTIONS of them, for any
\* number of hosts and any order of events (make_room and its callers).
THEOREM TablesBoundedHolds == Spec => []TablesBounded
<1>1. TablesInv => TablesBounded
  BY Zenon DEF TablesInv, AllFit, Fits, TablesBounded
<1> QED BY <1>1, TablesInvariant, PTL

\* Nothing stays pending for a host that became a pin, whichever rule made it
\* one (the doc comments of recent, silent_pending and silent_flood).
THEOREM PinnedHasNothingPendingHolds == Spec => []PinnedHasNothingPending
<1>1. TablesInv => PinnedHasNothingPending
  BY Zenon DEF TablesInv
<1> QED BY <1>1, TablesInvariant, PTL

(***************************************************************************)
(* Types, with the tables' domains from TablesInv.                         *)
(***************************************************************************)

Times(map) == \A h \in DOMAIN map : map[h] \in Nat

PendingOK(set) ==
  set \subseteq Nat /\ IsFiniteSet(set)
  /\ Cardinality(set) \in 1 .. SILENT_REFUSALS - 1

TypeInv ==
  /\ now \in Nat
  /\ DOMAIN pins \subseteq Hosts
  /\ Times(pins) /\ Times(recent) /\ Times(silent_hosts)
  /\ Times(held_back_logged)
  /\ upstream \subseteq Hosts \X Nat /\ silent \subseteq Hosts \X Nat
  /\ upstream_suppressed_until \in Nat /\ silent_suppressed_until \in Nat
  /\ \A h \in DOMAIN silent_pending : PendingOK(silent_pending[h])
  /\ \A h \in DOMAIN silent_flood : IsPerSecond(silent_flood[h])
  /\ \A h \in DOMAIN trusted :
       trusted[h].last \in Nat /\ IsPerSecond(trusted[h].recent)
  /\ cause \in [Hosts -> Causes]

LEMMA TypeFromInv == TypeInv /\ TablesInv => TypeOK
BY Zenon DEF TypeInv, TablesInv, AllFit, Fits, Times, PendingOK, TypeOK

LEMMA TypeInit == Init => TypeInv
<1> SUFFICES ASSUME Init PROVE TypeInv
  OBVIOUS
<1>1. DOMAIN pins \subseteq Hosts /\ Times(pins)
  BY Zenon, ClockAssumption DEF Init, Times
<1>2. Times(recent) /\ Times(silent_hosts) /\ Times(held_back_logged)
  BY Zenon DEF Init, Times, Empty
<1>3. cause \in [Hosts -> Causes]
  BY Zenon DEF Init, Causes
<1>4. /\ DOMAIN silent_pending = {} /\ DOMAIN silent_flood = {}
      /\ DOMAIN trusted = {}
  BY Zenon DEF Init, Empty
<1> QED BY Zenon, <1>1, <1>2, <1>3, <1>4 DEF Init, TypeInv, NotSuppressed

LEMMA AddType ==
  ASSUME NEW perSecond, NEW t \in Nat, IsPerSecond(perSecond)
  PROVE  IsPerSecond(Add(perSecond, t))
<1> DEFINE kept == Restrict(perSecond, Seconds(perSecond, t))
           one == IF t \in DOMAIN kept THEN kept[t] + 1 ELSE 1
<1>1. DOMAIN kept \subseteq Nat /\ \A s \in DOMAIN kept : kept[s] \in Nat \ {0}
  BY Zenon DEF Restrict, Seconds, IsPerSecond
<1>2. one \in Nat \ {0}
  BY <1>1
<1>3. Add(perSecond, t) = Insert(kept, t, one)
  BY Zenon DEF Add
<1> HIDE DEF kept, one
<1> QED BY Zenon, <1>1, <1>2, <1>3 DEF Insert, IsPerSecond

LEMMA EmptyPerSecond == IsPerSecond(Empty)
BY Zenon DEF IsPerSecond, Empty

LEMMA FloodType ==
  ASSUME TypeInv, TablesInv, NEW h \in Hosts, NEW flood \in count_for_flood(h)
  PROVE  \A k \in DOMAIN flood : IsPerSecond(flood[k])
<1>1. PICK fresh, last, room :
        /\ room \in room_for(silent_flood, h, fresh, last)
        /\ flood = Insert(room, h, Add(IF h \in DOMAIN room THEN room[h]
                                       ELSE Empty, now))
  BY Zenon DEF count_for_flood
<1>2. /\ DOMAIN room \subseteq DOMAIN silent_flood
      /\ \A k \in DOMAIN room : room[k] = silent_flood[k]
  BY Zenon, <1>1, RoomForFits DEF TablesInv, AllFit
<1> DEFINE old == IF h \in DOMAIN room THEN room[h] ELSE Empty
<1>3. IsPerSecond(old)
  BY Zenon, <1>2, EmptyPerSecond DEF TypeInv
<1>4. IsPerSecond(Add(old, now))
  BY Zenon, <1>3, AddType DEF TypeInv
<1>5. flood = Insert(room, h, Add(old, now))
  BY Zenon, <1>1
<1> HIDE DEF old
<1> QED BY Zenon, <1>2, <1>4, <1>5 DEF Insert, TypeInv

LEMMA BelowLimit ==
  ASSUME NEW n \in Nat, NEW limit \in Nat, ~(n >= limit)
  PROVE  n <= limit - 1
OBVIOUS

LEMMA AtMostBelow ==
  ASSUME NEW n \in Nat, NEW m \in Nat, NEW limit \in Nat, n <= m, m <= limit - 1
  PROVE  n <= limit - 1
OBVIOUS

LEMMA CountInRange ==
  ASSUME NEW n \in Nat, NEW limit \in Nat, n # 0, n <= limit - 1
  PROVE  n \in 1 .. limit - 1
OBVIOUS

LEMMA PendingType ==
  ASSUME TypeInv, TablesInv, NEW h \in Hosts, NEW pending \in count_pending(h),
         ~(SecondIsNew(h) /\ Cardinality(pending[h]) >= SILENT_REFUSALS)
  PROVE  \A k \in DOMAIN pending : PendingOK(pending[k])
<1> DEFINE before == IF h \in DOMAIN silent_pending
                     THEN {s \in silent_pending[h] :
                             within(s, now, REJECTION_WINDOW_SECS)}
                     ELSE {}
<1>1. PICK fresh, last, room :
        /\ room \in room_for(silent_pending, h, fresh, last)
        /\ pending = Insert(room, h, before \cup {now})
  BY Zenon DEF count_pending
<1>2. /\ DOMAIN room \subseteq DOMAIN silent_pending
      /\ \A k \in DOMAIN room : room[k] = silent_pending[k]
  BY Zenon, <1>1, RoomForFits DEF TablesInv, AllFit
<1>3. IsFiniteSet(before) /\ before \subseteq Nat
  BY Zenon, FS_Subset, FS_EmptySet DEF TypeInv, PendingOK
<1>4. /\ pending[h] = before \cup {now}
      /\ \A k \in DOMAIN pending : k # h => k \in DOMAIN room /\ pending[k] = room[k]
  <2> HIDE DEF before
  <2> QED BY Zenon, <1>1 DEF Insert
<1>5. /\ IsFiniteSet(pending[h])
      /\ Cardinality(pending[h]) \in Nat
      /\ Cardinality(pending[h]) # 0
      /\ pending[h] \subseteq Nat
  <2> HIDE DEF before
  <2>1. IsFiniteSet(before \cup {now})
    BY Zenon, <1>3, FS_AddElement
  <2>2. before \cup {now} # {}
    OBVIOUS
  <2> QED BY Zenon,
             <1>3, <1>4, <2>1, <2>2, FS_CardinalityType, FS_EmptySet DEF TypeInv
<1>6. Cardinality(pending[h]) <= SILENT_REFUSALS - 1
  <2>1. CASE SecondIsNew(h)
    <3>1. ~(Cardinality(pending[h]) >= SILENT_REFUSALS)
      BY Zenon, <2>1
    <3> HIDE DEF before
    <3> QED BY <1>5, <3>1, WindowSizes, BelowLimit, Zenon
  <2>2. CASE ~SecondIsNew(h)
    <3>1. h \in DOMAIN silent_pending /\ now \in silent_pending[h]
      BY Zenon, <2>2 DEF SecondIsNew
    <3>2. pending[h] \subseteq silent_pending[h]
      BY Zenon, <1>4, <3>1
    <3>3. PendingOK(silent_pending[h])
      BY Zenon, <3>1 DEF TypeInv
    <3>4. Cardinality(pending[h]) <= Cardinality(silent_pending[h])
      BY Zenon, <3>2, <3>3, FS_Subset DEF PendingOK
    <3>5. SILENT_REFUSALS \in Nat
      BY Zenon, WindowSizes
    <3>6. /\ Cardinality(silent_pending[h]) \in Nat
          /\ Cardinality(silent_pending[h]) <= SILENT_REFUSALS - 1
      BY <3>3, <3>5, SMTT(30) DEF PendingOK
    <3> HIDE DEF before
    <3> QED BY <1>5, <3>4, <3>5, <3>6, AtMostBelow, Zenon
  <2> QED BY Zenon, <2>1, <2>2
<1>7. PendingOK(pending[h])
  <2>1. SILENT_REFUSALS \in Nat
    BY Zenon, WindowSizes
  <2>2. Cardinality(pending[h]) \in 1 .. SILENT_REFUSALS - 1
    <3> HIDE DEF before
    <3> QED BY <1>5, <1>6, <2>1, CountInRange, Zenon
  <2> HIDE DEF before
  <2> QED BY Zenon, <1>5, <2>2 DEF PendingOK
<1> QED BY Zenon, <1>2, <1>4, <1>7 DEF TypeInv

\* The pins, the lists that take them back, and their causes.
CoreType ==
  /\ DOMAIN pins \subseteq Hosts /\ Times(pins)
  /\ upstream \subseteq Hosts \X Nat /\ silent \subseteq Hosts \X Nat
  /\ cause \in [Hosts -> Causes]

LEMMA CoreTypeStep ==
  ASSUME TypeInv, Next
  PROVE  CoreType'
<1>1. CASE Drops
  BY Zenon, <1>1 DEF Drops, TypeInv, CoreType, Times
<1>2. CASE LearnsSome
  <2>1. PICK h \in Hosts, why \in {"alert", "upstream", "silent", "flood"} :
          Learns(h, why)
    BY Zenon, <1>2 DEF LearnsSome
  <2>2. <<h, now>> \in Hosts \X Nat
    BY Zenon DEF TypeInv
  <2>3. upstream' \subseteq Hosts \X Nat /\ silent' \subseteq Hosts \X Nat
    BY Zenon, <2>1, <2>2 DEF Learns, TypeInv
  <2>4. DOMAIN pins' \subseteq Hosts /\ Times(pins')
    BY Zenon, <2>1 DEF Learns, TypeInv, Times
  <2>5. cause' \in [Hosts -> Causes]
    BY Zenon, <2>1 DEF Learns, TypeInv, Causes
  <2> QED BY Zenon, <2>3, <2>4, <2>5 DEF CoreType
<1> QED BY Zenon, <1>1, <1>2, NextShape

\* The rest of the learning state.
RestType ==
  /\ now \in Nat
  /\ Times(recent) /\ Times(silent_hosts) /\ Times(held_back_logged)
  /\ upstream_suppressed_until \in Nat /\ silent_suppressed_until \in Nat
  /\ \A h \in DOMAIN silent_pending : PendingOK(silent_pending[h])
  /\ \A h \in DOMAIN silent_flood : IsPerSecond(silent_flood[h])
  /\ \A h \in DOMAIN trusted :
       trusted[h].last \in Nat /\ IsPerSecond(trusted[h].recent)

LEMMA TypeIsParts == TypeInv <=> CoreType /\ RestType
BY Zenon DEF TypeInv, CoreType, RestType

LEMMA RejectionType ==
  ASSUME RestType, TablesInv, NEW h \in Hosts, record_client_rejection(h)
  PROVE  RestType'
<1> USE DEF RestType
<1>1. CASE AlreadyPinned(h)
  BY Zenon, <1>1 DEF AlreadyPinned, tables, Times
<1>2. CASE SecondRejection(h)
  BY Zenon, <1>2 DEF SecondRejection, ForgetPending, Remove, Restrict, Times
<1>3. CASE FirstRejection(h)
  <2>1. PICK fresh, room :
          /\ room \in make_room(recent, fresh, recent)
          /\ recent' = Insert(room, h, now)
    BY Zenon, <1>3 DEF FirstRejection
  <2>2. DOMAIN room \subseteq DOMAIN recent /\ \A k \in DOMAIN room : room[k] = recent[k]
    BY Zenon, <2>1, MakeRoomLeavesRoom DEF TablesInv, AllFit
  <2>3. Times(recent')
    BY Zenon, <2>1, <2>2 DEF Insert, Times
  <2> QED BY Zenon, <1>3, <2>3 DEF FirstRejection, Times
<1> QED BY Zenon, <1>1, <1>2, <1>3 DEF record_client_rejection

LEMMA UpstreamType ==
  ASSUME RestType, NEW h \in Hosts, learn_upstream_untrusted(h)
  PROVE  RestType'
<1> USE DEF RestType
<1>1. CASE AlreadyPinned(h) \/ UpstreamIgnored(h)
  BY Zenon, <1>1 DEF AlreadyPinned, UpstreamIgnored, tables, Times
<1>2. CASE UpstreamBurstSeen(h)
  <2>1. now + UPSTREAM_SUPPRESS_SECS \in Nat
    BY WindowSizes, SMTT(30)
  <2> QED BY Zenon, <1>2, <2>1 DEF UpstreamBurstSeen, Times
<1>3. CASE UpstreamLearned(h)
  BY Zenon, <1>3
  DEF UpstreamLearned, ForgetPending, Remove, Restrict, Times, NotSuppressed
<1> QED BY Zenon, <1>1, <1>2, <1>3 DEF learn_upstream_untrusted

LEMMA HeldBackType ==
  ASSUME RestType, TablesInv, NEW h \in Hosts, NEW refusals,
         NEW logged \in log_held_back(h, refusals)
  PROVE  Times(logged)
<1>1. CASE logged = held_back_logged
  BY Zenon, <1>1 DEF RestType
<1>2. CASE \E fresh, room :
             /\ room \in room_for(held_back_logged, h, fresh, held_back_logged)
             /\ logged = Insert(room, h, now)
  <2>1. PICK fresh, room :
          /\ room \in room_for(held_back_logged, h, fresh, held_back_logged)
          /\ logged = Insert(room, h, now)
    BY Zenon, <1>2
  <2>2. /\ DOMAIN room \subseteq DOMAIN held_back_logged
        /\ \A k \in DOMAIN room : room[k] = held_back_logged[k]
    BY Zenon, <2>1, RoomForFits DEF TablesInv, AllFit
  <2> QED BY Zenon, <2>1, <2>2 DEF Insert, Times, RestType
<1> QED BY Zenon, <1>1, <1>2 DEF log_held_back

LEMMA NoteType ==
  ASSUME RestType, TablesInv, NEW h \in Hosts, NEW noted \in note_silent_host(h)
  PROVE  Times(noted)
<1> DEFINE kept == Restrict(silent_hosts,
                     {k \in DOMAIN silent_hosts :
                        within(silent_hosts[k], now, SILENT_BURST_SECS)})
<1>1. PICK room \in room_for(kept, h, DOMAIN kept, kept) :
        noted = Insert(room, h, now)
  BY Zenon DEF note_silent_host
<1>2. Fits(kept)
  BY Zenon, FitsSmaller DEF Restrict, TablesInv, AllFit
<1>3. Times(kept)
  BY Zenon DEF Restrict, Times, RestType
<1> HIDE DEF kept
<1>4. DOMAIN room \subseteq DOMAIN kept /\ \A k \in DOMAIN room : room[k] = kept[k]
  BY Zenon, <1>1, <1>2, RoomForFits
<1> QED BY Zenon, <1>1, <1>3, <1>4 DEF Insert, Times, RestType

LEMMA LearnSilentType ==
  ASSUME RestType, NEW h, NEW why, NEW pending, NEW flood,
         \A k \in DOMAIN pending : k # h => PendingOK(pending[k]),
         \A k \in DOMAIN flood : IsPerSecond(flood[k]),
         learn_silent(LivePins, h, why, pending, flood)
  PROVE  /\ Times(recent') /\ Times(held_back_logged')
         /\ \A k \in DOMAIN silent_pending' : PendingOK(silent_pending'[k])
         /\ \A k \in DOMAIN silent_flood' : IsPerSecond(silent_flood'[k])
BY Zenon DEF RestType, learn_silent, Remove, Restrict, Times

\* The other hosts' pending refusals are as they were.
LEMMA PendingOthers ==
  ASSUME TypeInv, TablesInv, NEW h \in Hosts, NEW pending \in count_pending(h)
  PROVE  \A k \in DOMAIN pending : k # h => PendingOK(pending[k])
<1>1. PICK fresh, last, value, room :
        /\ room \in room_for(silent_pending, h, fresh, last)
        /\ pending = Insert(room, h, value)
  BY Zenon DEF count_pending
<1>2. /\ DOMAIN room \subseteq DOMAIN silent_pending
      /\ \A k \in DOMAIN room : room[k] = silent_pending[k]
  BY Zenon, <1>1, RoomForFits DEF TablesInv, AllFit
<1> QED BY Zenon, <1>1, <1>2 DEF Insert, TypeInv

LEMMA RefusalType ==
  ASSUME TypeInv, TablesInv, NEW h \in Hosts, RefusalOfUnpinned(h)
  PROVE  RestType'
<1>0. RestType
  BY Zenon, TypeIsParts
<1>1. PICK noted \in note_silent_host(h) : silent_hosts' = noted
  BY Zenon DEF RefusalOfUnpinned
<1>2. Times(silent_hosts')
  BY Zenon, <1>0, <1>1, NoteType
<1>3. CASE silent_burst(LivePins)
  <2>1. now + SILENT_SUPPRESS_SECS \in Nat
    <3>1. now \in Nat
      BY <1>0, Zenon DEF RestType
    <3> QED BY <3>1, WindowSizes, SMTT(30)
  <2>2. /\ DOMAIN silent_pending' = {} /\ DOMAIN silent_flood' = {}
    BY Zenon, <1>3 DEF silent_burst, Empty
  <2>3. /\ silent_suppressed_until' \in Nat
        /\ UNCHANGED <<now, recent, upstream_suppressed_until, trusted,
                       held_back_logged>>
    BY Zenon, <1>3, <2>1 DEF silent_burst
  <2> QED BY Zenon, <1>0, <1>2, <2>2, <2>3 DEF RestType, Times
<1>4. CASE RefusalIgnored(LivePins)
  BY Zenon, <1>0, <1>2, <1>4 DEF RefusalIgnored, RestType, Times
<1>5. CASE RefusalJudged(LivePins, h)
  <2>1. PICK flood \in count_for_flood(h) :
          \/ RefusalOfTrusting(LivePins, h, flood)
          \/ RefusalCounted(LivePins, h, flood)
    BY Zenon, <1>5 DEF RefusalJudged
  <2>2. \A k \in DOMAIN flood : IsPerSecond(flood[k])
    BY Zenon, FloodType
  <2>3. /\ silent_suppressed_until' = NotSuppressed
        /\ UNCHANGED <<now, upstream_suppressed_until, trusted>>
    BY Zenon, <1>5 DEF RefusalJudged
  <2> DEFINE Learned ==
        /\ Times(recent') /\ Times(held_back_logged')
        /\ \A k \in DOMAIN silent_pending' : PendingOK(silent_pending'[k])
        /\ \A k \in DOMAIN silent_flood' : IsPerSecond(silent_flood'[k])
  <2>4. SUFFICES Learned
    BY Zenon, <1>0, <1>2, <2>3 DEF RestType, NotSuppressed
  <2>5. CASE learn_silent(LivePins, h, "flood", silent_pending, flood)
    BY Zenon, <1>0, <2>2, <2>5, LearnSilentType DEF RestType
  <2>6. CASE /\ silent_pending' = Remove(silent_pending, h)
             /\ silent_flood' = flood
             /\ held_back_logged' \in log_held_back(h, flood[h])
             /\ UNCHANGED recent
    <3>1. Times(held_back_logged')
      BY Zenon, <1>0, <2>6, HeldBackType
    <3> QED BY Zenon,
               <1>0, <2>2, <2>6, <3>1 DEF RestType, Remove, Restrict, Times
  <2>7. CASE RefusalCounted(LivePins, h, flood)
    <3>1. PICK pending \in count_pending(h) :
            IF SecondIsNew(h) /\ Cardinality(pending[h]) >= SILENT_REFUSALS
            THEN learn_silent(LivePins, h, "silent", pending, flood)
            ELSE /\ silent_pending' = pending
                 /\ silent_flood' = flood
                 /\ UNCHANGED <<recent, held_back_logged>>
      BY Zenon, <2>7 DEF RefusalCounted
    <3>2. CASE learn_silent(LivePins, h, "silent", pending, flood)
      BY Zenon, <1>0, <2>2, <3>2, PendingOthers, LearnSilentType
    <3>3. CASE ~(SecondIsNew(h) /\ Cardinality(pending[h]) >= SILENT_REFUSALS)
      <4>1. \A k \in DOMAIN pending : PendingOK(pending[k])
        BY Zenon, <3>3, PendingType
      <4> QED BY Zenon, <1>0, <2>2, <3>1, <3>3, <4>1 DEF RestType, Times
    <3> QED BY Zenon, <3>1, <3>2, <3>3
  <2> QED BY Zenon, <2>1, <2>5, <2>6, <2>7 DEF RefusalOfTrusting
<1> QED BY Zenon, <1>3, <1>4, <1>5 DEF RefusalOfUnpinned

LEMMA HandshakeType ==
  ASSUME RestType, TablesInv, NEW h \in Hosts, record_intercepted_handshake(h)
  PROVE  RestType'
<1> DEFINE counted == IF h \in DOMAIN trusted THEN trusted[h].recent ELSE Empty
           entry == [last |-> now, recent |-> Add(counted, now)]
<1>1. PICK fresh, last, room :
        /\ room \in room_for(trusted, h, fresh, last)
        /\ trusted' = Insert(room, h, entry)
  BY Zenon DEF record_intercepted_handshake
<1>2. /\ DOMAIN room \subseteq DOMAIN trusted
      /\ \A k \in DOMAIN room : room[k] = trusted[k]
  BY Zenon, <1>1, RoomForFits DEF TablesInv, AllFit
<1>3. IsPerSecond(counted)
  BY Zenon, EmptyPerSecond DEF RestType
<1>4. entry.last \in Nat /\ IsPerSecond(entry.recent)
  BY Zenon, <1>3, AddType DEF RestType
<1> HIDE DEF counted, entry
<1>5. \A k \in DOMAIN trusted' :
        trusted'[k].last \in Nat /\ IsPerSecond(trusted'[k].recent)
  BY Zenon, <1>1, <1>2, <1>4 DEF Insert, RestType
<1> QED
  BY Zenon,
     <1>5 DEF record_intercepted_handshake, RestType, Remove, Restrict, Times

LEMMA TypeStep == TypeInv /\ TablesInv /\ [Next]_vars => TypeInv'
<1> SUFFICES ASSUME TypeInv, TablesInv, [Next]_vars PROVE TypeInv'
  OBVIOUS
<1>0. RestType
  BY Zenon, TypeIsParts
<1>1. CASE UNCHANGED vars
  BY Zenon, <1>1 DEF vars, tables, TypeInv, Times
<1>2. CASE Next
  <2>1. CoreType'
    BY Zenon, <1>2, CoreTypeStep
  <2>2. RestType'
    <3>1. CASE \E h \in AlertHosts : record_client_rejection(h)
      BY Zenon, <1>0, <3>1, HostAssumption, RejectionType
    <3>2. CASE \E h \in UpstreamHosts : learn_upstream_untrusted(h)
      BY Zenon, <1>0, <3>2, HostAssumption, UpstreamType
    <3>3. CASE \E h \in SilentHosts : AlreadyPinned(h)
      BY Zenon, <1>0, <3>3 DEF AlreadyPinned, tables, RestType, Times
    <3>4. CASE \E h \in SilentHosts : RefusalOfUnpinned(h)
      BY Zenon, <3>4, HostAssumption, RefusalType
    <3>5. CASE \E h \in HandshakeHosts : record_intercepted_handshake(h)
      BY Zenon, <1>0, <3>5, HostAssumption, HandshakeType
    <3>6. CASE \E t \in Readings : on_network_change(t)
      BY Zenon, <1>0, <3>6 DEF on_network_change, Empty, RestType, Times
    <3>7. CASE \E hosts \in SUBSET ForgetHosts : forget_pins(hosts)
      BY Zenon, <1>0, <3>7 DEF forget_pins, Restrict, RestType, Times
    <3>8. CASE Tick
      <4>0. now \in Nat /\ now' = now + 1
        BY <1>0, <3>8, Zenon DEF Tick, RestType
      <4>1. now' \in Nat
        BY <4>0
      <4>2. UNCHANGED tables
        BY Zenon, <3>8 DEF Tick
      <4> QED
        BY Zenon, <1>0, <4>1, <4>2 DEF tables, RestType, Times
    <3>9. CASE SetClock
      <4>1. now' \in Nat
        BY Zenon, <3>9, ClockAssumption DEF SetClock
      <4>2. UNCHANGED tables
        BY Zenon, <3>9 DEF SetClock
      <4> QED
        BY Zenon, <1>0, <4>1, <4>2 DEF tables, RestType, Times
    <3> QED
      BY Zenon, <1>2, <3>1, <3>2, <3>3, <3>4, <3>5, <3>6, <3>7, <3>8, <3>9
      DEF Next, SteadyNext, Learn, record_silent_refusal
  <2>3. CoreType' /\ RestType' => TypeInv'
    BY Zenon DEF TypeInv, CoreType, RestType
  <2> QED BY Zenon, <2>1, <2>2, <2>3
<1> QED BY Zenon, <1>1, <1>2

LEMMA TypeInvariant == Spec => []TypeInv
BY TypeInit, TypeStep, TablesInvariant, PTL DEF Spec

\* Type correctness, with the number of pending silent refusals below the
\* number that makes a pin (record_silent_refusal).
THEOREM TypeCorrect == Spec => []TypeOK
BY TypeInvariant, TablesInvariant, TypeFromInv, PTL

\* All four of the above at once: the tables of the learner (policy.rs: Pins).
THEOREM PinTablesHold == Spec => []PinTables
BY TypeCorrect, TablesBoundedHolds, PinnedHasNothingPendingHolds,
   TakesBackOwnPinsHolds, PTL DEF PinTables

-----------------------------------------------------------------------------
(***************************************************************************)
(* While the clock only moves forward the lists are right.  The invariant  *)
(* adds to the two properties that no time lies ahead of the clock, that   *)
(* an entry of the present second belongs to a pin, and that the host of   *)
(* every pin a silent burst would take back is still noted.                *)
(***************************************************************************)

TimesPassed ==
  /\ \A h \in DOMAIN pins :
       cause[h] \in {"upstream", "silent", "flood"} => pins[h] <= now
  /\ \A e \in silent :
       /\ e[2] <= now
       /\ e[2] = now => e[1] \in DOMAIN pins /\ pins[e[1]] = now

RefusalsNoted ==
  \A h \in LearnedWithin(SilentCauses, SILENT_BURST_SECS) :
    /\ h \in DOMAIN silent_hosts
    /\ pins[h] <= silent_hosts[h] /\ silent_hosts[h] <= now

SteadyInv == TimesPassed /\ ListsMatchPins /\ RefusalsNoted /\ NoBurstOfPins

LEMMA SteadyWindows ==
  /\ CLOCK_TOLERANCE_SECS \in Nat /\ CLOCK_TOLERANCE_SECS >= 1
  /\ UPSTREAM_BURST_SECS \in Nat /\ UPSTREAM_RECENT_SECS \in Nat
  /\ UPSTREAM_BURST_SECS <= UPSTREAM_RECENT_SECS
  /\ SILENT_BURST_SECS \in Nat /\ SILENT_RECENT_SECS \in Nat
  /\ SILENT_BURST_SECS <= SILENT_RECENT_SECS
  /\ UPSTREAM_BURST_HOSTS \in Nat /\ 0 < UPSTREAM_BURST_HOSTS
  /\ SILENT_BURST_HOSTS \in Nat /\ 0 < SILENT_BURST_HOSTS
  /\ SILENT_BURST_HOSTS <= MAX_RECENT_REJECTIONS
  /\ PIN_LIFETIME_SECS \in Nat /\ PIN_LIFETIME_SECS # 0
<1>1. /\ CLOCK_TOLERANCE_SECS \in Nat
      /\ UPSTREAM_BURST_SECS \in Nat /\ UPSTREAM_RECENT_SECS \in Nat
      /\ SILENT_BURST_SECS \in Nat /\ SILENT_RECENT_SECS \in Nat
  BY WindowAssumption, Zenon
<1>2. /\ UPSTREAM_BURST_HOSTS \in Nat \ {0} /\ SILENT_BURST_HOSTS \in Nat \ {0}
      /\ PIN_LIFETIME_SECS \in Nat \ {0}
  BY WindowAssumption, Zenon
<1>3. /\ UPSTREAM_BURST_SECS <= UPSTREAM_RECENT_SECS
      /\ SILENT_BURST_SECS <= SILENT_RECENT_SECS
      /\ SILENT_BURST_HOSTS <= MAX_RECENT_REJECTIONS
      /\ CLOCK_TOLERANCE_SECS >= 1
  BY WindowAssumption, Zenon
<1> QED BY <1>1, <1>2, <1>3

LEMMA WithinNow ==
  ASSUME NEW t \in Nat, NEW max \in Nat
  PROVE  within(t, t, max)
BY SteadyWindows DEF within

LEMMA LiveNow ==
  ASSUME NEW t \in Nat
  PROVE  pin_is_live(t, t)
BY SteadyWindows DEF within, pin_is_live

LEMMA WithinLater ==
  ASSUME NEW at \in Nat, NEW t \in Nat, NEW max \in Nat, at <= t,
         within(at, t + 1, max)
  PROVE  within(at, t, max)
BY SteadyWindows DEF within

LEMMA WithinWider ==
  ASSUME NEW at \in Nat, NEW t \in Nat, NEW max \in Nat, NEW wider \in Nat,
         max <= wider, within(at, t, max)
  PROVE  within(at, t, wider)
BY SteadyWindows DEF within

\* A network change that read the clock a second ago sees what is recent now.
LEMMA WithinEarlier ==
  ASSUME NEW at \in Nat, NEW t \in Nat, NEW max \in Nat, NEW read \in Nat,
         at <= t, read = t \/ read = t - 1, within(at, t, max)
  PROVE  within(at, read, max)
BY SteadyWindows DEF within

LEMMA WithinAfter ==
  ASSUME NEW at \in Nat, NEW after \in Nat, NEW t \in Nat, NEW max \in Nat,
         at <= after, after <= t, within(at, t, max)
  PROVE  within(after, t, max)
BY SteadyWindows DEF within

LEMMA FewerHosts ==
  ASSUME NEW T \in SUBSET Hosts, NEW S \in SUBSET T, NEW n \in Nat,
         Cardinality(T) < n
  PROVE  Cardinality(S) < n
<1>1. Cardinality(S) <= Cardinality(T) /\ Cardinality(S) \in Nat
      /\ Cardinality(T) \in Nat
  BY Zenon, HostsFinite, FS_Subset
<1> QED BY <1>1

LEMMA OneMoreHost ==
  ASSUME NEW T \in SUBSET Hosts, NEW h \in Hosts, NEW S \in SUBSET (T \cup {h})
  PROVE  Cardinality(S) <= Cardinality(T) + 1
<1>1. /\ IsFiniteSet(T) /\ Cardinality(T) \in Nat
      /\ IsFiniteSet(T \cup {h}) /\ Cardinality(T \cup {h}) \in Nat
      /\ Cardinality(S) \in Nat
  BY Zenon, HostsFinite
<1>2. Cardinality(T \cup {h}) <= Cardinality(T) + 1
  BY <1>1, FS_AddElement
<1>3. Cardinality(S) <= Cardinality(T \cup {h})
  BY Zenon, <1>1, FS_Subset
<1> QED BY <1>1, <1>2, <1>3

LEMMA LearnedAreHosts ==
  ASSUME TypeInv, NEW causes, NEW secs
  PROVE  LearnedWithin(causes, secs) \in SUBSET Hosts
BY Zenon DEF TypeInv, LearnedWithin

\* Entries that stay listed as long as they could be taken back.
StayListed(h) ==
  /\ <<h, pins[h]>> \in upstream /\ within(pins[h], now, UPSTREAM_RECENT_SECS)
       => <<h, pins[h]>> \in upstream'
  /\ <<h, pins[h]>> \in silent /\ within(pins[h], now, SILENT_RECENT_SECS)
       => <<h, pins[h]>> \in silent'

PresentPinned == \A e \in silent' : e[2] = now => e[1] \in DOMAIN pins'

LEMMA StillNoted ==
  ASSUME SteadyInv, Drops, now' = now, silent_hosts' = silent_hosts
  PROVE  RefusalsNoted'
BY Zenon DEF SteadyInv, RefusalsNoted, Drops, LearnedWithin

LEMMA DropsSteady ==
  ASSUME TypeInv, SteadyInv, Drops, now' = now,
         \A h \in DOMAIN pins' : StayListed(h),
         PresentPinned, RefusalsNoted'
  PROVE  SteadyInv'
<1>1. TimesPassed'
  BY Zenon DEF SteadyInv, TimesPassed, Drops, PresentPinned
<1>2. ListsMatchPins'
  BY Zenon DEF SteadyInv, ListsMatchPins, Drops, StayListed
<1>3. ASSUME NEW causes, NEW secs
      PROVE  LearnedWithin(causes, secs)' \in SUBSET LearnedWithin(causes, secs)
  BY Zenon DEF LearnedWithin, Drops
<1>4. NoBurstOfPins'
  BY Zenon, <1>3, LearnedAreHosts, FewerHosts, SteadyWindows
  DEF SteadyInv, NoBurstOfPins
<1> QED BY Zenon, <1>1, <1>2, <1>4 DEF SteadyInv

LEMMA LearnsSteady ==
  ASSUME TypeInv, SteadyInv, NEW h \in Hosts,
         NEW why \in {"alert", "upstream", "silent", "flood"},
         Learns(h, why), now' = now, h \notin DOMAIN LivePins,
         \A k \in DOMAIN pins' : k # h => StayListed(k),
         why = "upstream" => <<h, now>> \in upstream',
         why \in SilentCauses => <<h, now>> \in silent',
         PresentPinned, RefusalsNoted', NoBurstOfPins'
  PROVE  SteadyInv'
<1>0. now \in Nat /\ cause \in [Hosts -> Causes] /\ DOMAIN pins \subseteq Hosts
  BY Zenon DEF TypeInv
<1>1. /\ h \in DOMAIN pins' /\ pins'[h] = now /\ cause'[h] = why
      /\ \A k \in DOMAIN pins' : k # h =>
           /\ k \in DOMAIN pins /\ pins'[k] = pins[k] /\ cause'[k] = cause[k]
  BY Zenon, <1>0 DEF Learns
<1>2. <<h, now>> \notin silent
  <2>1. SUFFICES ASSUME <<h, now>> \in silent PROVE FALSE
    OBVIOUS
  <2>2. h \in DOMAIN pins /\ pins[h] = now
    BY Zenon, <2>1 DEF SteadyInv, TimesPassed
  <2> QED BY Zenon, <1>0, <2>2, LiveNow, LivePinsKeep
<1>3. TimesPassed'
  <2>1. ASSUME NEW k \in DOMAIN pins',
               cause'[k] \in {"upstream", "silent", "flood"}
        PROVE  pins'[k] <= now
    BY <1>0, <1>1, <2>1 DEF SteadyInv, TimesPassed
  <2>2. ASSUME NEW e \in silent'
        PROVE  /\ e[2] <= now
               /\ e[2] = now => e[1] \in DOMAIN pins' /\ pins'[e[1]] = now
    <3>1. CASE e \in silent
      BY Zenon, <1>1, <3>1 DEF SteadyInv, TimesPassed, PresentPinned
    <3>2. CASE e = <<h, now>>
      BY <1>0, <1>1, <3>2
    <3> QED BY Zenon, <3>1, <3>2 DEF Learns
  <2> QED BY Zenon, <2>1, <2>2 DEF TimesPassed
<1>4. ListsMatchPins'
  <2> DEFINE Matches(k) ==
        /\ cause'[k] = "upstream" /\ within(pins'[k], now, UPSTREAM_RECENT_SECS)
             => <<k, pins'[k]>> \in upstream'
        /\ cause'[k] \in SilentCauses /\ within(pins'[k], now, SILENT_RECENT_SECS)
             => <<k, pins'[k]>> \in silent'
        /\ <<k, pins'[k]>> \in silent' => cause'[k] \in SilentCauses
  <2>1. Matches(h)
    BY Zenon, <1>1, <1>2 DEF Learns
  <2>2. ASSUME NEW k \in DOMAIN pins', k # h PROVE Matches(k)
    <3>1. <<k, pins[k]>> \in silent' => <<k, pins[k]>> \in silent
      BY Zenon, <2>2 DEF Learns
    <3> QED BY Zenon, <1>1, <2>2, <3>1 DEF SteadyInv, ListsMatchPins, StayListed
  <2>3. \A k \in DOMAIN pins' : Matches(k)
    BY Zenon, <2>1, <2>2
  <2> QED BY Zenon, <2>3 DEF ListsMatchPins
<1> QED BY Zenon, <1>3, <1>4 DEF SteadyInv

\* A pin of the present second is live, so purging the expired ones keeps it.
LEMMA PresentIsLive ==
  ASSUME TypeInv, SteadyInv, NEW e \in silent, e[2] = now
  PROVE  /\ e[1] \in DOMAIN LivePins /\ LivePins[e[1]] = now
         /\ e = <<e[1], now>> /\ cause[e[1]] \in SilentCauses
<1>1. now \in Nat /\ e \in Hosts \X Nat
  BY Zenon DEF TypeInv
<1>2. e[1] \in DOMAIN pins /\ pins[e[1]] = now
  BY Zenon DEF SteadyInv, TimesPassed
<1>3. e = <<e[1], now>>
  BY <1>1
<1>4. e[1] \in DOMAIN LivePins /\ LivePins[e[1]] = now
  BY Zenon, <1>1, <1>2, LiveNow, LivePinsKeep
<1>5. cause[e[1]] \in SilentCauses
  BY Zenon, <1>2, <1>3 DEF SteadyInv, ListsMatchPins
<1> QED BY Zenon, <1>3, <1>4, <1>5

LEMMA PresentAfterLearn ==
  ASSUME TypeInv, SteadyInv, NEW h, NEW why, BecomesPin(LivePins, h, why),
         silent' \in SUBSET (silent \cup {<<h, now>>})
  PROVE  PresentPinned
<1>1. DOMAIN pins' = DOMAIN LivePins \cup {h}
  BY Zenon DEF BecomesPin, Insert
<1>2. ASSUME NEW e \in silent', e[2] = now PROVE e[1] \in DOMAIN pins'
  <2>1. CASE e \in silent
    BY Zenon, <1>1, <1>2, <2>1, PresentIsLive
  <2>2. CASE e = <<h, now>>
    BY Zenon, <1>1, <2>2
  <2> QED BY Zenon, <2>1, <2>2
<1> QED BY Zenon, <1>2 DEF PresentPinned

LEMMA PurgeSteady ==
  ASSUME TypeInv, SteadyInv, pins' = LivePins,
         UNCHANGED <<now, upstream, silent, silent_hosts, cause>>
  PROVE  SteadyInv'
<1>1. Drops
  BY Zenon, LivePinsShrink DEF Drops
<1>2. PresentPinned
  BY Zenon, PresentIsLive DEF PresentPinned
<1>3. \A h \in DOMAIN pins' : StayListed(h)
  BY Zenon DEF StayListed
<1> QED BY Zenon, <1>1, <1>2, <1>3, StillNoted, DropsSteady

\* The pins of the causes that the step does not teach only become fewer.
LEMMA LearnsOther ==
  ASSUME TypeInv, NEW h \in Hosts, NEW why, Learns(h, why), now' = now,
         NEW causes, why \notin causes, NEW secs
  PROVE  LearnedWithin(causes, secs)' \in SUBSET LearnedWithin(causes, secs)
<1>1. ASSUME NEW k \in LearnedWithin(causes, secs)'
      PROVE  k \in LearnedWithin(causes, secs)
  <2>1. /\ k \in DOMAIN pins' /\ cause'[k] \in causes
        /\ within(pins'[k], now, secs)
    BY Zenon, <1>1 DEF LearnedWithin
  <2>2. k # h
    BY Zenon, <2>1 DEF Learns, TypeInv
  <2>3. k \in DOMAIN pins /\ pins'[k] = pins[k] /\ cause'[k] = cause[k]
    BY Zenon, <2>1, <2>2 DEF Learns, TypeInv
  <2> QED BY Zenon, <2>1, <2>3 DEF LearnedWithin
<1> QED BY Zenon, <1>1

\* Another rule's pin does not change which silent refusals are noted.
LEMMA OtherStillNoted ==
  ASSUME TypeInv, SteadyInv, NEW h \in Hosts, NEW why, Learns(h, why),
         now' = now, why \notin SilentCauses, silent_hosts' = silent_hosts
  PROVE  RefusalsNoted'
<1>1. ASSUME NEW k \in LearnedWithin(SilentCauses, SILENT_BURST_SECS)'
      PROVE  /\ k \in LearnedWithin(SilentCauses, SILENT_BURST_SECS)
             /\ pins'[k] = pins[k]
  <2>1. k \in LearnedWithin(SilentCauses, SILENT_BURST_SECS)
    BY Zenon, <1>1, LearnsOther
  <2>2. k # h
    BY Zenon, <1>1 DEF Learns, TypeInv, LearnedWithin
  <2>3. k \in DOMAIN pins'
    BY Zenon, <1>1 DEF LearnedWithin
  <2> QED BY Zenon, <2>1, <2>2, <2>3 DEF Learns
<1> QED BY Zenon, <1>1 DEF SteadyInv, RefusalsNoted

LEMMA SecondRejectionSteady ==
  ASSUME TypeInv, SteadyInv, NEW h \in Hosts, SecondRejection(h)
  PROVE  SteadyInv'
<1>1. Learns(h, "alert")
  <2>1. BecomesPin(LivePins, h, "alert")
    BY Zenon DEF SecondRejection
  <2> QED BY Zenon,
             <2>1, BecomesPinIs DEF SecondRejection, NotOf, Learns, SilentCauses
<1>2. /\ now' = now /\ silent_hosts' = silent_hosts /\ h \notin DOMAIN LivePins
      /\ upstream' = NotOf(upstream, h) /\ silent' = NotOf(silent, h)
  BY Zenon DEF SecondRejection
<1>3. PresentPinned
  <2>1. BecomesPin(LivePins, h, "alert")
    BY Zenon DEF SecondRejection
  <2>2. silent' \in SUBSET (silent \cup {<<h, now>>})
    BY Zenon, <1>2 DEF NotOf
  <2> QED BY Zenon, <2>1, <2>2, PresentAfterLearn
<1>4. \A k \in DOMAIN pins' : k # h => StayListed(k)
  BY Zenon, <1>2 DEF StayListed, NotOf
<1>5. RefusalsNoted'
  BY Zenon, <1>1, <1>2, OtherStillNoted DEF SilentCauses
<1>6. NoBurstOfPins'
  <2>1. /\ LearnedWithin({"upstream"}, UPSTREAM_BURST_SECS)'
             \in SUBSET LearnedWithin({"upstream"}, UPSTREAM_BURST_SECS)
        /\ LearnedWithin(SilentCauses, SILENT_BURST_SECS)'
             \in SUBSET LearnedWithin(SilentCauses, SILENT_BURST_SECS)
    BY <1>1, <1>2, LearnsOther DEF SilentCauses
  <2> QED BY Zenon, <2>1, LearnedAreHosts, FewerHosts, SteadyWindows
          DEF SteadyInv, NoBurstOfPins
<1> QED BY Zenon,
           <1>1, <1>2, <1>3, <1>4, <1>5, <1>6, LearnsSteady DEF SilentCauses

\* A burst takes back every upstream pin of the burst window.
LEMMA UpstreamBurstSteady ==
  ASSUME TypeInv, OwnLists, SteadyInv, NEW h \in Hosts, UpstreamBurstSeen(h)
  PROVE  SteadyInv'
<1>1. /\ now' = now /\ silent_hosts' = silent_hosts /\ cause' = cause
      /\ silent' = silent /\ upstream' = RecentUpstream \ UpstreamBurst
      /\ pins' = take_back(LivePins, UpstreamBurst)
  BY Zenon DEF UpstreamBurstSeen
<1>2. \A k \in DOMAIN pins' :
        /\ k \in DOMAIN pins /\ pins'[k] = pins[k]
        /\ <<k, pins[k]>> \notin UpstreamBurst
  BY Zenon, <1>1, LivePinsShrink DEF take_back, Restrict
<1>3. Drops
  BY Zenon, <1>1, <1>2 DEF Drops, RecentUpstream
<1>4. PresentPinned
  <2>1. ASSUME NEW e \in silent, e[2] = now PROVE e[1] \in DOMAIN pins'
    <3>1. /\ e[1] \in DOMAIN LivePins /\ LivePins[e[1]] = now
          /\ cause[e[1]] \in SilentCauses
      BY Zenon, <2>1, PresentIsLive
    <3>2. <<e[1], now>> \notin upstream
      BY Zenon, <3>1, LivePinsShrink DEF OwnLists, SilentCauses
    <3>3. <<e[1], LivePins[e[1]]>> \notin UpstreamBurst
      BY Zenon, <3>1, <3>2 DEF UpstreamBurst, RecentUpstream
    <3> QED BY Zenon, <1>1, <3>1, <3>3, TakeBackKeeps
  <2> QED BY Zenon, <1>1, <2>1 DEF PresentPinned
<1>5. \A k \in DOMAIN pins' : StayListed(k)
  BY Zenon, <1>1, <1>2 DEF StayListed, RecentUpstream
<1> QED BY Zenon, <1>1, <1>3, <1>4, <1>5, StillNoted, DropsSteady

\* An upstream pin is learned only while fewer hosts than a burst, with it,
\* are upstream pins of the burst window.
LEMMA UpstreamLearnedSteady ==
  ASSUME TypeInv, SteadyInv, NEW h \in Hosts, UpstreamLearned(h)
  PROVE  SteadyInv'
<1>0. now \in Nat /\ upstream \subseteq Hosts \X Nat
  BY Zenon DEF TypeInv
<1>1. /\ now' = now /\ silent_hosts' = silent_hosts /\ h \notin DOMAIN LivePins
      /\ silent' = silent /\ upstream' = RecentUpstream \cup {<<h, now>>}
      /\ BecomesPin(LivePins, h, "upstream") /\ ~UpstreamIsBurst
  BY Zenon DEF UpstreamLearned
<1>2. Learns(h, "upstream")
  BY Zenon, <1>1, BecomesPinIs DEF Learns, RecentUpstream, SilentCauses
<1>3. PresentPinned
  BY Zenon, <1>1, PresentAfterLearn
<1>4. \A k \in DOMAIN pins' : k # h => StayListed(k)
  BY Zenon, <1>1 DEF StayListed, RecentUpstream
<1>5. RefusalsNoted'
  BY Zenon, <1>1, <1>2, OtherStillNoted DEF SilentCauses
<1>6. NoBurstOfPins'
  <2> DEFINE burst == {e[1] : e \in UpstreamBurst}
             learned == LearnedWithin({"upstream"}, UPSTREAM_BURST_SECS)'
  <2>1. burst \in SUBSET Hosts
    BY Zenon, <1>0 DEF UpstreamBurst, RecentUpstream
  <2>2. ASSUME NEW k \in learned, k # h PROVE k \in burst
    <3>1. /\ k \in DOMAIN pins /\ cause[k] = "upstream"
          /\ within(pins[k], now, UPSTREAM_BURST_SECS)
      BY Zenon, <1>1, <1>2, <2>2 DEF LearnedWithin, Learns, TypeInv
    <3>2. pins[k] \in Nat
      BY Zenon, <3>1 DEF TypeInv, Times
    <3>3. within(pins[k], now, UPSTREAM_RECENT_SECS)
      BY Zenon, <1>0, <3>1, <3>2, WithinWider, SteadyWindows
    <3>4. <<k, pins[k]>> \in upstream
      BY Zenon, <3>1, <3>3 DEF SteadyInv, ListsMatchPins
    <3>5. <<k, pins[k]>> \in UpstreamBurst
      BY Zenon, <3>1, <3>3, <3>4 DEF UpstreamBurst, RecentUpstream
    <3> QED BY <3>5
  <2>3. learned \in SUBSET (burst \cup {h})
    BY Zenon, <2>2
  <2>4. Cardinality(learned) <= Cardinality(burst) + 1
    <3> HIDE DEF learned, burst
    <3> QED BY Zenon, <2>1, <2>3, OneMoreHost
  <2>5. ~(Cardinality(burst) + 1 >= UPSTREAM_BURST_HOSTS)
    BY Zenon, <1>1 DEF UpstreamIsBurst
  <2>6. /\ Cardinality(burst) \in Nat /\ Cardinality(learned) \in Nat
        /\ UPSTREAM_BURST_HOSTS \in Nat
    BY Zenon, <2>1, <2>3, HostsFinite, SteadyWindows
  <2>7. Cardinality(learned) < UPSTREAM_BURST_HOSTS
    <3> HIDE DEF learned, burst
    <3> QED BY <2>4, <2>5, <2>6
  <2>8. LearnedWithin(SilentCauses, SILENT_BURST_SECS)'
          \in SUBSET LearnedWithin(SilentCauses, SILENT_BURST_SECS)
    BY <1>1, <1>2, LearnsOther DEF SilentCauses
  <2>9. Cardinality(LearnedWithin(SilentCauses, SILENT_BURST_SECS)')
          < SILENT_BURST_HOSTS
    BY Zenon, <2>8, LearnedAreHosts, FewerHosts, SteadyWindows
    DEF SteadyInv, NoBurstOfPins
  <2> QED BY Zenon, <2>7, <2>9 DEF NoBurstOfPins
<1> QED BY Zenon,
           <1>1, <1>2, <1>3, <1>4, <1>5, <1>6, LearnsSteady DEF SilentCauses

\* Below the size of a burst, no host refused within the burst window has been
\* dropped to make room: the table holds a whole burst.
LEMMA NotedUnlessBurst ==
  ASSUME TablesInv, NEW h \in Hosts, NEW noted \in note_silent_host(h),
         Cardinality(DOMAIN noted) < SILENT_BURST_HOSTS
  PROVE  /\ DOMAIN noted \in SUBSET Hosts
         /\ h \in DOMAIN noted /\ noted[h] = now
         /\ \A k \in DOMAIN silent_hosts :
              k # h /\ within(silent_hosts[k], now, SILENT_BURST_SECS)
                => k \in DOMAIN noted /\ noted[k] = silent_hosts[k]
<1> DEFINE kept == Restrict(silent_hosts,
                     {k \in DOMAIN silent_hosts :
                        within(silent_hosts[k], now, SILENT_BURST_SECS)})
<1>1. PICK room \in room_for(kept, h, DOMAIN kept, kept) :
        noted = Insert(room, h, now)
  BY Zenon DEF note_silent_host
<1>2. /\ DOMAIN kept = {k \in DOMAIN silent_hosts :
                          within(silent_hosts[k], now, SILENT_BURST_SECS)}
      /\ \A k \in DOMAIN kept : kept[k] = silent_hosts[k]
      /\ DOMAIN kept \in SUBSET Hosts
  BY Zenon DEF Restrict, TablesInv, AllFit, Fits
<1> HIDE DEF kept
<1>3. /\ DOMAIN noted = DOMAIN room \cup {h} /\ noted[h] = now
      /\ \A k \in DOMAIN room : k # h => noted[k] = room[k]
  BY Zenon, <1>1 DEF Insert
<1>4. CASE room = kept
  BY Zenon, <1>2, <1>3, <1>4
<1>5. CASE room # kept
  <2>1. /\ h \notin DOMAIN kept
        /\ room \in make_room(kept, DOMAIN kept, kept)
        /\ ~(Cardinality(DOMAIN kept) < MAX_RECENT_REJECTIONS)
    BY Zenon, <1>1, <1>5 DEF room_for, make_room
  <2> DEFINE fresh == Restrict(kept, DOMAIN kept \cap DOMAIN kept)
  <2>2. DOMAIN fresh = DOMAIN kept
    BY Zenon DEF Restrict
  <2>3. PICK o \in DOMAIN kept : room = Remove(fresh, o)
    BY Zenon, <2>1, <2>2 DEF make_room
  <2> HIDE DEF fresh
  <2>4. DOMAIN noted = (DOMAIN kept \ {o}) \cup {h}
    BY Zenon, <1>3, <2>2, <2>3 DEF Remove, Restrict
  <2>5. /\ IsFiniteSet(DOMAIN kept) /\ Cardinality(DOMAIN kept) \in Nat
        /\ IsFiniteSet(DOMAIN kept \ {o})
    BY Zenon, <1>2, HostsFinite
  <2>6. Cardinality(DOMAIN kept \ {o}) = Cardinality(DOMAIN kept) - 1
    BY Zenon, <2>5, FS_RemoveElement
  <2>7. Cardinality(DOMAIN noted) = Cardinality(DOMAIN kept \ {o}) + 1
    BY ZenonT(40), <2>1, <2>4, <2>5, FS_AddElement
  <2>8. Cardinality(DOMAIN noted) = Cardinality(DOMAIN kept)
    BY <2>5, <2>6, <2>7
  <2> QED BY <2>1, <2>5, <2>8, SteadyWindows, WindowSizes
<1> QED BY Zenon, <1>4, <1>5

\* What a refusal that is no burst leaves noted, whether or not it teaches.
LEMMA NotedAfter ==
  ASSUME TypeInv, TablesInv, SteadyInv, NEW h \in Hosts,
         NEW noted \in note_silent_host(h),
         Cardinality(DOMAIN noted) < SILENT_BURST_HOSTS,
         silent_hosts' = noted, now' = now,
         \A k \in DOMAIN pins' : k # h =>
           k \in DOMAIN pins /\ pins'[k] = pins[k] /\ cause'[k] = cause[k],
         h \in DOMAIN pins' => pins'[h] = now
  PROVE  /\ RefusalsNoted'
         /\ Cardinality(LearnedWithin(SilentCauses, SILENT_BURST_SECS)')
              < SILENT_BURST_HOSTS
<1> DEFINE learned == LearnedWithin(SilentCauses, SILENT_BURST_SECS)'
<1>0. now \in Nat
  BY Zenon DEF TypeInv
<1>1. ASSUME NEW k \in learned
      PROVE  /\ k \in DOMAIN noted
             /\ pins'[k] <= noted[k] /\ noted[k] <= now
  <2>1. k \in DOMAIN pins' /\ within(pins'[k], now, SILENT_BURST_SECS)
        /\ cause'[k] \in SilentCauses
    BY Zenon, <1>1 DEF LearnedWithin
  <2>2. CASE k = h
    BY <1>0, <2>1, <2>2, NotedUnlessBurst
  <2>3. CASE k # h
    <3>1. k \in LearnedWithin(SilentCauses, SILENT_BURST_SECS)
      BY Zenon, <2>1, <2>3 DEF LearnedWithin
    <3>2. /\ k \in DOMAIN silent_hosts
          /\ pins[k] <= silent_hosts[k] /\ silent_hosts[k] <= now
      BY Zenon, <3>1 DEF SteadyInv, RefusalsNoted
    <3>3. pins[k] \in Nat /\ silent_hosts[k] \in Nat
      BY Zenon, <2>1, <2>3, <3>2 DEF TypeInv, Times
    <3>4. within(silent_hosts[k], now, SILENT_BURST_SECS)
      BY Zenon, <1>0, <2>1, <2>3, <3>2, <3>3, WithinAfter, SteadyWindows
    <3>5. k \in DOMAIN noted /\ noted[k] = silent_hosts[k]
      BY Zenon, <2>3, <3>2, <3>4, NotedUnlessBurst
    <3> QED BY Zenon, <2>1, <2>3, <3>2, <3>5
  <2> QED BY Zenon, <2>2, <2>3
<1>2. RefusalsNoted'
  BY Zenon, <1>1 DEF RefusalsNoted
<1>3. learned \in SUBSET DOMAIN noted
  BY Zenon, <1>1
<1>4. Cardinality(learned) < SILENT_BURST_HOSTS
  <2> HIDE DEF learned
  <2> QED BY Zenon, <1>3, NotedUnlessBurst, FewerHosts, SteadyWindows
<1> QED BY Zenon, <1>2, <1>4

\* A silent burst takes back every silent pin of the burst window.
LEMMA SilentBurstSteady ==
  ASSUME TypeInv, SteadyInv, silent_burst(LivePins)
  PROVE  SteadyInv'
<1> DEFINE burst == {e \in silent : within(e[2], now, SILENT_BURST_SECS)}
<1>0. now \in Nat /\ silent \subseteq Hosts \X Nat
  BY Zenon DEF TypeInv
<1>1. /\ now' = now /\ cause' = cause /\ upstream' = upstream
      /\ silent' = silent \ burst /\ pins' = take_back(LivePins, burst)
  BY Zenon DEF silent_burst
<1>2. \A k \in DOMAIN pins' :
        /\ k \in DOMAIN pins /\ pins'[k] = pins[k]
        /\ <<k, pins[k]>> \notin burst
  <2> HIDE DEF burst
  <2> QED BY Zenon, <1>1, LivePinsShrink DEF take_back, Restrict
<1>3. Drops
  BY Zenon, <1>1, <1>2 DEF Drops
<1>4. PresentPinned
  BY Zenon, <1>0, <1>1, WithinNow, SteadyWindows DEF PresentPinned
<1>5. \A k \in DOMAIN pins' : StayListed(k)
  <2> HIDE DEF burst
  <2> QED BY Zenon, <1>1, <1>2 DEF StayListed
<1>6. RefusalsNoted'
  <2>1. ASSUME NEW k \in LearnedWithin(SilentCauses, SILENT_BURST_SECS)'
        PROVE  FALSE
    <3>1. /\ k \in DOMAIN pins' /\ cause[k] \in SilentCauses
          /\ within(pins[k], now, SILENT_BURST_SECS)
      BY Zenon, <1>1, <1>2, <2>1 DEF LearnedWithin
    <3>2. pins[k] \in Nat /\ k \in DOMAIN pins
      BY Zenon, <1>2, <3>1 DEF TypeInv, Times
    <3>3. within(pins[k], now, SILENT_RECENT_SECS)
      BY Zenon, <1>0, <3>1, <3>2, WithinWider, SteadyWindows
    <3>4. <<k, pins[k]>> \in silent
      BY Zenon, <3>1, <3>2, <3>3 DEF SteadyInv, ListsMatchPins
    <3> QED BY Zenon, <1>2, <3>1, <3>4
  <2> QED BY Zenon, <2>1 DEF RefusalsNoted
<1> QED BY Zenon, <1>1, <1>3, <1>4, <1>5, <1>6, DropsSteady

\* A refusal that is no burst and teaches nothing only purges expired pins.
LEMMA RefusalPurgeSteady ==
  ASSUME TypeInv, TablesInv, SteadyInv, NEW h \in Hosts,
         h \notin DOMAIN LivePins, NEW noted \in note_silent_host(h),
         Cardinality(DOMAIN noted) < SILENT_BURST_HOSTS, silent_hosts' = noted,
         pins' = LivePins, UNCHANGED <<now, upstream, silent, cause>>
  PROVE  SteadyInv'
<1>1. Drops
  BY Zenon, LivePinsShrink DEF Drops
<1>2. PresentPinned
  BY Zenon, PresentIsLive DEF PresentPinned
<1>3. \A k \in DOMAIN pins' : StayListed(k)
  BY Zenon DEF StayListed
<1>4. RefusalsNoted'
  BY Zenon, <1>1, NotedAfter DEF Drops
<1> QED BY Zenon, <1>1, <1>2, <1>3, <1>4, DropsSteady

LEMMA LearnSilentSteady ==
  ASSUME TypeInv, TablesInv, SteadyInv, NEW h \in Hosts,
         h \notin DOMAIN LivePins, NEW noted \in note_silent_host(h),
         Cardinality(DOMAIN noted) < SILENT_BURST_HOSTS, silent_hosts' = noted,
         now' = now, NEW why \in SilentCauses, NEW pending, NEW flood,
         learn_silent(LivePins, h, why, pending, flood)
  PROVE  SteadyInv'
<1>1. Learns(h, why)
  BY Zenon, LearnSilentShape
<1>2. /\ BecomesPin(LivePins, h, why) /\ upstream' = NotOf(upstream, h)
      /\ silent' = {e \in silent : within(e[2], now, SILENT_RECENT_SECS)}
                     \cup {<<h, now>>}
  BY Zenon DEF learn_silent
<1>3. PresentPinned
  <2>1. silent' \in SUBSET (silent \cup {<<h, now>>})
    BY Zenon, <1>2
  <2> QED BY Zenon, <1>2, <2>1, PresentAfterLearn
<1>4. \A k \in DOMAIN pins' : k # h => StayListed(k)
  BY Zenon, <1>2 DEF StayListed, NotOf
<1>5. /\ \A k \in DOMAIN pins' : k # h =>
           k \in DOMAIN pins /\ pins'[k] = pins[k] /\ cause'[k] = cause[k]
      /\ h \in DOMAIN pins' => pins'[h] = now
  <2>1. cause \in [Hosts -> Causes] /\ DOMAIN pins \subseteq Hosts
    BY Zenon DEF TypeInv
  <2> QED BY Zenon, <1>1, <2>1 DEF Learns
<1>6. /\ RefusalsNoted'
      /\ Cardinality(LearnedWithin(SilentCauses, SILENT_BURST_SECS)')
           < SILENT_BURST_HOSTS
  BY Zenon, <1>5, NotedAfter
<1>7. NoBurstOfPins'
  <2>1. LearnedWithin({"upstream"}, UPSTREAM_BURST_SECS)'
          \in SUBSET LearnedWithin({"upstream"}, UPSTREAM_BURST_SECS)
    BY Zenon, <1>1, LearnsOther DEF SilentCauses
  <2>2. Cardinality(LearnedWithin({"upstream"}, UPSTREAM_BURST_SECS)')
          < UPSTREAM_BURST_HOSTS
    BY Zenon, <2>1, LearnedAreHosts, FewerHosts, SteadyWindows
    DEF SteadyInv, NoBurstOfPins
  <2> QED BY Zenon, <1>6, <2>2 DEF NoBurstOfPins
<1>8. why # "upstream" /\ <<h, now>> \in silent'
      /\ why \in {"alert", "upstream", "silent", "flood"}
  BY Zenon, <1>2 DEF SilentCauses
<1> QED BY Zenon, <1>1, <1>3, <1>4, <1>6, <1>7, <1>8, LearnsSteady

LEMMA RefusalSteady ==
  ASSUME TypeInv, TablesInv, SteadyInv, NEW h \in Hosts, RefusalOfUnpinned(h)
  PROVE  SteadyInv'
<1>1. PICK noted \in note_silent_host(h) :
        /\ silent_hosts' = noted
        /\ IF Cardinality(DOMAIN noted) >= SILENT_BURST_HOSTS
           THEN silent_burst(LivePins)
           ELSE IF silent_suppressed THEN RefusalIgnored(LivePins)
                                     ELSE RefusalJudged(LivePins, h)
  BY Zenon DEF RefusalOfUnpinned
<1>2. h \notin DOMAIN LivePins
  BY Zenon DEF RefusalOfUnpinned
<1>3. CASE Cardinality(DOMAIN noted) >= SILENT_BURST_HOSTS
  BY Zenon, <1>1, <1>3, SilentBurstSteady
<1>4. CASE ~(Cardinality(DOMAIN noted) >= SILENT_BURST_HOSTS)
  <2>1. Cardinality(DOMAIN noted) < SILENT_BURST_HOSTS
    <3>1. DOMAIN noted \in SUBSET Hosts
      BY Zenon, <1>1, NoteFits DEF TablesInv, AllFit, Fits
    <3>2. Cardinality(DOMAIN noted) \in Nat
      BY Zenon, <3>1, HostsFinite
    <3> QED BY <1>4, <3>2, SteadyWindows
  <2>2. CASE silent_suppressed
    <3>1. RefusalIgnored(LivePins)
      BY Zenon, <1>1, <1>4, <2>2
    <3> QED BY Zenon,
               <1>1, <1>2, <2>1, <3>1, RefusalPurgeSteady DEF RefusalIgnored
  <2>3. CASE ~silent_suppressed
    <3>1. RefusalJudged(LivePins, h)
      BY Zenon, <1>1, <1>4, <2>3
    <3>2. PICK flood \in count_for_flood(h) :
            IF TrustGuards(h) THEN RefusalOfTrusting(LivePins, h, flood)
                              ELSE RefusalCounted(LivePins, h, flood)
      BY Zenon, <3>1 DEF RefusalJudged
    <3>3. now' = now
      BY Zenon, <3>1 DEF RefusalJudged
    <3>4. \/ \E why \in SilentCauses : \E pending, f :
               learn_silent(LivePins, h, why, pending, f)
          \/ pins' = LivePins /\ UNCHANGED <<upstream, silent, cause>>
      BY Zenon, <3>2 DEF RefusalOfTrusting, RefusalCounted, SilentCauses
    <3>5. CASE \E why \in SilentCauses : \E pending, f :
                 learn_silent(LivePins, h, why, pending, f)
      BY Zenon, <1>1, <1>2, <2>1, <3>3, <3>5, LearnSilentSteady
    <3>6. CASE pins' = LivePins /\ UNCHANGED <<upstream, silent, cause>>
      BY Zenon, <1>1, <1>2, <2>1, <3>3, <3>6, RefusalPurgeSteady
    <3> QED BY Zenon, <3>4, <3>5, <3>6
  <2> QED BY Zenon, <2>2, <2>3
<1> QED BY Zenon, <1>3, <1>4

\* A network change takes back every pin that was recent a second ago, so
\* every pin that is recent now.
LEMMA NetworkChangeSteady ==
  ASSUME TypeInv, OwnLists, SteadyInv, NEW t \in Readings, on_network_change(t)
  PROVE  SteadyInv'
<1> DEFINE entries == {e \in upstream : within(e[2], t, UPSTREAM_RECENT_SECS)}
                        \cup {e \in silent : within(e[2], t, SILENT_RECENT_SECS)}
<1>0. /\ now \in Nat /\ t \in Nat /\ (t = now \/ t = now - 1)
      /\ DOMAIN pins \subseteq Hosts /\ \A k \in DOMAIN pins : pins[k] \in Nat
  BY DEF TypeInv, Times, Readings
<1>1. /\ now' = now /\ cause' = cause /\ upstream' = {} /\ silent' = {}
      /\ pins' = take_back(pins, entries)
  BY Zenon DEF on_network_change
<1>2. \A k \in DOMAIN pins' :
        /\ k \in DOMAIN pins /\ pins'[k] = pins[k]
        /\ <<k, pins[k]>> \notin entries
  <2> HIDE DEF entries
  <2> QED BY Zenon, <1>1 DEF take_back, Restrict
<1>3. Drops
  BY Zenon, <1>1, <1>2 DEF Drops
<1>4. PresentPinned
  BY Zenon, <1>1 DEF PresentPinned
<1>5. ASSUME NEW k \in DOMAIN pins'
      PROVE  /\ <<k, pins[k]>> \in upstream
                  => ~within(pins[k], now, UPSTREAM_RECENT_SECS)
             /\ <<k, pins[k]>> \in silent
                  => ~within(pins[k], now, SILENT_RECENT_SECS)
  <2>0. k \in DOMAIN pins /\ pins[k] \in Nat /\ <<k, pins[k]>> \notin entries
    BY Zenon, <1>0, <1>2
  <2>1. ASSUME <<k, pins[k]>> \in upstream,
               within(pins[k], now, UPSTREAM_RECENT_SECS)
        PROVE  FALSE
    <3>1. pins[k] <= now
      BY Zenon, <2>0, <2>1 DEF OwnLists, SteadyInv, TimesPassed
    <3>2. within(pins[k], t, UPSTREAM_RECENT_SECS)
      BY Zenon, <1>0, <2>0, <2>1, <3>1, WithinEarlier, SteadyWindows
    <3> QED BY Zenon, <2>0, <2>1, <3>2
  <2>2. ASSUME <<k, pins[k]>> \in silent,
               within(pins[k], now, SILENT_RECENT_SECS)
        PROVE  FALSE
    <3>1. pins[k] <= now
      BY Zenon, <2>2 DEF SteadyInv, TimesPassed
    <3>2. within(pins[k], t, SILENT_RECENT_SECS)
      BY Zenon, <1>0, <2>0, <2>2, <3>1, WithinEarlier, SteadyWindows
    <3> QED BY Zenon, <2>0, <2>2, <3>2
  <2> QED BY Zenon, <2>1, <2>2
<1>6. \A k \in DOMAIN pins' : StayListed(k)
  BY Zenon, <1>5 DEF StayListed
<1>7. RefusalsNoted'
  <2>1. ASSUME NEW k \in LearnedWithin(SilentCauses, SILENT_BURST_SECS)'
        PROVE  FALSE
    <3>1. /\ k \in DOMAIN pins' /\ k \in DOMAIN pins
          /\ cause[k] \in SilentCauses
          /\ within(pins[k], now, SILENT_BURST_SECS)
      BY Zenon, <1>1, <1>2, <2>1 DEF LearnedWithin
    <3>2. within(pins[k], now, SILENT_RECENT_SECS)
      BY Zenon, <1>0, <3>1, WithinWider, SteadyWindows
    <3>3. <<k, pins[k]>> \in silent
      BY Zenon, <3>1, <3>2 DEF SteadyInv, ListsMatchPins
    <3> QED BY Zenon, <1>5, <3>1, <3>2, <3>3
  <2> QED BY Zenon, <2>1 DEF RefusalsNoted
<1> HIDE DEF entries
<1> QED BY ZenonT(40), <1>1, <1>3, <1>4, <1>6, <1>7, DropsSteady

LEMMA ForgetSteady ==
  ASSUME TypeInv, SteadyInv, NEW hosts, forget_pins(hosts)
  PROVE  SteadyInv'
<1>1. /\ now' = now /\ cause' = cause /\ silent_hosts' = silent_hosts
      /\ pins' = Restrict(pins, DOMAIN pins \ hosts)
      /\ upstream' = {e \in upstream : e[1] \notin hosts}
      /\ silent' = {e \in silent : e[1] \notin hosts}
  BY Zenon DEF forget_pins
<1>2. DOMAIN pins' = DOMAIN pins \ hosts /\ \A k \in DOMAIN pins' : pins'[k] = pins[k]
  BY Zenon, <1>1 DEF Restrict
<1>3. Drops
  BY Zenon, <1>1, <1>2 DEF Drops
<1>4. PresentPinned
  BY Zenon, <1>1, <1>2 DEF PresentPinned, SteadyInv, TimesPassed
<1>5. \A k \in DOMAIN pins' : StayListed(k)
  BY Zenon, <1>1, <1>2 DEF StayListed
<1> QED BY Zenon, <1>1, <1>3, <1>4, <1>5, StillNoted, DropsSteady

\* As time passes, pins only leave the windows.
LEMMA TickSteady ==
  ASSUME TypeInv, SteadyInv, Tick
  PROVE  SteadyInv'
<1>0. /\ now \in Nat /\ now' = now + 1
      /\ UNCHANGED <<pins, upstream, silent, silent_hosts, cause>>
      /\ silent \subseteq Hosts \X Nat
      /\ \A k \in DOMAIN pins : pins[k] \in Nat
      /\ \A k \in DOMAIN silent_hosts : silent_hosts[k] \in Nat
  BY Zenon DEF Tick, tables, TypeInv, Times
<1>1. TimesPassed'
  <2>1. \A k \in DOMAIN pins :
          cause[k] \in {"upstream", "silent", "flood"} => pins[k] <= now + 1
    BY <1>0 DEF SteadyInv, TimesPassed
  <2>2. \A e \in silent : e[2] <= now + 1 /\ e[2] # now + 1
    BY <1>0 DEF SteadyInv, TimesPassed
  <2> QED BY Zenon, <1>0, <2>1, <2>2 DEF TimesPassed
<1>2. ASSUME NEW k \in DOMAIN pins, NEW secs \in Nat,
             cause[k] \in {"upstream", "silent", "flood"},
             within(pins[k], now + 1, secs)
      PROVE  within(pins[k], now, secs)
  <2>1. pins[k] <= now
    BY Zenon, <1>2 DEF SteadyInv, TimesPassed
  <2> QED BY Zenon, <1>0, <1>2, <2>1, WithinLater
<1>3. ListsMatchPins'
  BY Zenon,
     <1>0, <1>2, SteadyWindows DEF SteadyInv, ListsMatchPins, SilentCauses
<1>4. /\ LearnedWithin({"upstream"}, UPSTREAM_BURST_SECS)'
           \in SUBSET LearnedWithin({"upstream"}, UPSTREAM_BURST_SECS)
      /\ LearnedWithin(SilentCauses, SILENT_BURST_SECS)'
           \in SUBSET LearnedWithin(SilentCauses, SILENT_BURST_SECS)
  BY Zenon, <1>0, <1>2, SteadyWindows DEF LearnedWithin, SilentCauses
<1>5. NoBurstOfPins'
  BY Zenon, <1>4, LearnedAreHosts, FewerHosts, SteadyWindows
  DEF SteadyInv, NoBurstOfPins
<1>6. RefusalsNoted'
  <2>1. ASSUME NEW k \in LearnedWithin(SilentCauses, SILENT_BURST_SECS)'
        PROVE  /\ k \in DOMAIN silent_hosts
               /\ pins[k] <= silent_hosts[k] /\ silent_hosts[k] <= now + 1
    <3>1. /\ k \in DOMAIN silent_hosts
          /\ pins[k] <= silent_hosts[k] /\ silent_hosts[k] <= now
      BY Zenon, <1>4, <2>1 DEF SteadyInv, RefusalsNoted
    <3> QED BY <1>0, <3>1
  <2> QED BY Zenon, <1>0, <2>1 DEF RefusalsNoted
<1> QED BY Zenon, <1>1, <1>3, <1>5, <1>6 DEF SteadyInv

LEMMA UnchangedSteady ==
  ASSUME SteadyInv, UNCHANGED <<now, pins, upstream, silent, silent_hosts, cause>>
  PROVE  SteadyInv'
BY Zenon
DEF SteadyInv, TimesPassed, ListsMatchPins, RefusalsNoted, NoBurstOfPins,
       LearnedWithin

LEMMA SteadyInit == Init => SteadyInv
<1> SUFFICES ASSUME Init PROVE SteadyInv
  OBVIOUS
<1>0. DOMAIN pins \subseteq Hosts
  BY Zenon, TypeInit DEF TypeInv
<1>1. \A h \in DOMAIN pins : cause[h] = "saved"
  BY Zenon, <1>0 DEF Init
<1>2. /\ LearnedWithin({"upstream"}, UPSTREAM_BURST_SECS) = {}
      /\ LearnedWithin(SilentCauses, SILENT_BURST_SECS) = {}
  BY Zenon, <1>1 DEF LearnedWithin, SilentCauses
<1>3. NoBurstOfPins
  BY Zenon, <1>2, FS_EmptySet, SteadyWindows DEF NoBurstOfPins
<1>4. TimesPassed /\ ListsMatchPins
  BY Zenon, <1>1 DEF Init, TimesPassed, ListsMatchPins, SilentCauses
<1>5. RefusalsNoted
  BY Zenon, <1>2 DEF RefusalsNoted
<1> QED BY Zenon, <1>3, <1>4, <1>5 DEF SteadyInv

LEMMA SteadyStep ==
  TypeInv /\ TablesInv /\ OwnLists /\ SteadyInv /\ [SteadyNext]_vars => SteadyInv'
<1> SUFFICES ASSUME TypeInv, TablesInv, OwnLists, SteadyInv, [SteadyNext]_vars
             PROVE  SteadyInv'
  OBVIOUS
<1>0. AlertHosts \subseteq Hosts /\ UpstreamHosts \subseteq Hosts
      /\ SilentHosts \subseteq Hosts
  BY Zenon, HostAssumption
<1>1. ASSUME NEW h \in AlertHosts, record_client_rejection(h) PROVE SteadyInv'
  <2>1. CASE AlreadyPinned(h)
    BY Zenon, <2>1, PurgeSteady DEF AlreadyPinned, tables
  <2>2. CASE SecondRejection(h)
    BY Zenon, <1>0, <2>2, SecondRejectionSteady
  <2>3. CASE FirstRejection(h)
    BY Zenon, <2>3, PurgeSteady DEF FirstRejection
  <2> QED BY Zenon, <1>1, <2>1, <2>2, <2>3 DEF record_client_rejection
<1>2. ASSUME NEW h \in UpstreamHosts, learn_upstream_untrusted(h)
      PROVE  SteadyInv'
  <2>1. CASE AlreadyPinned(h)
    BY Zenon, <2>1, PurgeSteady DEF AlreadyPinned, tables
  <2>2. CASE UpstreamIgnored(h)
    BY Zenon, <2>2, PurgeSteady DEF UpstreamIgnored, tables
  <2>3. CASE UpstreamBurstSeen(h)
    BY Zenon, <1>0, <2>3, UpstreamBurstSteady
  <2>4. CASE UpstreamLearned(h)
    BY Zenon, <1>0, <2>4, UpstreamLearnedSteady
  <2> QED BY Zenon, <1>2, <2>1, <2>2, <2>3, <2>4 DEF learn_upstream_untrusted
<1>3. ASSUME NEW h \in SilentHosts, record_silent_refusal(h) PROVE SteadyInv'
  <2>1. CASE AlreadyPinned(h)
    BY Zenon, <2>1, PurgeSteady DEF AlreadyPinned, tables
  <2>2. CASE RefusalOfUnpinned(h)
    BY Zenon, <1>0, <2>2, RefusalSteady
  <2> QED BY Zenon, <1>3, <2>1, <2>2 DEF record_silent_refusal
<1>4. ASSUME NEW h \in HandshakeHosts, record_intercepted_handshake(h)
      PROVE  SteadyInv'
  <2>1. UNCHANGED <<now, pins, upstream, silent, silent_hosts, cause>>
    BY Zenon, <1>4 DEF record_intercepted_handshake
  <2> QED BY Zenon, <2>1, UnchangedSteady
<1>5. ASSUME NEW t \in Readings, on_network_change(t) PROVE SteadyInv'
  BY Zenon, <1>5, NetworkChangeSteady
<1>6. ASSUME NEW hosts \in SUBSET ForgetHosts, forget_pins(hosts)
      PROVE  SteadyInv'
  BY Zenon, <1>6, ForgetSteady
<1>7. CASE Tick
  BY Zenon, <1>7, TickSteady
<1>8. CASE UNCHANGED vars
  BY Zenon, <1>8, UnchangedSteady DEF vars, tables
<1> QED
  BY <1>1, <1>2, <1>3, <1>4, <1>5, <1>6, <1>7, <1>8, Zenon DEF SteadyNext, Learn

LEMMA SteadyInvariant == SteadySpec => []SteadyInv
<1>1. [SteadyNext]_vars => [Next]_vars
  BY Zenon DEF Next
<1>2. SteadySpec => Spec
  BY <1>1, PTL DEF SteadySpec, Spec
<1>3. SteadySpec => [](TypeInv /\ TablesInv /\ OwnLists)
  BY <1>2, TypeInvariant, TablesInvariant, OwnListsInvariant, PTL
<1> QED BY <1>3, SteadyInit, SteadyStep, PTL DEF SteadySpec

\* While the clock only moves forward, every pin recent enough to be taken back
\* is listed with its time, and the silent list takes back silent pins only:
\* what on_network_change and the bursts of policy.rs rely on.
THEOREM ListsMatchPinsHold == SteadySpec => []ListsMatchPins
BY SteadyInvariant, PTL DEF SteadyInv

\* While the clock only moves forward, a burst leaves none of its pins behind:
\* fewer hosts than make a burst are pins of the burst window
\* (learn_upstream_untrusted and record_silent_refusal).
THEOREM NoBurstOfPinsHolds == SteadySpec => []NoBurstOfPins
BY SteadyInvariant, PTL DEF SteadyInv
=============================================================================
