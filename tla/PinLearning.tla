---------------------------- MODULE PinLearning ----------------------------
(***************************************************************************)
(* The learning half of Policy (policy/src/policy.rs): how a host becomes  *)
(* a learned pin from client alerts, from silent hang-ups and from         *)
(* upstream TLS failures, and how bursts, network changes, expiry and the  *)
(* user take pins away again.  Every operation runs under one mutex, so it *)
(* is one action; the wall clock that stamps it is a variable.             *)
(*                                                                         *)
(* Hosts are lookup keys: lower-cased, without trailing dot, never empty   *)
(* (an empty key makes every operation return at once).                    *)
(***************************************************************************)
EXTENDS Naturals, FiniteSets, Functions

CONSTANTS
  Hosts,
  REJECTION_WINDOW_SECS, PIN_LIFETIME_SECS, MAX_RECENT_REJECTIONS,
  UPSTREAM_BURST_HOSTS, UPSTREAM_BURST_SECS, UPSTREAM_SUPPRESS_SECS,
  UPSTREAM_RECENT_SECS,
  SILENT_REFUSALS, SILENT_FLOOD_SECS, SILENT_FLOOD_SECONDS,
  SILENT_FLOOD_RATIO, SILENT_HELD_BACK_LOG_SECS, SILENT_RECENT_SECS,
  SILENT_BURST_HOSTS, SILENT_BURST_SECS, SILENT_SUPPRESS_SECS,
  CLOCK_TOLERANCE_SECS,
  \* What the environment does in an instance: the hosts each kind of event
  \* may concern, and the readings the wall clock may be set to.
  AlertHosts, UpstreamHosts, SilentHosts, HandshakeHosts, ForgetHosts,
  LoadedPins, ClockSettings,
  \* Bounds of an instance.
  MaxClock, MaxPerSecond

\* The relations between the windows that policy.rs fixes by its constants.
ASSUME WindowAssumption ==
  /\ {REJECTION_WINDOW_SECS, UPSTREAM_BURST_SECS, UPSTREAM_SUPPRESS_SECS,
      UPSTREAM_RECENT_SECS, SILENT_FLOOD_SECS, SILENT_RECENT_SECS,
      SILENT_BURST_SECS, SILENT_SUPPRESS_SECS, CLOCK_TOLERANCE_SECS,
      SILENT_FLOOD_RATIO} \subseteq Nat
  /\ {PIN_LIFETIME_SECS, SILENT_HELD_BACK_LOG_SECS, MAX_RECENT_REJECTIONS,
      UPSTREAM_BURST_HOSTS, SILENT_REFUSALS, SILENT_FLOOD_SECONDS,
      SILENT_BURST_HOSTS} \subseteq Nat \ {0}
  /\ UPSTREAM_BURST_SECS <= UPSTREAM_RECENT_SECS
  /\ SILENT_BURST_SECS <= SILENT_RECENT_SECS
  /\ UPSTREAM_RECENT_SECS < PIN_LIFETIME_SECS
  /\ SILENT_BURST_HOSTS <= MAX_RECENT_REJECTIONS
  /\ CLOCK_TOLERANCE_SECS >= 1

ASSUME HostAssumption ==
  /\ IsFiniteSet(Hosts)
  /\ AlertHosts \subseteq Hosts /\ UpstreamHosts \subseteq Hosts
  /\ SilentHosts \subseteq Hosts /\ HandshakeHosts \subseteq Hosts
  /\ ForgetHosts \subseteq Hosts

ASSUME ClockAssumption ==
  /\ MaxClock \in Nat /\ MaxPerSecond \in Nat
  /\ ClockSettings \subseteq Nat
  /\ \A p \in LoadedPins : \E S \in SUBSET Hosts : p \in [S -> Nat]

VARIABLES
  now,                        \* the wall clock, Unix seconds
  pins,                       \* host -> time it became a pin
  recent,                     \* host -> time of its last lone rejection
  upstream,                   \* {<<host, time>>} learned from upstream failures
  upstream_suppressed_until,
  silent_pending,             \* host -> seconds of its silent refusals
  silent_hosts,               \* host -> last silent refusal, to see a burst
  silent_flood,               \* host -> PerSecond of its silent refusals
  trusted,                    \* host -> last handshake and PerSecond of them
  held_back_logged,           \* host -> time of its last held-back log line
  silent,                     \* {<<host, time>>} learned from silent refusals
  silent_suppressed_until,
  cause                       \* history: what taught the host's latest pin

tables == <<recent, upstream, upstream_suppressed_until, silent_pending,
            silent_hosts, silent_flood, trusted, held_back_logged, silent,
            silent_suppressed_until>>
vars == <<now, pins, tables, cause>>

\* Option<u64>::None of the two suppressions; Some(0) cannot arise.
NotSuppressed == 0

Causes == {"none", "saved", "alert", "upstream", "silent", "flood"}
SilentCauses == {"silent", "flood"}
-----------------------------------------------------------------------------
(* HashMap and Vec operations.                                             *)

Empty == [h \in {} |-> 0]

Insert(map, key, value) ==
  [k \in DOMAIN map \cup {key} |-> IF k = key THEN value ELSE map[k]]

Remove(map, key) == Restrict(map, DOMAIN map \ {key})

\* Mutant of NotOf: the host's older entries stay.
NotOfKeepsAll(list, host) == list

\* The entries of a Vec<(host, time)> that are not `host`'s.
NotOf(list, host) == {e \in list : e[1] # host}
-----------------------------------------------------------------------------
(* Time.                                                                   *)

within(at, t, max_age) ==
  /\ at <= t + CLOCK_TOLERANCE_SECS
  /\ t <= at + max_age

pin_is_live(learned_at, t) == within(learned_at, t, PIN_LIFETIME_SECS - 1)

\* pins.retain(pin_is_live): every learning operation starts with it.
LivePins == Restrict(pins, {h \in DOMAIN pins : pin_is_live(pins[h], now)})

\* PerSecond::add and PerSecond::count over [second -> connections].
Seconds(perSecond, t) ==
  {s \in DOMAIN perSecond : within(s, t, SILENT_FLOOD_SECS)}

Add(perSecond, t) ==
  LET kept == Restrict(perSecond, Seconds(perSecond, t))
  IN  Insert(kept, t, IF t \in DOMAIN kept THEN kept[t] + 1 ELSE 1)

Connections(perSecond, t) == SumFunctionOnSet(perSecond, Seconds(perSecond, t))

\* The latest of a set of seconds, 0 for none (PerSecond::last).
Latest(seconds) ==
  IF seconds = {} THEN 0
  ELSE CHOOSE s \in seconds : \A r \in seconds : r <= s

\* Mutant of make_room: a table full of fresh hosts grows.
MakeRoomOfStale(map, fresh, last) ==
  IF Cardinality(DOMAIN map) < MAX_RECENT_REJECTIONS THEN {map}
  ELSE {Restrict(map, DOMAIN map \cap fresh)}

\* The results make_room may have: when the table is full it keeps the fresh
\* hosts, and if it is still full drops one whose time is the earliest (which
\* one of several is the hash map's choice).
make_room(map, fresh, last) ==
  IF Cardinality(DOMAIN map) < MAX_RECENT_REJECTIONS THEN {map}
  ELSE LET kept == Restrict(map, DOMAIN map \cap fresh)
       IN  IF Cardinality(DOMAIN kept) < MAX_RECENT_REJECTIONS THEN {kept}
           ELSE {Remove(kept, h) : h \in {o \in DOMAIN kept :
                       \A k \in DOMAIN kept : last[o] <= last[k]}}

\* make_room, called only when `host` is not in the table yet.
room_for(map, host, fresh, last) ==
  IF host \in DOMAIN map THEN {map} ELSE make_room(map, fresh, last)
-----------------------------------------------------------------------------
(* Policy::new: the saved pins are loaded, the rest of the learning state  *)
(* is not saved and starts empty.                                          *)

Init ==
  /\ now = 0
  /\ pins \in LoadedPins
  /\ recent = Empty
  /\ upstream = {}
  /\ upstream_suppressed_until = NotSuppressed
  /\ silent_pending = Empty
  /\ silent_hosts = Empty
  /\ silent_flood = Empty
  /\ trusted = Empty
  /\ held_back_logged = Empty
  /\ silent = {}
  /\ silent_suppressed_until = NotSuppressed
  /\ cause = [h \in Hosts |-> IF h \in DOMAIN pins THEN "saved" ELSE "none"]

\* A learned host has no pending rejection or refusal any more.
ForgetPending(h) ==
  /\ recent' = Remove(recent, h)
  /\ silent_pending' = Remove(silent_pending, h)
  /\ silent_flood' = Remove(silent_flood, h)

BecomesPin(live, h, why) ==
  /\ pins' = Insert(live, h, now)
  /\ cause' = [cause EXCEPT ![h] = why]

\* Removes the pins that are still the ones the entries recorded.
take_back(live, entries) ==
  Restrict(live, {h \in DOMAIN live : <<h, live[h]>> \notin entries})

\* The host is a pin already: the operation only purges expired pins.
AlreadyPinned(h) ==
  /\ h \in DOMAIN LivePins
  /\ pins' = LivePins
  /\ UNCHANGED <<now, tables, cause>>
-----------------------------------------------------------------------------
(* Client alerts.                                                          *)

RejectedBefore(h) ==
  h \in DOMAIN recent /\ within(recent[h], now, REJECTION_WINDOW_SECS)

SecondRejection(h) ==
  /\ h \notin DOMAIN LivePins
  /\ RejectedBefore(h)
  /\ ForgetPending(h)
  /\ upstream' = NotOf(upstream, h)
  /\ silent' = NotOf(silent, h)
  /\ BecomesPin(LivePins, h, "alert")
  /\ UNCHANGED <<now, upstream_suppressed_until, silent_hosts, trusted,
                 held_back_logged, silent_suppressed_until>>

\* Room is made here even when the host's own stale entry is overwritten.
FirstRejection(h) ==
  /\ h \notin DOMAIN LivePins
  /\ ~RejectedBefore(h)
  /\ pins' = LivePins
  /\ \E room \in make_room(recent,
                     {k \in DOMAIN recent :
                        within(recent[k], now, REJECTION_WINDOW_SECS)},
                     recent) :
        recent' = Insert(room, h, now)
  /\ UNCHANGED <<now, upstream, upstream_suppressed_until, silent_pending,
                 silent_hosts, silent_flood, trusted, held_back_logged,
                 silent, silent_suppressed_until, cause>>

record_client_rejection(h) ==
  AlreadyPinned(h) \/ SecondRejection(h) \/ FirstRejection(h)
-----------------------------------------------------------------------------
(* Upstream TLS failures.                                                  *)

\* The wall clock going back drops a suppression that lies too far ahead.
upstream_suppressed ==
  /\ now < upstream_suppressed_until
  /\ upstream_suppressed_until <= now + UPSTREAM_SUPPRESS_SECS

UpstreamIgnored(h) ==
  /\ h \notin DOMAIN LivePins
  /\ upstream_suppressed
  /\ pins' = LivePins
  /\ UNCHANGED <<now, tables, cause>>

\* Mutant of RecentUpstream: only the burst window is kept.
RecentUpstreamShort ==
  {e \in upstream : within(e[2], now, UPSTREAM_BURST_SECS)}

RecentUpstream ==
  {e \in upstream : within(e[2], now, UPSTREAM_RECENT_SECS)}

\* The failures that a burst would have caused together with this one.
UpstreamBurst ==
  {e \in RecentUpstream : within(e[2], now, UPSTREAM_BURST_SECS)}

\* Mutant of UpstreamIsBurst: the failing host itself is not counted.
UpstreamIsBurstOfOthers ==
  Cardinality({e[1] : e \in UpstreamBurst}) >= UPSTREAM_BURST_HOSTS

UpstreamIsBurst ==
  Cardinality({e[1] : e \in UpstreamBurst}) + 1 >= UPSTREAM_BURST_HOSTS

UpstreamBurstSeen(h) ==
  /\ h \notin DOMAIN LivePins
  /\ ~upstream_suppressed
  /\ UpstreamIsBurst
  /\ pins' = take_back(LivePins, UpstreamBurst)
  /\ upstream' = RecentUpstream \ UpstreamBurst
  /\ upstream_suppressed_until' = now + UPSTREAM_SUPPRESS_SECS
  /\ UNCHANGED <<now, recent, silent_pending, silent_hosts, silent_flood,
                 trusted, held_back_logged, silent, silent_suppressed_until,
                 cause>>

UpstreamLearned(h) ==
  /\ h \notin DOMAIN LivePins
  /\ ~upstream_suppressed
  /\ ~UpstreamIsBurst
  /\ ForgetPending(h)
  /\ BecomesPin(LivePins, h, "upstream")
  /\ upstream' = RecentUpstream \cup {<<h, now>>}
  /\ upstream_suppressed_until' = NotSuppressed
  /\ UNCHANGED <<now, silent_hosts, trusted, held_back_logged, silent,
                 silent_suppressed_until>>

learn_upstream_untrusted(h) ==
  AlreadyPinned(h) \/ UpstreamIgnored(h) \/ UpstreamBurstSeen(h)
                   \/ UpstreamLearned(h)
-----------------------------------------------------------------------------
(* Silent refusals: the client hung up after our certificate, no alert.    *)

silent_suppressed ==
  /\ now < silent_suppressed_until
  /\ silent_suppressed_until <= now + SILENT_SUPPRESS_SECS

\* The hosts refused silently within SILENT_BURST_SECS, this one included.
note_silent_host(h) ==
  LET kept == Restrict(silent_hosts,
                {k \in DOMAIN silent_hosts :
                   within(silent_hosts[k], now, SILENT_BURST_SECS)})
  IN  {Insert(room, h, now) :
         room \in room_for(kept, h, DOMAIN kept, kept)}

silent_burst(live) ==
  LET burst == {e \in silent : within(e[2], now, SILENT_BURST_SECS)}
  IN  /\ pins' = take_back(live, burst)
      /\ silent' = silent \ burst
      /\ silent_pending' = Empty
      /\ silent_flood' = Empty
      /\ silent_suppressed_until' = now + SILENT_SUPPRESS_SECS
      /\ UNCHANGED <<now, recent, upstream, upstream_suppressed_until,
                     trusted, held_back_logged, cause>>

count_for_flood(h) ==
  LET fresh == {k \in DOMAIN silent_flood : Seconds(silent_flood[k], now) # {}}
      last == [k \in DOMAIN silent_flood |-> Latest(DOMAIN silent_flood[k])]
  IN  {Insert(room, h, Add(IF h \in DOMAIN room THEN room[h] ELSE Empty, now)) :
         room \in room_for(silent_flood, h, fresh, last)}

\* A client completed a handshake for the host within the window.
TrustGuards(h) ==
  h \in DOMAIN trusted /\ within(trusted[h].last, now, REJECTION_WINDOW_SECS)

recent_handshakes(h) ==
  IF h \in DOMAIN trusted THEN Connections(trusted[h].recent, now) ELSE 0

is_flood(h, refusals) ==
  /\ Cardinality(Seconds(refusals, now)) >= SILENT_FLOOD_SECONDS
  /\ Connections(refusals, now) >= recent_handshakes(h) * SILENT_FLOOD_RATIO

\* The tables log_held_back may leave for the host's refusals.
log_held_back(h, refusals) ==
  LET fresh == {k \in DOMAIN held_back_logged :
                  within(held_back_logged[k], now, SILENT_HELD_BACK_LOG_SECS - 1)}
  IN  IF Cardinality(Seconds(refusals, now)) < SILENT_REFUSALS \/ h \in fresh
      THEN {held_back_logged}
      ELSE {Insert(room, h, now) :
              room \in room_for(held_back_logged, h, fresh, held_back_logged)}

\* The pending tables with this refusal's second counted for the host.
count_pending(h) ==
  LET counted(k) == {s \in silent_pending[k] :
                       within(s, now, REJECTION_WINDOW_SECS)}
      fresh == {k \in DOMAIN silent_pending : counted(k) # {}}
      last == [k \in DOMAIN silent_pending |-> Latest(silent_pending[k])]
      before == IF h \in DOMAIN silent_pending THEN counted(h) ELSE {}
  IN  {Insert(room, h, before \cup {now}) :
         room \in room_for(silent_pending, h, fresh, last)}

\* A second counted already teaches nothing more.
SecondIsNew(h) ==
  h \notin DOMAIN silent_pending \/ now \notin silent_pending[h]

learn_silent(live, h, why, pending, flood) ==
  /\ silent_pending' = Remove(pending, h)
  /\ silent_flood' = Remove(flood, h)
  /\ recent' = Remove(recent, h)
  /\ upstream' = NotOf(upstream, h)
  /\ silent' = {e \in silent : within(e[2], now, SILENT_RECENT_SECS)}
                 \cup {<<h, now>>}
  /\ BecomesPin(live, h, why)
  /\ UNCHANGED held_back_logged

\* The guard holds the refusal back, unless the refusals flood the host.
RefusalOfTrusting(live, h, flood) ==
  \/ /\ is_flood(h, flood[h])
     /\ learn_silent(live, h, "flood", silent_pending, flood)
  \/ /\ ~is_flood(h, flood[h])
     /\ silent_pending' = Remove(silent_pending, h)
     /\ silent_flood' = flood
     /\ held_back_logged' \in log_held_back(h, flood[h])
     /\ pins' = live
     /\ UNCHANGED <<recent, upstream, silent, cause>>

RefusalCounted(live, h, flood) ==
  \E pending \in count_pending(h) :
    IF SecondIsNew(h) /\ Cardinality(pending[h]) >= SILENT_REFUSALS
    THEN learn_silent(live, h, "silent", pending, flood)
    ELSE /\ silent_pending' = pending
         /\ silent_flood' = flood
         /\ pins' = live
         /\ UNCHANGED <<recent, upstream, silent, held_back_logged, cause>>

RefusalJudged(live, h) ==
  /\ silent_suppressed_until' = NotSuppressed
  /\ \E flood \in count_for_flood(h) :
        IF TrustGuards(h) THEN RefusalOfTrusting(live, h, flood)
                          ELSE RefusalCounted(live, h, flood)
  /\ UNCHANGED <<now, upstream_suppressed_until, trusted>>

RefusalIgnored(live) ==
  /\ pins' = live
  /\ UNCHANGED <<now, recent, upstream, upstream_suppressed_until,
                 silent_pending, silent_flood, trusted, held_back_logged,
                 silent, silent_suppressed_until, cause>>

RefusalOfUnpinned(h) ==
  /\ h \notin DOMAIN LivePins
  /\ \E noted \in note_silent_host(h) :
        /\ silent_hosts' = noted
        /\ IF Cardinality(DOMAIN noted) >= SILENT_BURST_HOSTS
           THEN silent_burst(LivePins)
           ELSE IF silent_suppressed THEN RefusalIgnored(LivePins)
                                     ELSE RefusalJudged(LivePins, h)

record_silent_refusal(h) == AlreadyPinned(h) \/ RefusalOfUnpinned(h)
-----------------------------------------------------------------------------
(* Completed handshakes, network changes, the user, the clock.             *)

record_intercepted_handshake(h) ==
  LET fresh == {k \in DOMAIN trusted :
                  within(trusted[k].last, now, REJECTION_WINDOW_SECS)}
      last == [k \in DOMAIN trusted |-> trusted[k].last]
      counted == IF h \in DOMAIN trusted THEN trusted[h].recent ELSE Empty
  IN  /\ silent_pending' = Remove(silent_pending, h)
      /\ \E room \in room_for(trusted, h, fresh, last) :
            trusted' = Insert(room, h, [last |-> now,
                                        recent |-> Add(counted, now)])
      /\ UNCHANGED <<now, pins, recent, upstream, upstream_suppressed_until,
                     silent_hosts, silent_flood, held_back_logged, silent,
                     silent_suppressed_until, cause>>

\* `t` was read from the clock before the lock was taken.
on_network_change(t) ==
  /\ pins' = take_back(pins,
               {e \in upstream : within(e[2], t, UPSTREAM_RECENT_SECS)}
                 \cup {e \in silent : within(e[2], t, SILENT_RECENT_SECS)})
  /\ upstream' = {}
  /\ silent' = {}
  /\ silent_pending' = Empty
  /\ silent_flood' = Empty
  /\ silent_hosts' = Empty
  /\ UNCHANGED <<now, recent, upstream_suppressed_until, trusted,
                 held_back_logged, silent_suppressed_until, cause>>

forget_pins(hosts) ==
  /\ pins' = Restrict(pins, DOMAIN pins \ hosts)
  /\ recent' = Restrict(recent, DOMAIN recent \ hosts)
  /\ silent_pending' = Restrict(silent_pending, DOMAIN silent_pending \ hosts)
  /\ silent_flood' = Restrict(silent_flood, DOMAIN silent_flood \ hosts)
  /\ upstream' = {e \in upstream : e[1] \notin hosts}
  /\ silent' = {e \in silent : e[1] \notin hosts}
  /\ UNCHANGED <<now, upstream_suppressed_until, silent_hosts, trusted,
                 held_back_logged, silent_suppressed_until, cause>>

Tick ==
  /\ now < MaxClock
  /\ now' = now + 1
  /\ UNCHANGED <<pins, tables, cause>>

\* The user, the network or a reboot sets the wall clock.
SetClock ==
  /\ \E t \in ClockSettings : now' = t
  /\ UNCHANGED <<pins, tables, cause>>

\* Bound of an instance: connections of one host counted in one second.
Countable(perSecond) == now \in DOMAIN perSecond => perSecond[now] < MaxPerSecond

RefusalCountable(h) ==
  h \in DOMAIN silent_flood => Countable(silent_flood[h])
HandshakeCountable(h) ==
  h \in DOMAIN trusted => Countable(trusted[h].recent)

\* reset_connections reads the clock on the caller's thread, then waits for
\* the lock: the reading may be a second old.
Readings == {t \in {now - 1, now} : t >= 0}

Learn ==
  \/ \E h \in AlertHosts : record_client_rejection(h)
  \/ \E h \in UpstreamHosts : learn_upstream_untrusted(h)
  \/ \E h \in SilentHosts : RefusalCountable(h) /\ record_silent_refusal(h)
  \/ \E h \in HandshakeHosts :
       HandshakeCountable(h) /\ record_intercepted_handshake(h)
  \/ \E t \in Readings : on_network_change(t)
  \/ \E hosts \in SUBSET ForgetHosts : forget_pins(hosts)

\* The wall clock only moves forward.
SteadyNext == Learn \/ Tick
SteadySpec == Init /\ [][SteadyNext]_vars

\* The wall clock may also be set.
Next == SteadyNext \/ SetClock
Spec == Init /\ [][Next]_vars
-----------------------------------------------------------------------------
(* Properties.                                                             *)

IsPerSecond(f) == DOMAIN f \subseteq Nat /\ \A s \in DOMAIN f : f[s] \in Nat \ {0}

\* Every table maps hosts to times; a host with pending silent refusals has at
\* least one and fewer than SILENT_REFUSALS different seconds of them
\* (record_silent_refusal makes it a pin at that many).
TypeOK ==
  /\ now \in Nat
  /\ \A map \in {pins, recent, silent_hosts, held_back_logged} :
       DOMAIN map \subseteq Hosts /\ \A h \in DOMAIN map : map[h] \in Nat
  /\ upstream \subseteq Hosts \X Nat /\ silent \subseteq Hosts \X Nat
  /\ upstream_suppressed_until \in Nat /\ silent_suppressed_until \in Nat
  /\ DOMAIN silent_pending \subseteq Hosts
  /\ \A h \in DOMAIN silent_pending :
       /\ silent_pending[h] \subseteq Nat
       /\ Cardinality(silent_pending[h]) \in 1 .. SILENT_REFUSALS - 1
  /\ DOMAIN silent_flood \subseteq Hosts
  /\ \A h \in DOMAIN silent_flood : IsPerSecond(silent_flood[h])
  /\ DOMAIN trusted \subseteq Hosts
  /\ \A h \in DOMAIN trusted :
       trusted[h].last \in Nat /\ IsPerSecond(trusted[h].recent)
  /\ cause \in [Hosts -> Causes]

\* No table of hosts outgrows MAX_RECENT_REJECTIONS, whatever mix of hosts is
\* rejected, refused and trusted (make_room and record_client_rejection).
TablesBounded ==
  \A hosts \in {DOMAIN recent, DOMAIN silent_pending, DOMAIN silent_hosts,
                DOMAIN silent_flood, DOMAIN trusted, DOMAIN held_back_logged} :
    Cardinality(hosts) <= MAX_RECENT_REJECTIONS

\* What was pending for a host is gone once it is a pin, by whichever of the
\* three rules, so a pin that is taken back or expires is learned afresh and
\* not from what was counted before it (policy.rs:261, 270, 276).
PinnedHasNothingPending ==
  DOMAIN pins \cap (DOMAIN recent \cup DOMAIN silent_pending
                    \cup DOMAIN silent_flood) = {}

\* The upstream list only ever takes back pins that upstream failures taught,
\* and no list one that client alerts taught, even if the wall clock is set
\* so that two pins of a host carry the same time (take_back compares times).
TakesBackOwnPins ==
  \A h \in DOMAIN pins :
    /\ <<h, pins[h]>> \in upstream => cause[h] = "upstream"
    /\ cause[h] = "alert" => <<h, pins[h]>> \notin silent

\* What holds of policy.rs's tables however the clock is set: they stay small,
\* hold nothing pending for a pin, and the lists take back their own pins only.
PinTables ==
  TypeOK /\ TablesBounded /\ PinnedHasNothingPending /\ TakesBackOwnPins

\* Only its expiry or the user removes a pin that client alerts taught: no
\* burst and no network change does ("Pins learned from alerts are kept").
AlertPinsKept ==
  [][\A h \in Hosts :
       /\ h \in DOMAIN pins /\ cause[h] = "alert"
       /\ h \notin DOMAIN pins' \/ pins'[h] # pins[h]
       => \/ ~pin_is_live(pins[h], now)
          \/ \E hosts \in SUBSET ForgetHosts : h \in hosts /\ forget_pins(hosts)]_vars

\* While the clock only moves forward, the lists are right: every pin recent
\* enough to be taken back by a network change is still listed with its time,
\* whatever other hosts did to the lists since, and what a silent burst or a
\* network change would take back was taught by that rule ("other pins are
\* kept", policy.rs:647-648; TakesBackOwnPins says it of the upstream list).
ListsMatchPins ==
  \A h \in DOMAIN pins :
    /\ cause[h] = "upstream" /\ within(pins[h], now, UPSTREAM_RECENT_SECS)
         => <<h, pins[h]>> \in upstream
    /\ cause[h] \in SilentCauses /\ within(pins[h], now, SILENT_RECENT_SECS)
         => <<h, pins[h]>> \in silent
    /\ <<h, pins[h]>> \in silent => cause[h] \in SilentCauses

LearnedWithin(causes, secs) ==
  {h \in DOMAIN pins : cause[h] \in causes /\ within(pins[h], now, secs)}

\* While the clock only moves forward, a burst never leaves its pins behind:
\* fewer hosts than make a burst are pins learned within the burst window.
NoBurstOfPins ==
  /\ Cardinality(LearnedWithin({"upstream"}, UPSTREAM_BURST_SECS))
       < UPSTREAM_BURST_HOSTS
  /\ Cardinality(LearnedWithin(SilentCauses, SILENT_BURST_SECS))
       < SILENT_BURST_HOSTS
=============================================================================
