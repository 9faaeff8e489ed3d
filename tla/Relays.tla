------------------------------- MODULE Relays -------------------------------
(***************************************************************************)
(* What holds an upstream socket: passthrough tunnels                      *)
(* (core/crates/mitm/src/connect.rs, passthrough_at_once, dial, tunnel),   *)
(* WebSockets (websocket.rs, dial and upgrade) and the connections of the  *)
(* pool (upstream.rs, close_when_path_gone), and how they end (tunnel.rs): *)
(* until_path_gone closes a relay whose source address left the device,    *)
(* and copy_until_idle a tunnel nothing was read from.  A connection of    *)
(* the pool belongs to hyper: its socket is cut (cut.rs) and hyper's task, *)
(* which may be asleep in a read or a write, finds it so.                  *)
(*                                                                         *)
(* ProxyContext::reset_upstream_connections is called from another thread, *)
(* at any moment.  When a link goes away its address disappears before the *)
(* path change is reported or a moment after: less than PATH_RECHECK later,*)
(* which is the assumption the second check of until_path_gone is built on.*)
(* An address that left does not come back.                                *)
(* Time advances by Tick once every timer that is due has been handled.    *)
(***************************************************************************)
EXTENDS Naturals, FiniteSets

CONSTANTS
    Tunnels, WebSockets, \* the relays of each kind
    Pooled,              \* the connections of the pool
    Addresses,           \* source addresses the device can have
    none,                \* no address
    off,                 \* a timer that is not set
    PATH_RECHECK,        \* from a reset to the second check
    tunnel_idle_timeout, \* how long a tunnel may be silent
    MaxRelays,           \* bound: relays in all
    MaxResets            \* bound: path changes reported

Relays == Tunnels \cup WebSockets \cup Pooled

ASSUME Bounds ==
    /\ PATH_RECHECK \in Nat \ {0}
    /\ tunnel_idle_timeout \in Nat \ {0}
    /\ MaxRelays \in Nat /\ MaxResets \in Nat
    /\ none \notin Addresses
    /\ off \notin Nat

VARIABLES
    stage,   \* "new", "dials", "dialed" (not subscribed yet), "joins" (subscribed,
             \* not watching yet), "relays", "ended"
    local,   \* the upstream socket's source address
    unseen,  \* the watch channel changed since the relay looked
    recheck, \* until_path_gone's second check
    quiet,   \* time since a read last returned bytes
    wake,    \* copy_until_idle's timer
    why,     \* how a relay ended
    cut,     \* pooled connections whose socket is cut
    blocked, \* the wakers of a pooled connection's task, asleep
    present, \* the addresses of the device's links
    leaving, \* time an address of a link that went away may still be there
    resets,  \* path changes reported
    owed     \* relays a reset reached whose address is to leave, or has left

vars == <<stage, local, unseen, recheck, quiet, wake, why, cut, blocked,
          present, leaving, resets, owed>>

Init ==
    /\ stage = [r \in Relays |-> "new"]
    /\ local = [r \in Relays |-> none]
    /\ unseen = [r \in Relays |-> FALSE]
    /\ recheck = [r \in Relays |-> off]
    /\ quiet = [r \in Relays |-> 0]
    /\ wake = [r \in Relays |-> off]
    /\ why = [r \in Relays |-> "open"]
    /\ cut = {}
    /\ blocked = [r \in Pooled |-> {}]
    /\ present = Addresses
    /\ leaving = [a \in Addresses |-> off]
    /\ resets = 0
    /\ owed = {}

Device == <<present, leaving, resets>>
Socket == <<cut, blocked>>

-----------------------------------------------------------------------------
(* The start of a relay *)

(* dial begins: the name is resolved, the socket connects. *)
Dial(r) ==
    /\ stage[r] = "new"
    /\ Cardinality({o \in Relays : stage[o] # "new"}) < MaxRelays
    /\ stage' = [stage EXCEPT ![r] = "dials"]
    /\ UNCHANGED <<local, unseen, recheck, quiet, wake, why, owed, Socket, Device>>

(* The socket is connected, from one of the device's addresses.  The pool  *)
(* subscribes at once.                                                     *)
Dialed(r) ==
    /\ stage[r] = "dials"
    /\ \E a \in present : local' = [local EXCEPT ![r] = a]
    /\ stage' = [stage EXCEPT ![r] = IF r \in Pooled THEN "relays" ELSE "dialed"]
    /\ UNCHANGED <<unseen, recheck, quiet, wake, why, owed, Socket, Device>>

(* The client's side is ready too (hyper hands over its connection), or    *)
(* the server switched protocols: path_resets.subscribe(), which has seen  *)
(* every reset so far.  A tunnel runs at once, a WebSocket once hyper hands*)
(* over both of its connections.                                           *)
Start(r) ==
    /\ stage[r] = "dialed"
    /\ stage' = [stage EXCEPT ![r] = IF r \in Tunnels THEN "relays" ELSE "joins"]
    /\ wake' = [wake EXCEPT ![r] = IF r \in Tunnels THEN tunnel_idle_timeout ELSE off]
    /\ UNCHANGED <<local, unseen, recheck, quiet, why, owed, Socket, Device>>

(* upgrade's task: both connections are there, and until_path_gone starts. *)
Joined(r) ==
    /\ stage[r] = "joins"
    /\ stage' = [stage EXCEPT ![r] = "relays"]
    /\ UNCHANGED <<local, unseen, recheck, quiet, wake, why, owed, Socket, Device>>

-----------------------------------------------------------------------------
(* The end of a relay *)

Ends(r, how) ==
    /\ stage' = [stage EXCEPT ![r] = "ended"]
    /\ why' = [why EXCEPT ![r] = how]
    /\ local' = [local EXCEPT ![r] = none]
    /\ unseen' = [unseen EXCEPT ![r] = FALSE]
    /\ recheck' = [recheck EXCEPT ![r] = off]
    /\ quiet' = [quiet EXCEPT ![r] = 0]
    /\ wake' = [wake EXCEPT ![r] = off]
    /\ owed' = owed \ {r}
    /\ cut' = cut \ {r}
    /\ blocked' = [p \in Pooled |-> IF p = r THEN {} ELSE blocked[p]]
    /\ UNCHANGED Device

(* The dial or the upgrade fails or times out, or either side closes. *)
Closes(r) ==
    /\ stage[r] \in {"dials", "dialed", "joins", "relays"}
    /\ Ends(r, "closed")

(* A read returns bytes (Tracked::poll_read). *)
Reads(r) ==
    /\ stage[r] = "relays"
    /\ quiet[r] > 0
    /\ quiet' = [quiet EXCEPT ![r] = 0]
    /\ UNCHANGED <<stage, local, unseen, recheck, wake, why, owed, Socket, Device>>

\* Mutant: the timer's wake ends the tunnel without looking at the last read
WakesBlindly(r) ==
    /\ wake[r] = 0
    /\ Ends(r, "idle")

(* copy_until_idle's timer: it ends the tunnel if nothing was read, and    *)
(* otherwise sleeps for the rest of the timeout.                           *)
Wakes(r) ==
    /\ wake[r] = 0
    /\ IF quiet[r] >= tunnel_idle_timeout
       THEN Ends(r, "idle")
       ELSE /\ wake' = [wake EXCEPT ![r] = tunnel_idle_timeout - quiet[r]]
            /\ UNCHANGED <<stage, local, unseen, recheck, quiet, why, owed, Socket, Device>>

(* State::check of a pooled connection's socket, in poll_read and in       *)
(* poll_write: the waker is left in its slot, and the task goes to sleep   *)
(* unless the socket is cut.  Both are one poll, and the task that cuts    *)
(* runs on the same thread.                                                *)
Blocks(r, on) ==
    /\ r \in Pooled /\ stage[r] = "relays" /\ r \notin cut
    /\ blocked[r] = {}
    /\ blocked' = [blocked EXCEPT ![r] = on]
    /\ UNCHANGED <<stage, local, unseen, recheck, quiet, wake, why, cut, owed, Device>>

(* The peer's bytes, or its acknowledgements, wake the task. *)
Proceeds(r) ==
    /\ r \in Pooled /\ blocked[r] # {}
    /\ blocked' = [blocked EXCEPT ![r] = {}]
    /\ UNCHANGED <<stage, local, unseen, recheck, quiet, wake, why, cut, owed, Device>>

\* Mutant: only the task blocked reading is woken
WokenReader(on) == on \ {"read"}

(* What is left of a task's sleep: both slots are taken and woken. *)
Woken(on) == {}

(* Cutter::cut, which ends the watch of the connection. *)
Cut(r) ==
    /\ cut' = cut \cup {r}
    /\ blocked' = [blocked EXCEPT ![r] = Woken(@)]
    /\ unseen' = [unseen EXCEPT ![r] = FALSE]
    /\ recheck' = [recheck EXCEPT ![r] = off]
    /\ UNCHANGED <<stage, local, quiet, wake, why, owed, Device>>

(* The task that runs finds the socket cut, and hyper fails the requests   *)
(* and drops the connection.                                               *)
FindsCut(r) ==
    /\ r \in cut /\ blocked[r] = {}
    /\ Ends(r, "path gone")

(* present(local) *)
Gone(r) == local[r] \notin present
PathGone(r) == IF r \in Pooled THEN Cut(r) ELSE Ends(r, "path gone")

\* Mutant: a relay that is still fine is not looked at again
ChangedOnce(r) ==
    /\ unseen[r] /\ stage[r] = "relays"
    /\ IF Gone(r)
       THEN PathGone(r)
       ELSE /\ unseen' = [unseen EXCEPT ![r] = FALSE]
            /\ UNCHANGED <<stage, local, recheck, quiet, wake, why, owed, Socket, Device>>

(* until_path_gone: resets.changed().  A relay without a source address    *)
(* does not watch.                                                         *)
Changed(r) ==
    /\ unseen[r] /\ stage[r] = "relays"
    /\ IF Gone(r)
       THEN PathGone(r)
       ELSE /\ unseen' = [unseen EXCEPT ![r] = FALSE]
            /\ recheck' = [recheck EXCEPT ![r] = PATH_RECHECK]
            /\ UNCHANGED <<stage, local, quiet, wake, why, owed, Socket, Device>>

(* until_path_gone: the second check. *)
Check(r) ==
    /\ recheck[r] = 0
    /\ IF Gone(r)
       THEN PathGone(r)
       ELSE /\ recheck' = [recheck EXCEPT ![r] = off]
            /\ UNCHANGED <<stage, local, unseen, quiet, wake, why, owed, Socket, Device>>

-----------------------------------------------------------------------------
(* The device *)

Subscribed(r) == stage[r] \in {"joins", "relays"}

(* A link goes away, another comes, or the device wakes, and the app calls *)
(* reset_upstream_connections.  The addresses in going are gone already or *)
(* leave before PATH_RECHECK.                                              *)
Reset(going, left) ==
    /\ resets < MaxResets
    /\ resets' = resets + 1
    /\ left \subseteq going
    /\ present' = present \ left
    /\ leaving' = [a \in Addresses |->
                    IF a \in going \cap present' THEN PATH_RECHECK - 1 ELSE leaving[a]]
    /\ unseen' = [r \in Relays |-> unseen[r] \/ (Subscribed(r) /\ r \notin cut)]
    /\ owed' = owed \cup {r \in Relays : Subscribed(r) /\ local[r] \in going}
    /\ UNCHANGED <<stage, local, recheck, quiet, wake, why, Socket>>

(* The address of a link that went away disappears. *)
Leaves(a) ==
    /\ leaving[a] # off
    /\ present' = present \ {a}
    /\ leaving' = [leaving EXCEPT ![a] = off]
    /\ UNCHANGED <<stage, local, unseen, recheck, quiet, wake, why, resets, owed, Socket>>

Less(timer) == IF timer = off THEN off ELSE timer - 1

Tick ==
    /\ \A r \in Relays : recheck[r] # 0 /\ wake[r] # 0 /\ ~(unseen[r] /\ stage[r] = "relays")
    /\ \A a \in Addresses : leaving[a] # 0
    /\ recheck' = [r \in Relays |-> Less(recheck[r])]
    /\ wake' = [r \in Relays |-> Less(wake[r])]
    /\ leaving' = [a \in Addresses |-> Less(leaving[a])]
    /\ quiet' = [r \in Relays |->
                    IF r \in Tunnels /\ stage[r] = "relays" /\ quiet[r] < tunnel_idle_timeout
                    THEN quiet[r] + 1 ELSE quiet[r]]
    /\ UNCHANGED <<stage, local, unseen, why, present, resets, owed, Socket>>

-----------------------------------------------------------------------------
Timers(r) == Wakes(r) \/ Changed(r) \/ Check(r)

Next ==
    \/ \E r \in Relays : Dial(r) \/ Dialed(r) \/ Start(r) \/ Joined(r) \/ Closes(r) \/ Reads(r)
                         \/ Timers(r)
    \/ \E r \in Pooled : \/ FindsCut(r) \/ Proceeds(r)
                         \/ \E on \in SUBSET {"read", "write"} \ {{}} : Blocks(r, on)
    \/ \E going \in SUBSET present : \E left \in SUBSET going : Reset(going, left)
    \/ \E a \in Addresses : Leaves(a)
    \/ Tick

(* Time passes, and the runtime handles what is due (a tick waits for all  *)
(* timers and for every address that is to leave, so none of them is       *)
(* forgotten for another).  Peers need not close, nor send anything.       *)
Fairness ==
    /\ WF_vars(Tick)
    /\ WF_vars(\E r \in Relays : Timers(r))
    /\ \A r \in Pooled : WF_vars(FindsCut(r))
    /\ WF_vars(\E a \in Addresses : leaving[a] = 0 /\ Leaves(a))

FairSpec == Init /\ [][Next]_vars /\ Fairness

-----------------------------------------------------------------------------
(* Properties *)

TypeOK ==
    /\ stage \in [Relays -> {"new", "dials", "dialed", "joins", "relays", "ended"}]
    /\ local \in [Relays -> Addresses \cup {none}]
    /\ present \subseteq Addresses
    /\ owed \subseteq {r \in Relays : Subscribed(r)}
    /\ \A r \in Relays :
        /\ recheck[r] \in 0..PATH_RECHECK \cup {off}
        /\ wake[r] \in 0..tunnel_idle_timeout \cup {off}
        /\ unseen[r] => Subscribed(r) /\ local[r] # none /\ r \notin cut
        /\ (stage[r] = "relays" /\ r \in Tunnels) <=> wake[r] # off

(* A relay that a reset reached, on a link whose address leaves within     *)
(* PATH_RECHECK of it, always has a check ahead of it that comes no        *)
(* earlier than the address leaves: the change it has not seen, or the     *)
(* second check; or its socket is cut already.  Later resets, which move   *)
(* the second check, do not lose it.                                       *)
CheckAhead ==
    /\ TypeOK
    /\ \A r \in owed :
        \/ unseen[r] \/ r \in cut
        \/ /\ recheck[r] # off
           /\ leaving[local[r]] # off => recheck[r] >= leaving[local[r]]

(* Such a relay, once it runs, is closed, even if both peers stay silent   *)
(* for ever (a WebSocket hyper never hands over does not run): the client  *)
(* sees the failure and retries on the new path.  A connection of the pool *)
(* asleep in a read, in a write or in both is closed too.  And a tunnel    *)
(* from which nothing is read any more gives its slot back.                *)
DeadRelaysEnd ==
    /\ \A r \in Relays : (r \in owed /\ stage[r] = "relays") ~> stage[r] = "ended"
    /\ \A r \in Tunnels : stage[r] = "relays" ~> (stage[r] = "ended" \/ quiet[r] = 0)

(* "Closed only if their upstream source address is no longer assigned to  *)
(* the device": a healthy relay is never closed for its path; and a tunnel *)
(* is closed as idle only when nothing was read for the whole timeout.     *)
HealthyGoOn ==
    [][\A r \in Relays : why'[r] # why[r] =>
        /\ why'[r] = "path gone" => local[r] \notin present
        /\ why'[r] = "idle" => quiet[r] = tunnel_idle_timeout]_vars

=============================================================================
