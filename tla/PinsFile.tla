------------------------------ MODULE PinsFile ------------------------------
(***************************************************************************)
(* The learned pins file (engine.rs, controls.rs).  The engine writes its  *)
(* pins from a periodic task, from forget_pins and from stop, each on its  *)
(* own thread, one at a time under the lock of saved; the app edits the    *)
(* file itself while no tunnel runs.  Writes may fail, and the tunnel's    *)
(* process may end at any time and be launched again.  A write replaces    *)
(* the file whole (write_private).                                         *)
(***************************************************************************)
EXTENDS Naturals

CONSTANTS Hosts,
    MaxChanges,  \* changes of the pins
    MaxStarts,   \* starts of a runtime
    MaxFails,    \* writes that fail
    MaxEnds      \* ends of the tunnel's process

VARIABLES
    file,     \* what learned-pins.json holds, and how new it is
    alive,    \* the tunnel's process has an engine
    running,  \* the engine's runtime runs
    pins,     \* the policy's learned pins
    now,      \* how often the pins have changed
    saved,    \* PinsFile.saved: the pins the engine last wrote or loaded
    lock,     \* the saves that hold the lock of saved
    save,     \* where each save is
    snap,     \* the pins a save is writing
    forgets,  \* the hosts forget_pins is saving the end of, not learned since
    app,      \* the edits the app is about to write into the file
    starts, fails, ends,
    unread,   \* the file could not be read at the last launch
    raced,    \* a tunnel came up in the middle of the app's edit
    gone      \* hosts whose forgetting was saved, not learned again since

memory == <<alive, running, pins, saved, lock, save, snap, forgets>>
vars == <<memory, file, now, app, starts, fails, ends, unread, raced, gone>>

\* The periodic task of each runtime, and the two callers that always write.
Savers == 1..MaxStarts \cup {MaxStarts + 1, MaxStarts + 2}
Forgetting == MaxStarts + 1
Stopping == MaxStarts + 2

Idle == [a \in Savers |-> "idle"]
NoPins == [pins |-> {}, at |-> 0]

Init ==
  /\ file = NoPins
  /\ alive = FALSE /\ running = FALSE /\ pins = {} /\ now = 0 /\ saved = {}
  /\ lock = {} /\ save = Idle /\ snap = [a \in Savers |-> NoPins]
  /\ forgets = {} /\ app = {}
  /\ starts = 0 /\ fails = 0 /\ ends = 0
  /\ unread = FALSE /\ raced = FALSE /\ gone = {}

\* Engine::with_options: the pins of the file, or none when reading it fails.
Launch(readable) ==
  /\ ~alive
  /\ alive' = TRUE
  /\ pins' = IF readable THEN file.pins ELSE {}
  /\ saved' = pins'
  /\ unread' = ~readable
  /\ raced' = (raced \/ app # {})
  /\ UNCHANGED <<running, lock, save, snap, forgets, file, now, app, starts,
                 fails, ends, gone>>

Start ==
  /\ alive /\ ~running /\ starts < MaxStarts
  /\ running' = TRUE /\ starts' = starts + 1
  /\ UNCHANGED <<alive, pins, saved, lock, save, snap, forgets, file, now, app,
                 fails, ends, unread, raced, gone>>

\* The policy learns a pin or takes one back.
Learn(h) ==
  /\ running /\ now < MaxChanges
  /\ pins' = IF h \in pins THEN pins \ {h} ELSE pins \cup {h}
  /\ now' = now + 1
  /\ gone' = gone \ pins'
  /\ forgets' = forgets \ pins'
  /\ UNCHANGED <<alive, running, saved, lock, save, snap, file, app, starts,
                 fails, ends, unread, raced>>

\* A save that runs makes the check come out false.
changed == lock = {} /\ pins # saved

\* A tick of the running runtime's task, which awaits the save it spawns.
Tick ==
  /\ running /\ save[starts] = "idle" /\ changed
  /\ save' = [save EXCEPT ![starts] = "waits"]
  /\ UNCHANGED <<alive, running, pins, saved, lock, snap, forgets, file, now,
                 app, starts, fails, ends, unread, raced, gone>>

ForgetPendingOnly(h) ==
  /\ alive /\ save[Forgetting] = "idle" /\ now < MaxChanges
  /\ now' = now + 1
  /\ forgets' = {h}
  /\ save' = [save EXCEPT ![Forgetting] = "waits"]
  /\ UNCHANGED <<alive, running, pins, saved, lock, snap, file, app, starts,
                 fails, ends, unread, raced, gone>>

forget_pins(h) ==
  /\ alive /\ save[Forgetting] = "idle" /\ now < MaxChanges
  /\ pins' = pins \ {h}
  /\ now' = now + 1
  /\ forgets' = {h}
  /\ save' = [save EXCEPT ![Forgetting] = "waits"]
  /\ UNCHANGED <<alive, running, saved, lock, snap, file, app, starts, fails,
                 ends, unread, raced, gone>>

\* stop_runtime: the periodic task is aborted, the save it spawned goes on.
Stop ==
  /\ running /\ save[Stopping] = "idle"
  /\ running' = FALSE
  /\ save' = [save EXCEPT ![Stopping] = "waits"]
  /\ UNCHANGED <<alive, pins, saved, lock, snap, forgets, file, now, app,
                 starts, fails, ends, unread, raced, gone>>

always(a) == a \in {Forgetting, Stopping}

\* The save begins: the pins of this moment, if they are to be written.
Begin(a) ==
  /\ save[a] = "waits"
  /\ IF always(a) \/ pins # saved
       THEN /\ lock' = {a}
            /\ save' = [save EXCEPT ![a] = "writes"]
            /\ snap' = [snap EXCEPT ![a] = [pins |-> pins, at |-> now]]
       ELSE /\ save' = [save EXCEPT ![a] = "idle"]
            /\ UNCHANGED <<lock, snap>>
  /\ UNCHANGED <<alive, running, pins, saved, forgets, file, now, app, starts,
                 fails, ends, unread, raced, gone>>

\* save: the lock first, then the snapshot.
Lock(a) == lock = {} /\ Begin(a)

\* The hosts whose forgetting this write has made lasting.
Lasting(a) == IF a = Forgetting THEN forgets ELSE {}

\* saved follows the file only when the write succeeded.
Ends(a, ok) == saved' = IF ok THEN snap[a].pins ELSE saved

Unlock(a) == save' = [save EXCEPT ![a] = "idle"] /\ lock' = {}

\* save_pins returns.
Written(a, ok) ==
  /\ save[a] = "writes"
  /\ ok \/ fails < MaxFails
  /\ Ends(a, ok) /\ Unlock(a)
  /\ snap' = [snap EXCEPT ![a] = NoPins]
  /\ forgets' = IF a = Forgetting THEN {} ELSE forgets
  /\ file' = IF ok THEN snap[a] ELSE file
  /\ fails' = IF ok THEN fails ELSE fails + 1
  /\ unread' = (unread /\ ~ok)
  /\ gone' = IF ok THEN gone \cup Lasting(a) ELSE gone
  /\ UNCHANGED <<alive, running, pins, now, app, starts, ends, raced>>

\* Jetsam, a crash, or the end that follows a stop: what was in memory is lost.
ProcessEnds ==
  /\ alive /\ ends < MaxEnds
  /\ ends' = ends + 1
  /\ alive' = FALSE /\ running' = FALSE /\ pins' = {} /\ saved' = {}
  /\ lock' = {} /\ save' = Idle /\ snap' = [a \in Savers |-> NoPins]
  /\ forgets' = {}
  /\ UNCHANGED <<file, now, app, starts, fails, unread, raced, gone>>

\* forget_stored_pins, when the app saw the tunnel down: it reads the file ...
AppForgets(h) ==
  /\ ~alive /\ app = {} /\ now < MaxChanges
  /\ h \in file.pins
  /\ now' = now + 1
  /\ app' = {[host |-> h, pins |-> file.pins \ {h}, at |-> now']}
  /\ UNCHANGED <<memory, file, starts, fails, ends, unread, raced, gone>>

\* ... and writes it.
AppWrites(ok) ==
  /\ ok \/ fails < MaxFails
  /\ \E edit \in app :
       /\ file' = IF ok THEN [pins |-> edit.pins, at |-> edit.at] ELSE file
       /\ gone' = IF ok THEN gone \cup {edit.host} ELSE gone
  /\ fails' = IF ok THEN fails ELSE fails + 1
  /\ app' = {}
  /\ UNCHANGED <<memory, now, starts, ends, unread, raced>>

Saves == \E a \in Savers : Lock(a) \/ \E ok \in BOOLEAN : Written(a, ok)

Next ==
  \/ \E readable \in BOOLEAN : Launch(readable)
  \/ Start
  \/ Stop
  \/ Tick
  \/ \E h \in Hosts : Learn(h)
  \/ \E h \in Hosts : forget_pins(h)
  \/ Saves
  \/ ProcessEnds
  \/ \E h \in Hosts : AppForgets(h)
  \/ \E ok \in BOOLEAN : AppWrites(ok)

Spec == Init /\ [][Next]_vars

\* Types; the lock of saved is held only by a save that writes, and by one.
TypeOK ==
  /\ now \in Nat
  /\ file \in [pins : SUBSET Hosts, at : Nat]
  /\ pins \subseteq Hosts /\ saved \subseteq Hosts /\ gone \subseteq Hosts
  /\ save \in [Savers -> {"idle", "waits", "writes"}]
  /\ snap \in [Savers -> [pins : SUBSET Hosts, at : Nat]]
  /\ \A a \in lock : a \in Savers /\ save[a] = "writes" /\ lock = {a}
  /\ running => alive

\* saved is what the file holds whenever no save is running ("the pins the
\* file holds: the ones written last, or the ones loaded at creation"), so
\* changed never misses a pin and a failed write is tried again.  Not so
\* after a launch that could not read the file, or a raced edit of the app.
SavedIsTheFile ==
  alive /\ lock = {} /\ ~unread /\ ~raced => saved = file.pins

\* A save still running when a later one is asked for never replaces newer
\* pins with older ones (the comment on PinsFile), whichever threads save.
NeverOlder == [][~raced' => file'.at >= file.at]_vars

\* A pin the user had forgotten, once that was written, stays forgotten
\* across crashes and launches until the policy learns it again
\* (forget_pins, forget_stored_pins).
ForgottenStays ==
  ~raced => gone \cap (file.pins \cup pins) = {}

\* Both at once, with the types: the pins file and what the engine believes
\* of it (PinsFile::save).
PinsKept == TypeOK /\ SavedIsTheFile /\ ForgottenStays
=============================================================================
