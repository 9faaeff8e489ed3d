---------------------------- MODULE ListHandover ----------------------------
(***************************************************************************)
(* Compiled lists on their way into the running engine: after each compile *)
(* its caller calls TunnelController.listsUpdated (TunnelController.swift),*)
(* whose overlapping calls share one task; a round of that task asks the   *)
(* tunnel to reload (Engine::reload_lists) or restarts it, now or the next *)
(* time the app is active.  The tunnel starts and ends, the app moves to   *)
(* the background and is ended, and further compiles finish meanwhile.     *)
(*                                                                         *)
(* A file is known by the number of the compile that wrote it (0: there is *)
(* none); ListUpdates says what a compile puts into it.  HTTPS filtering   *)
(* is on, the certificate trusted and the VPN configuration there; the     *)
(* controller knows the tunnel by status, its copy of the connection's.    *)
(***************************************************************************)
EXTENDS Naturals

CONSTANTS
    MaxCompiles, \* bound: compiles
    MaxKills,    \* bound: times iOS ends the app
    MaxCrashes   \* bound: times the tunnel ends

VARIABLES
    engine,     \* engine.dat
    domains,    \* domains.bin
    compiling,  \* the caller whose compile wrote engine.dat only, or "none"
    caller,     \* what each caller of listsUpdated is doing
    applying,   \* the applyingLists task: [pc, restarted], and the filter a reload read
    again,      \* listsChangedAgain
    left,       \* listsPendingKey
    status,     \* the controller's status: "off", "starting", "on", or "invalid"
                \* (no manager attached yet)
    background, \* the app is in the background
    tunnel,     \* "off", "starting", "loading", "on"
    early,      \* it is up already, since before the first unlock (startTunnel)
    running,    \* the lists of the running engine: [filter, domains, active]
    missed,     \* what the running engine lacks was given up on
    compiles, kills, crashes

files == <<engine, domains, compiling>>
apply == <<applying, again, left>>
view == <<status, background>>
provider == <<tunnel, early, running>>
bounds == <<compiles, kills, crashes>>
vars == <<files, caller, apply, view, provider, missed, bounds>>

Callers == {"refresh", "user", "active"}
Off == [filter |-> 0, domains |-> 0, active |-> FALSE]
Quiet == [pc |-> "none", restarted |-> FALSE, read |-> 0]

Init ==
    /\ engine = 0 /\ domains = 0 /\ compiling = "none"
    /\ caller = [c \in Callers |-> "idle"]
    /\ applying = Quiet /\ again = FALSE /\ left = FALSE
    /\ status = "invalid" /\ background = FALSE
    /\ tunnel = "off" /\ early = FALSE /\ running = Off /\ missed = FALSE
    /\ compiles = 0 /\ kills = 0 /\ crashes = 0

(* The engine of lists r does not have what the files hold. *)
Stale(r) ==
    \/ r.filter # engine \/ r.domains # domains
    \/ engine # 0 /\ ~r.active

(* The running engine does not, or the starting one will not. *)
Lacks ==
    \/ tunnel = "on" /\ Stale(running)
    \/ tunnel = "loading" /\ running.filter # engine

(* The connection's status. *)
Connection ==
    IF tunnel = "on" \/ early THEN "on" ELSE IF tunnel = "off" THEN "off" ELSE "starting"

-----------------------------------------------------------------------------
(* compile_split, called by ListUpdater.run for the refresh task or a      *)
(* button.  Runs do not overlap (isBusy).                                  *)

Compile(c) ==
    /\ caller[c] = "idle" /\ compiling = "none" /\ compiles < MaxCompiles
    /\ compiles' = compiles + 1
    /\ engine' = compiles'
    /\ compiling' = c
    /\ caller' = [caller EXCEPT ![c] = "compiles"]
    /\ UNCHANGED <<domains, apply, view, provider, missed, kills, crashes>>

(* domains.bin follows, and the run returns true; or it cannot be written, *)
(* and nobody calls listsUpdated.                                          *)
CompileEnds(written) ==
    /\ compiling # "none"
    /\ domains' = IF written THEN compiles ELSE domains
    /\ missed' = (missed \/ (~written /\ Lacks))
    /\ compiling' = "none"
    /\ caller' = [caller EXCEPT ![compiling] = IF written THEN "applies" ELSE "idle"]
    /\ UNCHANGED <<engine, apply, view, provider, bounds>>

-----------------------------------------------------------------------------
(* TunnelController                                                        *)

(* loadNow attaches the manager, at launch, before a refresh, after a      *)
(* change of the configuration and in restartNow; one that fails leaves    *)
(* the status as it is.  The attached manager's observer follows it.       *)
Observes ==
    /\ status # Connection
    /\ status' = Connection
    /\ UNCHANGED <<files, caller, apply, background, provider, missed, bounds>>

(* Mutant: a call while another is being applied just waits for it. *)
ListsUpdatedWaits(c) ==
    /\ caller[c] = "applies"
    /\ caller' = [caller EXCEPT ![c] = "waits"]
    /\ applying' = IF applying.pc = "none" THEN [Quiet EXCEPT !.pc = "round"] ELSE applying
    /\ UNCHANGED <<files, again, left, view, provider, missed, bounds>>

ListsUpdated(c) ==
    /\ caller[c] = "applies"
    /\ caller' = [caller EXCEPT ![c] = "waits"]
    /\ IF applying.pc = "none"
       THEN applying' = [Quiet EXCEPT !.pc = "round"] /\ again' = again
       ELSE again' = TRUE /\ applying' = applying
    /\ UNCHANGED <<files, left, view, provider, missed, bounds>>

(* The task is over, and its callers return. *)
Over ==
    /\ applying' = Quiet
    /\ caller' = [c \in Callers |-> IF caller[c] = "waits" THEN "idle" ELSE caller[c]]

(* The end of a round: another one, or the task is over. *)
RoundEnds(restarted, more) ==
    IF more THEN /\ applying' = [Quiet EXCEPT !.pc = "round", !.restarted = restarted]
                 /\ caller' = caller
            ELSE Over

Goes(pc) == applying' = [applying EXCEPT !.pc = pc] /\ caller' = caller

(* applyLists goes by the status.  Nothing is awaited when the tunnel is   *)
(* off, or is starting after a restart of this task, or in the background. *)
Branches ==
    /\ applying.pc = "round"
    /\ LET restarts == status = "starting" /\ ~applying.restarted
       IN  /\ left' = (restarts /\ background)
           /\ missed' = (missed \/ (Lacks /\ status # "on" /\ ~restarts))
           /\ IF status = "on" THEN Goes("stats")
              ELSE IF restarts /\ ~background THEN Goes("restart")
              ELSE RoundEnds(applying.restarted, again')
    /\ UNCHANGED <<files, view, provider, bounds>>

(* Mutant: the note that lists changed again is never taken off. *)
RoundKeepsAgain == again' = again /\ Branches

Round == again' = FALSE /\ Branches

(* refreshStats, then restartUnlessInBackground if the stats at hand say   *)
(* that HTTPS filtering is not active, or the message to reload, which     *)
(* does not make it so.  The provider's answer, without an engine too, is  *)
(* its present state; with no answer the stats are older ones, or nil.     *)
RefreshStats(answered, inactive) ==
    /\ applying.pc = "stats"
    /\ answered => Connection = "on" /\ inactive = ~(tunnel = "on" /\ running.active)
    /\ LET restarts == inactive /\ ~applying.restarted
       IN  /\ left' = (left \/ (restarts /\ background))
           /\ missed' = (missed \/ (Lacks /\ ~restarts /\ ~running.active))
           /\ IF ~restarts THEN Goes("reload")
              ELSE IF ~background THEN Goes("restart")
              ELSE RoundEnds(FALSE, again)
    /\ UNCHANGED <<files, again, view, provider, bounds>>

(* restartIfRunning stopped the tunnel and starts it again; or it did not  *)
(* (TunnelControl), or the tunnel was off by then.                         *)
Restart(done) ==
    /\ applying.pc = "restart"
    /\ IF done /\ tunnel # "off"
       THEN /\ tunnel' = "starting" /\ early' = FALSE /\ running' = Off
            /\ Goes("connects") /\ missed' = FALSE
       ELSE /\ missed' = (missed \/ Lacks)
            /\ RoundEnds(TRUE, again)
            /\ UNCHANGED provider
    /\ UNCHANGED <<files, again, left, view, bounds>>

(* The restarted tunnel is connected, or that was not waited for. *)
Connected ==
    /\ applying.pc = "connects"
    /\ RoundEnds(TRUE, again)
    /\ UNCHANGED <<files, again, left, view, provider, missed, bounds>>

-----------------------------------------------------------------------------
(* The tunnel                                                              *)

(* Engine::reload_lists: both files are read, then both are swapped in.    *)
ReloadReads ==
    /\ applying.pc = "reload" /\ tunnel = "on"
    /\ applying' = [applying EXCEPT !.pc = "swap", !.read = engine]
    /\ UNCHANGED <<files, caller, again, left, view, provider, missed, bounds>>

ReloadSwaps ==
    /\ applying.pc = "swap" /\ tunnel = "on"
    /\ running' = [running EXCEPT !.filter = applying.read, !.domains = domains]
    /\ missed' = (missed /\ Stale(running'))
    /\ RoundEnds(applying.restarted, again)
    /\ UNCHANGED <<files, again, left, view, tunnel, early, bounds>>

(* An error swaps nothing; a provider that has no engine yet says "ok" and *)
(* swaps nothing either; a tunnel that is gone gives no answer.            *)
ReloadFails ==
    /\ applying.pc \in {"reload", "swap", "unanswered"}
    /\ missed' = (missed \/ (Lacks /\ applying.pc # "unanswered"))
    /\ RoundEnds(applying.restarted, again)
    /\ UNCHANGED <<files, again, left, view, provider, bounds>>

TunnelStarts ==
    /\ tunnel = "off"
    /\ tunnel' = "starting"
    /\ UNCHANGED <<files, caller, apply, view, early, running, missed, bounds>>

(* Engine::with_options: HTTPS filtering needs engine.dat now. *)
LoadFilter ==
    /\ tunnel = "starting"
    /\ tunnel' = "loading"
    /\ running' = [running EXCEPT !.filter = engine, !.active = engine # 0]
    /\ UNCHANGED <<files, caller, apply, view, early, missed, bounds>>

LoadDomains ==
    /\ tunnel = "loading"
    /\ tunnel' = "on" /\ early' = FALSE
    /\ running' = [running EXCEPT !.domains = domains]
    /\ missed' = (missed /\ Stale(running'))
    /\ UNCHANGED <<files, caller, apply, view, bounds>>

TunnelEnds ==
    /\ tunnel # "off" /\ crashes < MaxCrashes
    /\ crashes' = crashes + 1
    /\ tunnel' = "off" /\ early' = FALSE /\ running' = Off /\ missed' = FALSE
    /\ applying' = IF applying.pc \in {"reload", "swap"}
                   THEN [applying EXCEPT !.pc = "unanswered", !.read = 0] ELSE applying
    /\ UNCHANGED <<files, caller, again, left, view, compiles, kills>>

-----------------------------------------------------------------------------
(* The app                                                                 *)

Leaves ==
    /\ ~background /\ compiles < MaxCompiles
    /\ background' = TRUE
    /\ UNCHANGED <<files, caller, apply, status, provider, missed, bounds>>

(* The scene is active: applyPendingListUpdate takes the flag.  One that   *)
(* is still under way from the last time is joined when it applies.        *)
Activates ==
    /\ background /\ caller["active"] = "idle"
    /\ background' = FALSE
    /\ left' = FALSE
    /\ caller' = [caller EXCEPT !["active"] = IF left THEN "applies" ELSE @]
    /\ UNCHANGED <<files, applying, again, status, provider, missed, bounds>>

(* iOS ends the app, which is launched again. *)
Ends ==
    /\ kills < MaxKills
    /\ kills' = kills + 1
    /\ compiling' = "none" /\ caller' = [c \in Callers |-> "idle"]
    /\ applying' = Quiet /\ again' = FALSE
    /\ status' = "invalid" /\ background' \in BOOLEAN
    /\ UNCHANGED <<engine, domains, left, compiles, crashes>>

Relaunched ==
    /\ Ends
    /\ missed' = (missed \/ (Lacks /\ (compiling # "none" \/ applying # Quiet
                                        \/ \E c \in Callers : caller[c] = "applies")))
    /\ UNCHANGED provider

(* The phone restarts, and Connect On Demand starts the tunnel before the  *)
(* first unlock: it is up, and starts its engine once the files are        *)
(* readable (waitForProtectedData), which is when the app can run too.     *)
Rebooted ==
    /\ Ends
    /\ tunnel' = "starting" /\ early' = TRUE /\ running' = Off /\ missed' = FALSE

(* The controller's own steps; the others wait for iOS or the tunnel. *)
Controller ==
    \/ \E c \in Callers : ListsUpdated(c)
    \/ Round \/ Connected

Next ==
    \/ \E c \in {"refresh", "user"} : Compile(c)
    \/ \E b \in BOOLEAN : CompileEnds(b) \/ Restart(b)
    \/ \E b, inactive \in BOOLEAN : RefreshStats(b, inactive)
    \/ Controller \/ Observes
    \/ ReloadReads \/ ReloadSwaps \/ ReloadFails
    \/ TunnelStarts \/ LoadFilter \/ LoadDomains \/ TunnelEnds
    \/ Leaves \/ Activates \/ Relaunched \/ Rebooted

Spec == Init /\ [][Next]_vars

(* Compiles end, the controller takes its own steps, and wait has a limit  *)
(* of tries.  Nothing is assumed of calls into iOS and of the tunnel.      *)
FairSpec ==
    Spec /\ WF_vars(Controller) /\ WF_vars(\E written \in BOOLEAN : CompileEnds(written))

-----------------------------------------------------------------------------
(* Properties                                                              *)

(* The types; a caller waits only while the lists are being applied.       *)
TypeOK ==
    /\ {engine, domains, running.filter, running.domains} \subseteq 0..MaxCompiles
    /\ compiling # "none" => caller[compiling] = "compiles"
    /\ applying.pc \in {"none", "round", "stats", "restart", "connects", "reload",
                        "swap", "unanswered"}
    /\ (\E c \in Callers : caller[c] = "waits") <=> applying.pc # "none"
    /\ again => applying.pc # "none"

(* A running engine that lacks what the files hold, or runs without HTTPS  *)
(* filtering although engine.dat is there, is about to be told: a compile  *)
(* is still under way, its caller or a round will look at the tunnel, or a *)
(* restart is left for the next time the app is active.  "No call can join *)
(* a task that will not look at its lists" (listsUpdated).                 *)
(* The exceptions, all in missed, last until the engine is replaced or     *)
(* gets the lists after all:                                               *)
(*  - the app is ended first, or its compile fails after engine.dat;       *)
(*  - status is behind the connection (not loaded, the notification not    *)
(*    handled): a running tunnel is then taken to be off, where "the next  *)
(*    start loads the new files" (applyLists) does not help it, or to be   *)
(*    starting after this task's restart;                                  *)
(*  - a restart is not made, because restartNow gave it up, or the stats   *)
(*    that ask for it were not answered;                                   *)
(*  - the reload fails, or is answered before there is an engine.          *)
NoListsForgotten ==
    /\ TypeOK
    /\ tunnel = "on" /\ Stale(running) =>
        \/ missed \/ left \/ again
        \/ compiling # "none"
        \/ \E c \in Callers : caller[c] = "applies"
        \/ applying.pc \in {"round", "stats", "restart"}
        \/ applying.pc = "reload" /\ running.active
        \/ applying.pc = "swap" /\ applying.read = engine /\ running.active

(* What the controller awaits of iOS and of the tunnel, without a deadline *)
(* of its own (send, saveToPreferences).                                   *)
Awaits == {"stats", "restart", "reload", "swap", "unanswered"}

(* If no message to the tunnel and no call into iOS hangs for ever, every  *)
(* call of listsUpdated gets back to its caller, however rounds, restarts  *)
(* and joined calls interleave: there is always a last round.              *)
CallersReturn ==
    []<>(applying.pc \notin Awaits) => []<>(compiling = "none" /\ applying = Quiet)

=============================================================================
