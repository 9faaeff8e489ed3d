--------------------------- MODULE TunnelControl ---------------------------
(***************************************************************************)
(* The app's TunnelController (ios/App/TunnelController.swift): start(),   *)
(* stop(), restartIfRunning() and load(), each suspended at its awaits     *)
(* while the others, iOS and the tunnel go on, and the HTTPS filtering     *)
(* switch (ContentView.swift) with the learned pins it must not carry over *)
(* an untrusted certificate.  iOS may end the app between any two steps;   *)
(* UserDefaults, the VPN configuration and the files of the App Group are  *)
(* what is left then.                                                      *)
(*                                                                         *)
(* iOS is modelled from how the code uses it: a save of the configuration  *)
(* succeeds or throws, Connect On Demand starts a tunnel whenever none     *)
(* runs, stopVPNTunnel shows as .disconnecting at once, and .disconnected  *)
(* is shown once stopTunnel, which stops the engine, has completed.        *)
(* Pins are "none", "bad" when one was learned while the certificate was   *)
(* not trusted, and "noted" when that is known to the app                  *)
(* (noteUntrustedCertificate) or happens after it.                         *)
(***************************************************************************)
EXTENDS Naturals, Sequences

CONSTANTS
    MaxUser,   \* bound: taps of the user and changes of trust
    MaxKills,  \* bound: times the app or the tunnel is ended
    MaxQueued  \* bound: restarts waiting for their turn

VARIABLES
    ondemand, \* isOnDemandEnabled of the saved configuration
    paused,   \* onDemandPausedKey
    suspect,  \* pinsSuspectKey
    mitm,     \* config.json: mitm_enabled
    file,     \* learned-pins.json
    conn,     \* connection.status
    engine,   \* the running engine: [on, mitm, pins]
    trusted,  \* iOS trusts the certificate
    app,      \* the app runs
    op,       \* the operation that set busy
    queued,   \* restarts behind it: what each is to do
    manager,  \* "nil", or its isOnDemandEnabled in memory: "on" or "off"
    loader,   \* loadNow: "idle", "loads" or "restores"
    checking, \* a request of the app tests the certificate after filtering was turned on
    evaluated,\* CertificateManager: "no", "trusted" or "untrusted"
    wanted,   \* what the user asked for last: "on", "off"; or "unsure", until it is
              \* saved, or when Settings and the controller disagree
    unseen,   \* pins were cleared without a manager while a tunnel ran
    lost,     \* the app ended, or a save failed, after a load or restart took paused
    taps, kills

tunnel == <<conn, engine, file>>
loads == <<loader, manager>>
flags == <<paused, suspect, mitm>>
others == <<trusted, evaluated, wanted, unseen, lost, taps, kills>>
rest == <<checking, others>>
vars == <<ondemand, flags, tunnel, app, op, queued, loads, rest>>

NoEngine == [on |-> FALSE, mitm |-> FALSE, pins |-> "none"]
NoOp == [kind |-> "none", pc |-> "none", clear |-> FALSE, enable |-> FALSE, was |-> FALSE]
Begun(kind, job) == [NoOp EXCEPT !.kind = kind, !.pc = "load", !.clear = job.clear,
                                 !.enable = job.enable]
NoJob == [clear |-> FALSE, enable |-> FALSE]

(* Protection is on, or was never turned on. *)
Init ==
    /\ \E on \in BOOLEAN :
         /\ ondemand = on /\ wanted = (IF on THEN "on" ELSE "off")
    /\ mitm \in BOOLEAN
    /\ paused = FALSE /\ suspect = FALSE
    /\ conn = "disconnected" /\ engine = NoEngine /\ file = "none"
    /\ trusted = TRUE /\ checking = FALSE /\ evaluated = "no"
    /\ app = TRUE /\ op = NoOp /\ queued = <<>> /\ loader = "idle" /\ manager = "nil"
    /\ unseen = FALSE /\ lost = FALSE /\ taps = 0 /\ kills = 0

-----------------------------------------------------------------------------
(* iOS and the tunnel.                                                     *)

startVPNTunnel == IF conn = "disconnected" THEN "connecting" ELSE conn
stopVPNTunnel == IF conn \in {"connecting", "connected"} THEN "disconnecting" ELSE conn

OnDemand ==
    /\ ondemand /\ conn = "disconnected"
    /\ conn' = "connecting"
    /\ UNCHANGED <<ondemand, flags, engine, file, app, op, queued, loads, rest>>

(* startTunnel before the first unlock: up, with no engine yet. *)
StartLocked ==
    /\ conn = "connecting" /\ ~engine.on
    /\ conn' = "connected"
    /\ UNCHANGED <<ondemand, flags, engine, file, app, op, queued, loads, rest>>

(* startCore: the engine reads the pins, and filters HTTPS if that is on   *)
(* and the certificate is trusted.                                         *)
StartCore ==
    /\ conn \in {"connecting", "connected"} /\ ~engine.on
    /\ engine' = [on |-> TRUE, mitm |-> mitm /\ trusted, pins |-> file]
    /\ UNCHANGED <<ondemand, flags, conn, file, app, op, queued, loads, rest>>

(* The engine started and the network settings were applied; or one of     *)
(* them failed, and the engine, if any, was stopped again.                 *)
StartEnds(up) ==
    /\ conn = "connecting" \/ (conn = "connected" /\ ~engine.on /\ ~up)
    /\ up => engine.on
    /\ conn' = IF up THEN "connected" ELSE "disconnected"
    /\ file' = IF engine.on /\ ~up THEN engine.pins ELSE file
    /\ engine' = IF up THEN engine ELSE NoEngine
    /\ UNCHANGED <<ondemand, flags, app, op, queued, loads, rest>>

(* stopTunnel: the engine saves its pins on the way out. *)
StopTunnel ==
    /\ conn = "disconnecting"
    /\ conn' = "disconnected"
    /\ file' = IF engine.on THEN engine.pins ELSE file
    /\ engine' = NoEngine
    /\ UNCHANGED <<ondemand, flags, app, op, queued, loads, rest>>

(* Jetsam, or a crash. *)
TunnelEnds ==
    /\ conn \in {"connecting", "connected"} /\ kills < MaxKills
    /\ kills' = kills + 1
    /\ conn' = "disconnected" /\ engine' = NoEngine
    /\ UNCHANGED <<ondemand, flags, file, app, op, queued, loads, trusted,
                   checking, evaluated, wanted, unseen, lost, taps>>

(* While the certificate is not trusted every client rejects it. *)
Learn ==
    /\ engine.on /\ engine.mitm /\ ~trusted
    /\ engine' = [engine EXCEPT !.pins = IF suspect THEN "noted"
                                         ELSE IF @ = "none" THEN "bad" ELSE @]
    /\ UNCHANGED <<ondemand, flags, conn, file, app, op, queued, loads, rest>>

SavePins ==
    /\ engine.on
    /\ file' = engine.pins
    /\ UNCHANGED <<ondemand, flags, conn, engine, app, op, queued, loads, rest>>

(* The user grants or removes full trust in Settings. *)
TrustChanges ==
    /\ taps < MaxUser
    /\ taps' = taps + 1
    /\ trusted' = ~trusted
    /\ UNCHANGED <<ondemand, flags, tunnel, app, op, queued, loads, checking,
                   evaluated, wanted, unseen, lost, kills>>

(* A step of the controller under way, or its record of one, turns         *)
(* Connect On Demand on again: start(), a restart that found it on, or the *)
(* flag of an interrupted one.                                             *)
TurnsOn ==
    \/ paused \/ loader = "restores" \/ op.kind = "start"
    \/ op.kind = "restart" /\ (op.was \/ manager = "on")
         /\ op.pc \in {"loaded", "forget", "pause", "saveoff", "waitstop", "saveon"}

(* The VPN is turned off in Settings, which turns on-demand off too.  The  *)
(* controller has no record of it: what it was about to turn on, it does.  *)
SettingsOff ==
    /\ taps < MaxUser /\ (ondemand \/ conn \in {"connecting", "connected"})
    /\ taps' = taps + 1
    /\ ondemand' = FALSE /\ conn' = stopVPNTunnel
    /\ wanted' = IF TurnsOn THEN "unsure" ELSE "off"
    /\ UNCHANGED <<flags, engine, file, app, op, queued, loads, trusted,
                   checking, evaluated, unseen, lost, kills>>

-----------------------------------------------------------------------------
(* load(): one loadNow after another, for the observer of configuration    *)
(* changes, at launch, or for the operation that waits for it.             *)

inProgress == op.kind = "restart" /\ op.pc \in {"saveoff", "waitstop", "saveon", "waitup"}

(* The operation's own load is done. *)
Loaded == IF op.pc = "loading" THEN [op EXCEPT !.pc = "loaded"] ELSE op

Load ==
    /\ app /\ loader = "idle"
    /\ loader' = "loads"
    /\ op' = IF op.pc = "load" THEN [op EXCEPT !.pc = "loading"] ELSE op
    /\ UNCHANGED <<ondemand, flags, tunnel, app, queued, manager, rest>>

(* loadNow, and restoreOnDemandAfterInterruptedRestart up to its save; or  *)
(* the configurations could not be read.                                   *)
LoadNow(read) ==
    /\ loader = "loads"
    /\ LET restore == read /\ ~inProgress /\ paused
       IN  /\ paused' = (paused /\ ~restore)
           /\ manager' = IF ~read THEN manager
                         ELSE IF ondemand \/ restore THEN "on" ELSE "off"
           /\ IF restore /\ ~ondemand
              THEN loader' = "restores" /\ op' = op
              ELSE loader' = "idle" /\ op' = Loaded
    /\ UNCHANGED <<ondemand, suspect, mitm, tunnel, app, queued, rest>>

Restore(saved) ==
    /\ loader = "restores"
    /\ loader' = "idle" /\ op' = Loaded
    /\ IF saved
       THEN ondemand' = TRUE /\ conn' \in {startVPNTunnel, conn} /\ lost' = lost
       ELSE lost' = TRUE /\ UNCHANGED <<ondemand, conn>>
    /\ UNCHANGED <<flags, engine, file, app, queued, manager, trusted, checking,
                   evaluated, wanted, unseen, taps, kills>>

-----------------------------------------------------------------------------
(* start() and stop()                                                      *)

Idle == app /\ op = NoOp
isOn == manager # "nil" /\ conn \in {"connecting", "connected"}

Start ==
    /\ Idle /\ ~isOn /\ taps < MaxUser
    /\ taps' = taps + 1
    /\ wanted' = "unsure"
    /\ op' = Begun("start", NoJob)
    /\ UNCHANGED <<ondemand, flags, tunnel, app, queued, loads, trusted,
                   checking, evaluated, unseen, lost, kills>>

StartSaves(saved) ==
    /\ op.kind = "start" /\ op.pc = "loaded"
    /\ op' = NoOp
    /\ manager' = IF manager = "nil" THEN "nil" ELSE "on"
    /\ IF saved /\ manager # "nil"
       THEN ondemand' = TRUE /\ wanted' = "on" /\ conn' \in {startVPNTunnel, conn}
       ELSE UNCHANGED <<ondemand, wanted, conn>>
    /\ UNCHANGED <<flags, engine, file, app, queued, loader, trusted, checking,
                   evaluated, unseen, lost, taps, kills>>

(* Mutant: an interrupted restart is left recorded. *)
StopKeepsPaused ==
    /\ Idle /\ isOn /\ taps < MaxUser
    /\ taps' = taps + 1
    /\ wanted' = "unsure"
    /\ op' = Begun("stop", NoJob)
    /\ UNCHANGED <<ondemand, flags, tunnel, app, queued, loads, trusted,
                   checking, evaluated, unseen, lost, kills>>

(* "An explicit Turn off wins over an interrupted restart." *)
Stop ==
    /\ Idle /\ isOn /\ taps < MaxUser
    /\ taps' = taps + 1
    /\ wanted' = "unsure"
    /\ paused' = FALSE
    /\ op' = Begun("stop", NoJob)
    /\ UNCHANGED <<ondemand, suspect, mitm, tunnel, app, queued, loads, trusted,
                   checking, evaluated, unseen, lost, kills>>

StopSaves(saved) ==
    /\ op.kind = "stop" /\ op.pc = "loaded"
    /\ op' = NoOp
    /\ manager' = "off"
    /\ IF saved THEN ondemand' = FALSE /\ wanted' = "off"
                ELSE UNCHANGED <<ondemand, wanted>>
    /\ conn' = stopVPNTunnel
    /\ UNCHANGED <<flags, engine, file, app, queued, loader, trusted, checking,
                   evaluated, unseen, lost, taps, kills>>

-----------------------------------------------------------------------------
(* restartNow                                                              *)

At(pc) == op.kind = "restart" /\ op.pc = pc
Goes(pc) == op' = [op EXCEPT !.pc = pc] /\ checking' = checking

(* restartIfRunning returns; after turning filtering on in a tunnel that   *)
(* is up, the app requests a page through it.                              *)
Returns ==
    /\ op' = NoOp
    /\ checking' = (checking \/ (op.enable /\ manager # "nil" /\ conn = "connected"))

(* removeLearnedPins, or the file cannot be removed. *)
RemovePins ==
    \/ file' = "none" /\ suspect' = FALSE
    \/ file # "none" /\ UNCHANGED <<file, suspect>>

RestartBegins ==
    /\ Idle /\ queued # <<>>
    /\ op' = Begun("restart", Head(queued))
    /\ queued' = Tail(queued)
    /\ UNCHANGED <<ondemand, flags, tunnel, app, loads, rest>>

(* Without a configuration, or with the tunnel off, there is nothing to    *)
(* restart, and the pins go at once.                                       *)
RestartNothing ==
    /\ At("loaded") /\ (manager = "nil" \/ conn = "disconnected")
    /\ IF op.clear THEN RemovePins ELSE UNCHANGED <<file, suspect>>
    /\ unseen' = (unseen \/ (op.clear /\ conn # "disconnected"))
    /\ Returns
    /\ UNCHANGED <<ondemand, paused, mitm, conn, engine, app, queued, loads,
                   trusted, evaluated, wanted, lost, taps, kills>>

RestartLooks ==
    /\ At("loaded") /\ manager # "nil" /\ conn # "disconnected"
    /\ IF conn = "disconnecting" /\ ~op.clear
       THEN Returns
       ELSE /\ op' = [op EXCEPT !.was = manager = "on",
                                !.pc = IF conn = "disconnecting" THEN "waitoff"
                                       ELSE IF conn = "connected" /\ op.clear THEN "forget"
                                       ELSE "pause"]
            /\ checking' = checking
    /\ UNCHANGED <<ondemand, flags, tunnel, app, queued, loads, others>>

(* The tunnel is being turned off: its pins go once it is gone, or not.    *)
RestartWaitedOff ==
    /\ At("waitoff")
    /\ IF conn = "disconnected" THEN RemovePins ELSE UNCHANGED <<file, suspect>>
    /\ Returns
    /\ UNCHANGED <<ondemand, paused, mitm, conn, engine, app, queued, loads, others>>

(* forgetPins, if the engine answers: it saves the empty set at once. *)
RestartForgets(answers) ==
    /\ At("forget")
    /\ IF answers /\ engine.on
       THEN engine' = [engine EXCEPT !.pins = "none"] /\ file' = "none"
       ELSE UNCHANGED <<engine, file>>
    /\ Goes("pause")
    /\ UNCHANGED <<ondemand, flags, conn, app, queued, loads, others>>

(* The configuration in hand is the one loaded, which a load since then    *)
(* may or may not have replaced.                                           *)
RestartPauses ==
    /\ At("pause")
    /\ \E was \in {op.was, manager = "on"} :
         /\ op' = [op EXCEPT !.pc = IF was THEN "saveoff" ELSE "waitstop", !.was = was]
         /\ paused' = (paused \/ was)
         /\ conn' = IF was THEN conn ELSE stopVPNTunnel
    /\ UNCHANGED <<ondemand, suspect, mitm, engine, file, app, queued, loads, rest>>

RestartSavesOff(saved) ==
    /\ At("saveoff")
    /\ IF saved
       THEN /\ ondemand' = FALSE /\ conn' = stopVPNTunnel
            /\ manager' = "off"
            /\ Goes("waitstop")
            /\ UNCHANGED <<paused, lost>>
       ELSE /\ paused' = FALSE
            /\ lost' = (lost \/ ~ondemand)
            /\ Returns
            /\ UNCHANGED <<ondemand, conn, manager>>
    /\ UNCHANGED <<suspect, mitm, engine, file, app, queued, loader, trusted,
                   evaluated, wanted, unseen, taps, kills>>

(* Mutant: the pins are removed whether or not the tunnel stopped. *)
RestartStoppedOrNot ==
    /\ At("waitstop")
    /\ IF op.clear THEN RemovePins ELSE UNCHANGED <<file, suspect>>
    /\ IF op.was THEN Goes("saveon") /\ conn' = conn
                 ELSE Goes("waitup") /\ conn' \in {startVPNTunnel, conn}
    /\ UNCHANGED <<ondemand, paused, mitm, engine, app, queued, loads, others>>

(* The tunnel stopped, or did not in time.  startVPNTunnel may throw. *)
RestartStopped ==
    /\ At("waitstop")
    /\ IF op.clear /\ conn = "disconnected" THEN RemovePins ELSE UNCHANGED <<file, suspect>>
    /\ IF op.was THEN Goes("saveon") /\ conn' = conn
                 ELSE Goes("waitup") /\ conn' \in {startVPNTunnel, conn}
    /\ UNCHANGED <<ondemand, paused, mitm, engine, app, queued, loads, others>>

RestartSavesOn(saved) ==
    /\ At("saveon")
    /\ IF saved THEN ondemand' = TRUE /\ paused' = FALSE ELSE UNCHANGED <<ondemand, paused>>
    /\ manager' = "on"
    /\ conn' \in {startVPNTunnel, conn}
    /\ Goes("waitup")
    /\ UNCHANGED <<suspect, mitm, engine, file, app, queued, loader, others>>

-----------------------------------------------------------------------------
(* The HTTPS filtering switch                                              *)

(* turnOffForUntrustedCertificate: noted first, then saved and restarted;  *)
(* a save that fails leaves the switch on.                                 *)
Noted(pins) == IF pins = "bad" THEN "noted" ELSE pins
TurnOffUntrusted(saved) ==
    /\ suspect' = TRUE
    /\ file' = Noted(file) /\ engine' = [engine EXCEPT !.pins = Noted(@)]
    /\ mitm' = (mitm /\ ~saved)
    /\ queued' = IF mitm /\ saved THEN Append(queued, NoJob) ELSE queued

RestartEnds ==
    /\ At("waitup")
    /\ Returns
    /\ UNCHANGED <<ondemand, flags, tunnel, app, queued, loads, others>>

(* httpsBrokenByUntrustedCertificate *)
CheckEnds(broken) ==
    /\ checking /\ Len(queued) < MaxQueued
    /\ broken => engine.mitm /\ ~trusted
    /\ checking' = FALSE
    /\ IF broken THEN \E saved \in BOOLEAN : TurnOffUntrusted(saved)
       ELSE UNCHANGED <<suspect, file, engine, mitm, queued>>
    /\ UNCHANGED <<ondemand, paused, conn, app, op, loads, others>>

(* refreshTrust and enforceTrust. *)
RefreshTrust ==
    /\ app /\ Len(queued) < MaxQueued
    /\ evaluated' = IF trusted THEN "trusted" ELSE "untrusted"
    /\ evaluated # evaluated' \/ (mitm /\ ~trusted)
    /\ IF mitm /\ ~trusted THEN \E saved \in BOOLEAN : TurnOffUntrusted(saved)
       ELSE UNCHANGED <<suspect, file, engine, mitm, queued>>
    /\ UNCHANGED <<ondemand, paused, conn, app, op, loads, trusted, checking, wanted, unseen, lost,
                   taps, kills>>

(* applyHttpsFiltering; nothing changes when config.json cannot be saved. *)
Toggle ==
    /\ app /\ taps < MaxUser /\ Len(queued) < MaxQueued
    /\ ~mitm => evaluated = "trusted"
    /\ taps' = taps + 1
    /\ mitm' = ~mitm
    /\ queued' = Append(queued, [clear |-> mitm' /\ suspect, enable |-> mitm'])
    /\ UNCHANGED <<ondemand, paused, suspect, tunnel, app, op, loads, trusted,
                   checking, evaluated, wanted, unseen, lost, kills>>

-----------------------------------------------------------------------------
(* iOS ends the app; it is opened again later, which loads. *)
Killed ==
    /\ app /\ kills < MaxKills
    /\ kills' = kills + 1
    /\ app' = FALSE
    /\ op' = NoOp /\ queued' = <<>> /\ loader' = "idle" /\ manager' = "nil"
    /\ evaluated' = "no" /\ checking' = FALSE
    /\ lost' = (lost \/ loader = "restores")
    /\ UNCHANGED <<ondemand, flags, tunnel, trusted, wanted, unseen, taps>>

Launch ==
    /\ ~app
    /\ app' = TRUE /\ loader' = "loads"
    /\ UNCHANGED <<ondemand, flags, tunnel, op, queued, manager, rest>>

Next ==
    \/ OnDemand \/ StartLocked \/ StartCore \/ StopTunnel \/ TunnelEnds
    \/ Learn \/ SavePins \/ TrustChanges \/ SettingsOff
    \/ Load \/ \E read \in BOOLEAN : LoadNow(read)
    \/ Start \/ Stop
    \/ \E up \in BOOLEAN : StartEnds(up)
    \/ \E saved \in BOOLEAN :
         Restore(saved) \/ StartSaves(saved) \/ StopSaves(saved)
           \/ RestartSavesOff(saved) \/ RestartSavesOn(saved)
    \/ RestartBegins \/ RestartNothing \/ RestartLooks \/ RestartWaitedOff
    \/ \E answers \in BOOLEAN : RestartForgets(answers)
    \/ RestartPauses \/ RestartStopped
    \/ RestartEnds \/ \E broken \in BOOLEAN : CheckEnds(broken)
    \/ RefreshTrust \/ Toggle \/ Killed \/ Launch

Spec == Init /\ [][Next]_vars

-----------------------------------------------------------------------------
(* Properties                                                              *)

(* The types, and that no engine outlives its tunnel.                      *)
TypeOK ==
    /\ ondemand \in BOOLEAN /\ paused \in BOOLEAN /\ suspect \in BOOLEAN
    /\ conn \in {"disconnected", "connecting", "connected", "disconnecting"}
    /\ {file, engine.pins} \subseteq {"none", "bad", "noted"}
    /\ engine.on => conn # "disconnected"
    /\ op.kind \in {"none", "start", "stop", "restart"}
    /\ ~app => op = NoOp /\ ~checking /\ queued = <<>> /\ loader = "idle"
    /\ Len(queued) <= MaxQueued

(* "Once it is gone, no pin learned while the certificate was untrusted is *)
(* left, so that record is cleared too" (removeLearnedPins): when the      *)
(* record is gone, neither the file nor a running engine, which would save *)
(* it again, still has one; except after a clearing by an app that could   *)
(* not read the configurations and so did not see the tunnel running.      *)
RecordOutlivesPins ==
    ~suspect /\ ~unseen => file # "noted" /\ engine.pins # "noted"

(* Connect On Demand is what the user asked for.  After they turned        *)
(* protection off, in the app or in Settings, it stays off: no load,       *)
(* restart or interrupted restart turns Connect On Demand back on; except  *)
(* that Settings do not stop what the controller is already about to turn  *)
(* on (TurnsOn: a start, a restart past its load, the flag of an           *)
(* interrupted one), as it cannot tell who turned it off.                  *)
(* And protection they want is never off without a trace: while Connect On *)
(* Demand is off, a restart or a load is about to turn it on or the flag   *)
(* that makes the next load do it is set, wherever iOS ended the app       *)
(* (onDemandPausedKey); except that the flag is lost when a load is ended, *)
(* or fails to save, after it took it, and when a second restart takes it  *)
(* with a configuration it could not read and cannot save.                 *)
OnDemandAsAsked ==
    /\ TypeOK
    /\ wanted = "off" => ~ondemand /\ ~paused /\ loader # "restores"
    /\ wanted = "on" /\ ~ondemand => paused \/ loader = "restores" \/ lost

(* "If the app is suspended or killed before the restart turns it back on, *)
(* the next load does, so the tunnel does not stay off until the user      *)
(* notices" (onDemandPausedKey).                                           *)
OnDemandComesBack ==
    wanted = "on" /\ ~ondemand => paused \/ loader = "restores"

=============================================================================
