------------------------------- MODULE MCApp -------------------------------
(***************************************************************************)
(* Instances of TunnelControl, ListHandover and ListUpdates, the app's     *)
(* state machines, and of PinsFile and CaFiles, the files app and tunnel   *)
(* both use, for TLC.  They share no variable: a behaviour is one of one   *)
(* of them, as machine says, and the others stay where they begin.         *)
(***************************************************************************)
EXTENDS PinsFile, TLC

CONSTANTS h1, h2

VARIABLE machine  \* "tunnel", "handover", "updates", "pins" or "ca"
VARIABLES h_engine, h_domains, h_compiling, h_caller, h_applying, h_again,
    h_left, h_status, h_background, h_tunnel, h_early, h_running,
    h_missed, h_compiles, h_kills, h_crashes
VARIABLES u_settings, u_pending, u_due, u_partial, u_cached, u_engine,
    u_domains, u_run, u_unmarked, u_edits, u_runs, u_kills
VARIABLES t_ondemand, t_paused, t_suspect, t_mitm, t_conn, t_engine, t_file,
    t_app, t_op, t_queued, t_loader, t_manager, t_checking, t_trusted,
    t_evaluated, t_wanted, t_unseen, t_lost, t_taps, t_kills
VARIABLES c_disk, c_serial, c_call, c_pair, c_made, c_reader, c_seen,
    c_shown, c_fails

handoverVars == << h_engine, h_domains, h_compiling, h_caller, h_applying,
    h_again, h_left, h_status, h_background, h_tunnel, h_early,
    h_running, h_missed, h_compiles, h_kills, h_crashes>>

updateVars == << u_settings, u_pending, u_due, u_partial, u_cached, u_engine,
    u_domains, u_run, u_unmarked, u_edits, u_runs, u_kills>>

tunnelVars == <<t_ondemand, t_paused, t_suspect, t_mitm, t_conn, t_engine,
    t_file, t_app, t_op, t_queued, t_loader, t_manager, t_checking, t_trusted,
    t_evaluated, t_wanted, t_unseen, t_lost, t_taps, t_kills>>

caVars == <<c_disk, c_serial, c_call, c_pair, c_made, c_reader, c_seen,
    c_shown, c_fails>>

Handover == INSTANCE ListHandover WITH
    engine <- h_engine, domains <- h_domains, compiling <- h_compiling,
    caller <- h_caller, applying <- h_applying, again <- h_again,
    left <- h_left, status <- h_status,
    background <- h_background, tunnel <- h_tunnel, early <- h_early,
    running <- h_running, missed <- h_missed,
    compiles <- h_compiles, kills <- h_kills, crashes <- h_crashes,
    MaxCompiles <- 3, MaxKills <- 1, MaxCrashes <- 2

Updates == INSTANCE ListUpdates WITH
    settings <- u_settings, pending <- u_pending, due <- u_due,
    partial <- u_partial, cached <- u_cached, engine <- u_engine,
    domains <- u_domains, run <- u_run, unmarked <- u_unmarked,
    edits <- u_edits, runs <- u_runs, kills <- u_kills, MaxEdits <- 2, MaxRuns <- 3, MaxKills <- 1

Tunnel == INSTANCE TunnelControl WITH
    ondemand <- t_ondemand, paused <- t_paused, suspect <- t_suspect,
    mitm <- t_mitm, conn <- t_conn, engine <- t_engine, file <- t_file,
    app <- t_app, op <- t_op, queued <- t_queued, loader <- t_loader,
    manager <- t_manager, checking <- t_checking, trusted <- t_trusted,
    evaluated <- t_evaluated, wanted <- t_wanted, unseen <- t_unseen,
    lost <- t_lost, taps <- t_taps, kills <- t_kills,
    MaxUser <- 3, MaxKills <- 2, MaxQueued <- 2

Ca == INSTANCE CaFiles WITH
    disk <- c_disk, serial <- c_serial,
    call <- c_call, pair <- c_pair, made <- c_made, reader <- c_reader,
    seen <- c_seen, shown <- c_shown, fails <- c_fails,
    Callers <- {"c1", "c2"}, MaxPairs <- 3, MaxFails <- 3

EachInit ==
  /\ machine \in {"tunnel", "handover", "updates", "pins", "ca"}
  /\ Init /\ Tunnel!Init /\ Handover!Init /\ Updates!Init /\ Ca!Init
  /\ machine # "tunnel" => t_ondemand /\ t_mitm

EachNext ==
  \/ /\ machine = "tunnel" /\ Tunnel!Next
     /\ UNCHANGED <<machine, handoverVars, updateVars, vars, caVars>>
  \/ /\ machine = "handover" /\ Handover!Next
     /\ UNCHANGED <<machine, tunnelVars, updateVars, vars, caVars>>
  \/ /\ machine = "updates" /\ Updates!Next
     /\ UNCHANGED <<machine, tunnelVars, handoverVars, vars, caVars>>
  \/ /\ machine = "pins" /\ Next
     /\ UNCHANGED <<machine, tunnelVars, handoverVars, updateVars, caVars>>
  \/ /\ machine = "ca" /\ Ca!Next
     /\ UNCHANGED <<machine, tunnelVars, handoverVars, updateVars, vars>>

\* With the fairness of ListHandover.
EachSpec ==
  /\ EachInit
  /\ [][EachNext]_<<machine, tunnelVars, handoverVars, updateVars, vars, caVars>>
  /\ WF_handoverVars(machine = "handover" /\ Handover!Controller)
  /\ WF_handoverVars(machine = "handover" /\
       \E written \in BOOLEAN : Handover!CompileEnds(written))

\* TunnelControl: without a record of suspect pins there are none
\* (TunnelController.removeLearnedPins).
RecordOutlivesPins == Tunnel!RecordOutlivesPins

\* TunnelControl: off stays off, and on is not lost to an interrupted restart
\* (TunnelController.onDemandPausedKey).
OnDemandAsAsked == Tunnel!OnDemandAsAsked

\* ListHandover: a tunnel that lacks the files' lists will get them
\* (TunnelController.listsUpdated).
NoListsForgotten == Handover!NoListsForgotten

\* ListHandover: every caller of listsUpdated returns, unless iOS or the tunnel
\* never answers (TunnelController.send).
CallersReturn == Handover!CallersReturn

\* ListUpdates: what is compiled stands for the settings, or a run is due
\* (ListUpdater.pendingSettingsChange, recordAttempt).
FilesStandForSettings == Updates!FilesStandForSettings

\* CaFiles: a certificate on disk has its key next to it, the root the user
\* installs is never replaced, and the tunnel never reads one pair's certificate
\* and another's key (generate_ca, generate_in, load_ca).
RootKept == Ca!RootKept
=============================================================================
