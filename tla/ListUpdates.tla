---------------------------- MODULE ListUpdates ----------------------------
(***************************************************************************)
(* Filter lists from the settings to the compiled files: the app's         *)
(* ListUpdater.run (ios/App/ListUpdater.swift) downloads and compiles them *)
(* into engine.dat and domains.bin (filter/src/compile.rs), started by     *)
(* AppModel (TollgateApp.swift) and the Settings screens, which change     *)
(* lists.json while it is suspended at an await; iOS may end the app       *)
(* between any two steps.  ListHandover takes the files from there.        *)
(*                                                                         *)
(* A built-in list feeds engine.dat and one custom list, whose text is in  *)
(* adblock syntax, domains.bin; My rules feed both.                        *)
(***************************************************************************)
EXTENDS Naturals, FiniteSets

CONSTANTS
    MaxEdits, \* bound: changes of the settings
    MaxRuns,  \* bound: runs of the updater
    MaxKills  \* bound: times iOS ends the app

VARIABLES
    settings,   \* lists.json: [rules, kind], kind of the custom list or "none"
    pending,    \* pendingSettingsChange, in UserDefaults
    due,        \* isStale
    partial,    \* lastAttemptPartial
    cached,     \* lists with a copy in list-cache
    engine,     \* engine.dat: [rules, lists], or Missing
    domains,    \* domains.bin: [rules, lists, kind], or Missing
    run,        \* the updater's state and its locals
    unmarked,   \* history: the app ended between an edit's save and its mark
    edits, runs, kills

files == <<engine, domains>>
bounds == <<edits, runs, kills>>
vars == <<settings, pending, due, partial, cached, files, run, unmarked, bounds>>

Missing == [rules |-> "missing"]
BuiltIn == "builtin"
Custom == "custom"

Idle == [pc |-> "idle", refresh |-> FALSE, loaded |-> [rules |-> 0, kind |-> "none"],
         todo |-> {}, got |-> {}, all |-> TRUE, lacks |-> FALSE]

(* A fresh install. *)
Init ==
    /\ settings = [rules |-> 0, kind |-> "none"]
    /\ pending = FALSE /\ due = TRUE /\ partial = FALSE /\ cached = {}
    /\ engine = Missing /\ domains = Missing
    /\ run = Idle
    /\ unmarked = FALSE
    /\ edits = 0 /\ runs = 0 /\ kills = 0

-----------------------------------------------------------------------------
(* Settings                                                                *)

(* The custom list's text is in adblock syntax. *)
corrected(kind) == IF kind = "hosts" THEN "dns" ELSE kind

(* ListSettings.save. *)
Saved ==
    /\ edits < MaxEdits
    /\ edits' = edits + 1
    /\ \/ settings' = [settings EXCEPT !.rules = 1 - @]
       \/ \E k \in {"none", "hosts", "dns"} \ {settings.kind} :
            settings' = [settings EXCEPT !.kind = k]

(* save() of SettingsView and MyRulesView: lists.json, then settingsChanged; *)
(* a save that fails changes nothing.                                        *)
Edit ==
    /\ Saved
    /\ pending' = TRUE
    /\ unmarked' = FALSE
    /\ UNCHANGED <<due, partial, cached, files, run, runs, kills>>

(* A day, or the shorter delay after a partial attempt, has passed. *)
BecomesDue ==
    /\ ~due /\ runs < MaxRuns
    /\ due' = TRUE
    /\ UNCHANGED <<settings, pending, partial, cached, files, run, unmarked, bounds>>

-----------------------------------------------------------------------------
(* ListUpdater.run                                                         *)

Sources(s) == {BuiltIn} \cup (IF s.kind = "none" THEN {} ELSE {Custom})

(* startRefreshIfNeeded; or Update, Apply changes now and My rules.  A     *)
(* call while another run is busy returns false.                           *)
RunStarts(refresh) ==
    /\ run.pc = "idle" /\ runs < MaxRuns
    /\ runs' = runs + 1
    /\ run' = [Idle EXCEPT !.pc = "downloads", !.refresh = refresh,
                           !.loaded = settings, !.todo = Sources(settings)]
    /\ UNCHANGED <<settings, pending, due, partial, cached, files, unmarked, edits, kills>>

(* One list: its cached copy, a download, or, when that fails, the cached  *)
(* copy after all.                                                         *)
List(ok) ==
    /\ run.pc = "downloads"
    /\ \E l \in run.todo :
         LET fromCache == ~run.refresh /\ l \in cached
             has == fromCache \/ ok \/ l \in cached
         IN  /\ l = Custom => BuiltIn \notin run.todo
             /\ fromCache => ok
             /\ cached' = IF ok THEN cached \cup {l} ELSE cached
             /\ run' = [run EXCEPT !.todo = @ \ {l},
                                   !.got = IF has THEN @ \cup {l} ELSE @,
                                   !.all = @ /\ ok,
                                   !.lacks = @ \/ ~has]
    /\ UNCHANGED <<settings, pending, due, partial, files, unmarked, bounds>>

(* The run is cancelled, or its deadline is over before the compile. *)
RunCancelled ==
    /\ run.pc = "downloads"
    /\ run' = Idle
    /\ UNCHANGED <<settings, pending, due, partial, cached, files, unmarked, bounds>>

recordAttempt(p) == due' = FALSE /\ partial' = p

NothingToCompile ==
    /\ run.pc = "downloads" /\ run.todo = {} /\ run.got = {}
    /\ IF run.refresh \/ run.lacks THEN recordAttempt(TRUE) ELSE UNCHANGED <<due, partial>>
    /\ run' = Idle
    /\ UNCHANGED <<settings, pending, cached, files, unmarked, bounds>>

(* compile_split: engine.dat and then domains.bin, each renamed into place. *)
WriteEngine ==
    /\ run.pc = "downloads" /\ run.todo = {} /\ run.got # {}
    /\ engine' = [rules |-> run.loaded.rules, lists |-> run.got \cap {BuiltIn}]
    /\ run' = [run EXCEPT !.pc = "compiles"]
    /\ UNCHANGED <<settings, pending, due, partial, cached, domains, unmarked, bounds>>

WriteDomains ==
    /\ run.pc = "compiles"
    /\ domains' = [rules |-> run.loaded.rules, lists |-> run.got \cap {Custom},
                   kind |-> IF Custom \in run.got THEN corrected(run.loaded.kind) ELSE "none"]
    /\ run' = [run EXCEPT !.pc = "compiled"]
    /\ UNCHANGED <<settings, pending, due, partial, cached, engine, unmarked, bounds>>

(* A file could not be written: the first, or only the second. *)
CompileFails ==
    /\ run.todo = {} /\ run.got # {} /\ run.pc \in {"downloads", "compiles"}
    /\ IF run.refresh THEN recordAttempt(TRUE) ELSE UNCHANGED <<due, partial>>
    /\ run' = Idle
    /\ UNCHANGED <<settings, pending, cached, files, unmarked, bounds>>

(* saveCorrections: lists.json afterwards, and the settings the compiled   *)
(* files stand for.                                                        *)
saveCorrections(saved) ==
    LET corrects == Custom \in run.got /\ corrected(run.loaded.kind) # run.loaded.kind
        current == IF corrects /\ settings.kind = run.loaded.kind
                   THEN [settings EXCEPT !.kind = corrected(@)] ELSE settings
    IN  IF ~corrects \/ ~saved THEN [now |-> settings, stands |-> run.loaded]
        ELSE [now |-> current,
              stands |-> IF settings = run.loaded THEN current ELSE run.loaded]

(* The attempt a run records once its files are there. *)
Attempted ==
    IF run.refresh THEN recordAttempt(~run.all)
    ELSE IF run.lacks THEN recordAttempt(TRUE)
    ELSE UNCHANGED <<due, partial>>

(* Mutant: the change is taken as compiled without looking at lists.json. *)
CompiledClearsPending(saved) ==
    /\ run.pc = "compiled"
    /\ Attempted
    /\ settings' = saveCorrections(saved).now
    /\ pending' = FALSE
    /\ unmarked' = FALSE
    /\ run' = Idle
    /\ UNCHANGED <<cached, files, bounds>>

(* After the compile, in one turn of the main actor. *)
Compiled(saved) ==
    /\ run.pc = "compiled"
    /\ Attempted
    /\ settings' = saveCorrections(saved).now
    /\ pending' = (pending /\ settings' # saveCorrections(saved).stands)
    /\ unmarked' = (unmarked /\ settings' # saveCorrections(saved).stands)
    /\ run' = Idle
    /\ UNCHANGED <<cached, files, bounds>>

-----------------------------------------------------------------------------
(* iOS ends the app, which is launched again, maybe as another build. *)
Ends ==
    /\ kills < MaxKills
    /\ kills' = kills + 1
    /\ run' = Idle
    /\ pending' \in {pending, TRUE}
    /\ UNCHANGED <<cached, files, runs>>

Relaunched ==
    /\ Ends
    /\ UNCHANGED <<settings, due, partial, unmarked, edits>>

(* It ends between save() and settingsChanged. *)
EditCut ==
    /\ Saved /\ Ends
    /\ unmarked' = TRUE
    /\ UNCHANGED <<due, partial>>

(* The run is at one of its calls of recordAttempt. *)
Records ==
    /\ run.todo = {}
    /\ \/ run.pc = "downloads" /\ run.got = {} /\ (run.refresh \/ run.lacks)
       \/ run.pc \in {"downloads", "compiles"} /\ run.got # {} /\ run.refresh
       \/ run.pc = "compiled" /\ (run.refresh \/ run.lacks)

(* It ends between recordAttempt's two writes. *)
AttemptCut ==
    /\ Records /\ Ends
    /\ due' = FALSE
    /\ UNCHANGED <<settings, partial, unmarked, edits>>

(* It ends after recordAttempt, before or after the corrections are saved, *)
(* with the change not yet taken as compiled.                              *)
CompiledCut ==
    /\ run.pc = "compiled"
    /\ Ends
    /\ Attempted
    /\ settings' \in {settings, saveCorrections(TRUE).now}
    /\ UNCHANGED <<unmarked, edits>>

Next ==
    \/ Edit \/ BecomesDue
    \/ Relaunched \/ EditCut \/ AttemptCut \/ CompiledCut
    \/ \E refresh \in BOOLEAN : RunStarts(refresh)
    \/ \E ok \in BOOLEAN : List(ok) \/ Compiled(ok)
    \/ RunCancelled \/ NothingToCompile \/ WriteEngine \/ WriteDomains \/ CompileFails

Spec == Init /\ [][Next]_vars

-----------------------------------------------------------------------------
(* Properties                                                              *)

(* The types; a run compiles only lists it was to compile and has.         *)
TypeOK ==
    /\ settings \in [rules : 0..1, kind : {"none", "hosts", "dns"}]
    /\ cached \subseteq {BuiltIn, Custom}
    /\ run.pc \in {"idle", "downloads", "compiles", "compiled"}
    /\ run.got \subseteq cached \cap Sources(run.loaded)

(* The compiled files stand for lists.json unless a change is recorded as  *)
(* pending (or nothing was compiled yet): an edit made while a run was     *)
(* under way, a corrected list type and an app that is ended at any point  *)
(* included (run, saveCorrections).  And an enabled list that the files    *)
(* lack is tried again within the hour or at the next opportunity, not in  *)
(* a day (recordAttempt), also when the app ends between recordAttempt's   *)
(* two writes.  The one exception: the app ends after lists.json was saved *)
(* and before settingsChanged; that edit waits for the next one, or for a  *)
(* run started for another reason.                                         *)
FilesStandForSettings ==
    /\ TypeOK
    /\ engine # Missing /\ domains # Missing /\ run.pc \notin {"compiles", "compiled"} =>
        /\ ~pending /\ ~unmarked =>
            /\ engine.rules = settings.rules /\ domains.rules = settings.rules
            /\ Custom \in domains.lists => domains.kind = corrected(settings.kind)
        /\ Sources(settings) \subseteq engine.lists \cup domains.lists
            \/ pending \/ unmarked \/ partial \/ due

=============================================================================
