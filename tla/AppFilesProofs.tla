--------------------------- MODULE AppFilesProofs ---------------------------
(***************************************************************************)
(* The files the app and the tunnel both use: the safety properties of     *)
(* PinsFile for any hosts and any number of changes, runtimes, failures and*)
(* ends of the process, and those of CaFiles for any number of callers,    *)
(* pairs and failures.                                                     *)
(***************************************************************************)
EXTENDS PinsFile, TLAPS

CONSTANTS Callers, MaxPairs, MaxCaFails

VARIABLES disk, serial, call, pair, made, reader, seen, shown, ca_fails

Ca == INSTANCE CaFiles WITH fails <- ca_fails, MaxFails <- MaxCaFails

-----------------------------------------------------------------------------
(* The pins' file.  What it will hold next is with the save that has the     *)
(* lock (Held) or with the app (Edits); both are at least as new as the file *)
(* and lack what is gone.                                                    *)

\* Without an engine nothing is in memory; what is being forgotten is not
\* pinned; a save that writes has the lock.
Memory ==
  /\ ~alive => pins = {} /\ lock = {} /\ save = Idle /\ forgets = {}
  /\ forgets \subseteq Hosts /\ forgets \cap pins = {}
  /\ \A a \in Savers : save[a] = "writes" => a \in lock
  /\ file.at <= now
  /\ raced \in BOOLEAN /\ unread \in BOOLEAN /\ alive \in BOOLEAN

\* The snapshot the save with the lock is writing.
Held ==
  \A a \in lock :
    /\ snap[a].at <= now
    /\ a = Forgetting => forgets \cap snap[a].pins = {}
    /\ ~raced => file.at <= snap[a].at /\ gone \cap snap[a].pins = {}

\* The app's edit; no engine came up since it began, or the two raced.
Edits ==
  \A e \in app :
    /\ e \in [host : Hosts, pins : SUBSET Hosts, at : Nat]
    /\ e.at <= now /\ e.host \notin e.pins
    /\ ~raced => ~alive /\ file.at <= e.at /\ gone \cap e.pins = {}

\* saved follows the file, during a write too.
Follows == alive /\ ~unread /\ ~raced => saved = file.pins

IInv == TypeOK /\ Memory /\ Held /\ Edits /\ Follows /\ ForgottenStays

\* Nothing is in memory, on its way to the file or gone at first.
LEMMA InitInv == Init => IInv
<1> SUFFICES ASSUME Init PROVE IInv
  OBVIOUS
<1>1. NoPins \in [pins : SUBSET Hosts, at : Nat]
  BY DEF NoPins
<1>2. TypeOK
  BY <1>1 DEF Init, TypeOK, Idle
<1>3. Memory
  <2>1. file.at <= now
    BY DEF Init, NoPins
  <2>2. \A a \in Savers : save[a] # "writes"
    BY DEF Init, Idle
  <2>3. alive = FALSE /\ raced = FALSE /\ unread = FALSE
    BY DEF Init
  <2>4. pins = {} /\ lock = {} /\ save = Idle /\ forgets = {}
    BY DEF Init
  <2> QED BY <2>1, <2>2, <2>3, <2>4 DEF Memory
<1>4. Held /\ Edits /\ Follows /\ ForgottenStays
  BY DEF Init, Held, Edits, Follows, ForgottenStays
<1> QED BY <1>2, <1>3, <1>4 DEF IInv

\* A launch takes the file's pins, or none.
LEMMA LaunchInv ==
  ASSUME IInv, NEW readable \in BOOLEAN, Launch(readable)
  PROVE  IInv'
<1>1. TypeOK'
  BY DEF IInv, TypeOK, Launch
<1>2. Memory' /\ Held'
  BY DEF IInv, TypeOK, Memory, Held, Launch
<1>3. Edits' /\ Follows' /\ ForgottenStays'
  BY DEF IInv, Memory, Edits, Follows, ForgottenStays, Launch
<1> QED BY <1>1, <1>2, <1>3 DEF IInv

\* A start, a stop and a tick touch no pins.
LEMMA TaskInv ==
  ASSUME IInv, Start \/ Stop \/ Tick
  PROVE  IInv'
<1>1. TypeOK'
  BY DEF IInv, TypeOK, Start, Stop, Tick, changed, Savers
<1>2. Memory'
  BY DEF IInv, TypeOK, Memory, Start, Stop, Tick
<1>3. Held' /\ Edits' /\ Follows' /\ ForgottenStays'
  BY DEF IInv, Held, Edits, Follows, ForgottenStays, Start, Stop, Tick
<1> QED BY <1>1, <1>2, <1>3 DEF IInv

\* What is learned is no longer gone, nor being forgotten.
LEMMA LearnInv ==
  ASSUME IInv, NEW h \in Hosts, Learn(h)
  PROVE  IInv'
<1>1. TypeOK'
  BY DEF IInv, TypeOK, Learn
<1>2. Memory'
  BY DEF IInv, TypeOK, Memory, Learn
<1>3. Held' /\ Edits'
  BY DEF IInv, TypeOK, Held, Edits, Learn
<1>4. Follows' /\ ForgottenStays'
  BY DEF IInv, Follows, ForgottenStays, Learn
<1> QED BY <1>1, <1>2, <1>3, <1>4 DEF IInv

\* forget_pins takes the pin out before it asks for the save.
LEMMA ForgetInv ==
  ASSUME IInv, NEW h \in Hosts, forget_pins(h)
  PROVE  IInv'
<1>1. TypeOK'
  BY DEF IInv, TypeOK, forget_pins, Savers, Forgetting
<1>2. Memory'
  BY DEF IInv, TypeOK, Memory, forget_pins
<1>3. Held' /\ Edits'
  BY DEF IInv, TypeOK, Held, Edits, forget_pins
<1>4. Follows' /\ ForgottenStays'
  BY DEF IInv, Follows, ForgottenStays, forget_pins
<1> QED BY <1>1, <1>2, <1>3, <1>4 DEF IInv

\* The snapshot taken under the lock is the newest there is.
LEMMA LockInv ==
  ASSUME IInv, NEW a \in Savers, Lock(a)
  PROVE  IInv'
<1>1. TypeOK'
  BY DEF IInv, TypeOK, Lock, Begin
<1>2. Memory'
  BY DEF IInv, TypeOK, Memory, Lock, Begin, Idle
<1>3. Held'
  BY DEF IInv, TypeOK, Memory, Held, ForgottenStays, Lock, Begin
<1>4. Edits' /\ Follows' /\ ForgottenStays'
  BY DEF IInv, Edits, Follows, ForgottenStays, Lock, Begin
<1> QED BY <1>1, <1>2, <1>3, <1>4 DEF IInv

\* A write that ends leaves the snapshot in the file, or the file alone.
LEMMA WrittenInv ==
  ASSUME IInv, NEW a \in Savers, NEW ok \in BOOLEAN, Written(a, ok)
  PROVE  IInv' /\ (~raced' => file'.at >= file.at)
<1>1. /\ a \in lock /\ alive
      /\ snap[a] \in [pins : SUBSET Hosts, at : Nat]
      /\ NoPins \in [pins : SUBSET Hosts, at : Nat]
  BY DEF IInv, TypeOK, Memory, Written, NoPins
<1>2. TypeOK'
  BY <1>1 DEF IInv, TypeOK, Memory, Written, Ends, Unlock, Lasting
<1>3. Memory' /\ Held'
  BY <1>1 DEF IInv, TypeOK, Memory, Held, Written, Unlock
<1>4. Edits' /\ Follows'
  BY <1>1 DEF IInv, TypeOK, Edits, Follows, Written, Ends
<1>5. ForgottenStays'
  BY <1>1 DEF IInv, TypeOK, Memory, Held, ForgottenStays, Written, Lasting
<1>6. ~raced' => file'.at >= file.at
  BY <1>1 DEF IInv, TypeOK, Held, Written
<1> QED BY <1>2, <1>3, <1>4, <1>5, <1>6 DEF IInv

\* The end of the process leaves the file and the app's edit.
LEMMA EndsInv ==
  ASSUME IInv, ProcessEnds
  PROVE  IInv'
<1>1. NoPins \in [pins : SUBSET Hosts, at : Nat]
  BY DEF NoPins
<1>2. TypeOK' /\ Memory'
  BY <1>1 DEF IInv, TypeOK, Memory, ProcessEnds, Idle
<1>3. Held' /\ Edits' /\ Follows' /\ ForgottenStays'
  BY DEF IInv, Held, Edits, Follows, ForgottenStays, ProcessEnds
<1> QED BY <1>2, <1>3 DEF IInv

\* The app reads the file while no engine is up.
LEMMA AppForgetsInv ==
  ASSUME IInv, NEW h \in Hosts, AppForgets(h)
  PROVE  IInv'
<1>1. TypeOK' /\ Memory'
  BY DEF IInv, TypeOK, Memory, AppForgets, memory
<1>2. Held' /\ Follows' /\ ForgottenStays'
  BY DEF IInv, TypeOK, Memory, Held, Follows, ForgottenStays, AppForgets, memory
<1>3. Edits'
  BY DEF IInv, TypeOK, Memory, Edits, ForgottenStays, AppForgets, memory
<1> QED BY <1>1, <1>2, <1>3 DEF IInv

\* The app writes what it read, without the host.
LEMMA AppWritesInv ==
  ASSUME IInv, NEW ok \in BOOLEAN, AppWrites(ok)
  PROVE  IInv' /\ (~raced' => file'.at >= file.at)
<1> PICK e \in app :
      /\ file' = IF ok THEN [pins |-> e.pins, at |-> e.at] ELSE file
      /\ gone' = IF ok THEN gone \cup {e.host} ELSE gone
  BY DEF AppWrites
<1>1. /\ e \in [host : Hosts, pins : SUBSET Hosts, at : Nat]
      /\ e.at <= now /\ e.host \notin e.pins
      /\ ~raced => ~alive /\ file.at <= e.at /\ gone \cap e.pins = {}
  BY DEF IInv, Edits
<1>2. TypeOK' /\ Memory'
  BY <1>1 DEF IInv, TypeOK, Memory, AppWrites, memory
<1>3. Held' /\ Edits' /\ Follows'
  BY <1>1 DEF IInv, Memory, Held, Edits, Follows, AppWrites, memory
<1>4. ForgottenStays'
  BY <1>1 DEF IInv, Memory, ForgottenStays, AppWrites, memory
<1>5. ~raced' => file'.at >= file.at
  BY <1>1 DEF IInv, TypeOK, AppWrites
<1> QED BY <1>2, <1>3, <1>4, <1>5 DEF IInv

\* Every step keeps the invariant.
LEMMA NextInv == IInv /\ [Next]_vars => IInv'
<1> SUFFICES ASSUME IInv, [Next]_vars PROVE IInv'
  OBVIOUS
<1>1. CASE Next
  BY <1>1, LaunchInv, TaskInv, LearnInv, ForgetInv, LockInv, WrittenInv,
     EndsInv, AppForgetsInv, AppWritesInv DEF Next, Saves
<1>2. CASE UNCHANGED vars
  BY <1>2 DEF IInv, TypeOK, Memory, Held, Edits, Follows, ForgottenStays, vars, memory
<1> QED BY <1>1, <1>2

\* The invariant holds throughout.
LEMMA Invariance == Spec => []IInv
  BY InitInv, NextInv, PTL DEF Spec

\* saved is what the file holds (PinsFile.saved), whatever fails or ends.
THEOREM SavedFollows == Spec => []SavedIsTheFile
<1>1. IInv => SavedIsTheFile
  BY DEF IInv, Follows, SavedIsTheFile
<1> QED BY <1>1, Invariance, PTL

\* A pin whose forgetting was written stays forgotten until learned again.
THEOREM ForgottenForGood == Spec => []ForgottenStays
<1>1. IInv => ForgottenStays
  BY DEF IInv
<1> QED BY <1>1, Invariance, PTL

\* The file and what the engine believes of it agree (PinsFile::save).
THEOREM PinsStay == Spec => []PinsKept
<1>1. IInv => TypeOK
  BY DEF IInv
<1> QED BY <1>1, Invariance, SavedFollows, ForgottenForGood, PTL DEF PinsKept

\* No save replaces newer pins with older ones, whichever threads save.
THEOREM FileNeverOlder == Spec => NeverOlder
<1>1. IInv /\ [Next]_vars => [~raced' => file'.at >= file.at]_vars
  <2> SUFFICES ASSUME IInv, Next PROVE ~raced' => file'.at >= file.at
    OBVIOUS
  <2>1. CASE \E a \in Savers, ok \in BOOLEAN : Written(a, ok)
    BY <2>1, WrittenInv
  <2>2. CASE \E ok \in BOOLEAN : AppWrites(ok)
    BY <2>2, AppWritesInv
  <2>3. CASE file' = file
    BY <2>3 DEF IInv, TypeOK
  <2> QED
    BY <2>1, <2>2, <2>3 DEF Next, Saves, Launch, Start, Stop, Tick, Learn,
       forget_pins, Lock, Begin, ProcessEnds, AppForgets
<1> QED BY <1>1, Invariance, PTL DEF Spec, NeverOlder

-----------------------------------------------------------------------------
(* The root CA's files.  The properties rest on one another, and on what a   *)
(* caller knows while it holds GENERATE (Inside) and load_ca between its two *)
(* reads (Reading).                                                          *)

\* A caller that has generated a pair found no certificate, and nobody has
\* written one since; at its second write, the key on disk is its own.
Inside ==
  \A c \in Callers :
    /\ call[c] \in {"key",
           "cert"} => disk["ca.pem"] = Ca!Missing /\ pair[c] # Ca!Missing
    /\ call[c] = "cert" => disk["ca.key"] = pair[c]

\* The certificate load_ca has read, if any, is the one on disk; the key it
\* reads next is that one's.
Reading ==
  /\ reader # "idle" => seen["ca.pem"] \in {Ca!Missing, disk["ca.pem"]}
  /\ reader = "loaded" /\ seen["ca.pem"] # Ca!Missing => seen["ca.key"] = seen["ca.pem"]

CaInv == Ca!TypeOK /\ Ca!CertificateHasItsKey /\ Ca!OneRoot /\ Inside /\ Reading

\* What the callers' code reads and writes starts consistent.
LEMMA CaInit == Ca!Init => CaInv
  BY DEF Ca!Init, CaInv, Ca!TypeOK, Ca!CertificateHasItsKey, Ca!OneRoot, Inside,
         Reading,
         Ca!Nothing, Ca!Files, Ca!Missing

\* A caller that enters generate_in or leaves it without writing.
LEMMA CallsInv ==
  ASSUME CaInv, NEW c \in Callers,
         Ca!Enter(c) \/ Ca!Found(c) \/ Ca!ReadFails(c) \/ Ca!WriteFails(c)
  PROVE  CaInv'
<1> USE DEF Ca!Missing, Ca!Files
<1>1. Ca!TypeOK'
  <2>1. CASE Ca!Enter(c)
    BY <2>1 DEF CaInv, Ca!TypeOK, Ca!Enter
  <2>2. CASE Ca!Found(c)
    <3>1. Ca!Loaded(disk) # "none" => disk["ca.pem"] \in 1..made
      BY DEF CaInv, Ca!TypeOK, Ca!Loaded
    <3>2. shown' \subseteq 1..made
      BY <2>2, <3>1 DEF CaInv, Ca!TypeOK, Ca!Found
    <3> QED BY <2>2, <3>2 DEF CaInv, Ca!TypeOK, Ca!Found, Ca!Return
  <2>3. CASE Ca!ReadFails(c)
    BY <2>3 DEF CaInv, Ca!TypeOK, Ca!ReadFails, Ca!Return
  <2>4. CASE Ca!WriteFails(c)
    BY <2>4 DEF CaInv, Ca!TypeOK, Ca!WriteFails, Ca!Return
  <2> QED BY <2>1, <2>2, <2>3, <2>4
<1>2. Ca!CertificateHasItsKey' /\ Ca!OneRoot'
  BY DEF CaInv, Ca!CertificateHasItsKey, Ca!OneRoot, Ca!Enter, Ca!Found,
         Ca!ReadFails, Ca!WriteFails
<1>3. Inside'
  BY DEF CaInv, Ca!TypeOK, Inside, Ca!Enter, Ca!Found, Ca!ReadFails, Ca!WriteFails,
         Ca!Return
<1>4. Reading'
  BY DEF CaInv, Reading, Ca!Enter, Ca!Found, Ca!ReadFails, Ca!WriteFails
<1> QED BY <1>1, <1>2, <1>3, <1>4 DEF CaInv

\* A pair is generated only when no certificate is on disk.
LEMMA GenerateInv ==
  ASSUME CaInv, NEW c \in Callers, Ca!Generate(c)
  PROVE  CaInv'
<1> USE DEF Ca!Missing, Ca!Files
<1>1. disk["ca.pem"] = Ca!Missing
  BY DEF CaInv, Ca!TypeOK, Ca!CertificateHasItsKey, Ca!Generate, Ca!Loaded
<1>2. Ca!TypeOK'
  BY DEF CaInv, Ca!TypeOK, Ca!Generate, Ca!GoesOn
<1>3. Ca!CertificateHasItsKey' /\ Ca!OneRoot' /\ Reading'
  BY DEF CaInv, Ca!CertificateHasItsKey, Ca!OneRoot, Reading, Ca!Generate
<1>4. Inside'
  <2> SUFFICES ASSUME NEW d \in Callers, call'[d] \in {"key", "cert"}
               PROVE  d = c
    BY <1>1 DEF CaInv, Ca!TypeOK, Inside, Ca!Generate, Ca!GoesOn
  <2>1. c \in serial
    BY DEF CaInv, Ca!TypeOK, Ca!Generate
  <2>2. d # c => d \in serial
    BY DEF CaInv, Ca!TypeOK, Ca!Generate, Ca!GoesOn
  <2> QED BY <2>1, <2>2 DEF CaInv, Ca!TypeOK
<1> QED BY <1>2, <1>3, <1>4 DEF CaInv

\* The key is written while there is no certificate, the certificate next to
\* its key.
LEMMA WriteInv ==
  ASSUME CaInv, NEW c \in Callers, Ca!Write(c)
  PROVE  CaInv'
<1> USE DEF Ca!Missing, Ca!Files
<1>1. \A d \in Callers : d # c => call[d] = "idle"
  BY DEF CaInv, Ca!TypeOK, Ca!Write
<1>2. disk["ca.pem"] = Ca!Missing /\ pair[c] # Ca!Missing /\ shown = {}
  BY DEF CaInv, Ca!TypeOK, Inside, Ca!OneRoot, Ca!Write
<1>3. seen["ca.pem"] = Ca!Missing \/ reader = "idle"
  BY <1>2 DEF CaInv, Reading
<1>4. Ca!TypeOK'
  <2>1. shown' \subseteq 1..made
    BY <1>2 DEF CaInv, Ca!TypeOK, Ca!Write
  <2>2. disk' \in [Ca!Files -> 0..made]
    BY DEF CaInv, Ca!TypeOK, Ca!Write, Ca!FileAt
  <2>3. /\ call' \in [Callers -> {"idle", "loads", "key", "cert"}]
        /\ serial' = {d \in Callers : call'[d] # "idle"}
        /\ \A d, e \in serial' : d = e
    BY <1>1 DEF CaInv, Ca!TypeOK, Ca!Write, Ca!GoesOn, Ca!Return
  <2> QED BY <2>1, <2>2, <2>3 DEF CaInv, Ca!TypeOK, Ca!Write
<1>5. CASE call[c] = "key"
  <2>1. disk' = [disk EXCEPT !["ca.key"] = pair[c]] /\ shown' = shown
        /\ call' = [call EXCEPT ![c] = "cert"]
    BY <1>5 DEF Ca!Write, Ca!FileAt, Ca!GoesOn
  <2>2. Ca!CertificateHasItsKey' /\ Ca!OneRoot'
    BY <2>1, <1>2 DEF CaInv, Ca!TypeOK, Ca!CertificateHasItsKey, Ca!OneRoot
  <2>3. Inside' /\ Reading'
    BY <2>1, <1>1, <1>2, <1>3, SMTT(30) DEF CaInv, Ca!TypeOK, Inside, Reading, Ca!Write
  <2> QED BY <1>4, <2>2, <2>3 DEF CaInv
<1>6. CASE call[c] = "cert"
  <2>1. disk' = [disk EXCEPT !["ca.pem"] = pair[c]] /\ shown' = {pair[c]}
        /\ call' = [call EXCEPT ![c] = "idle"] /\ disk["ca.key"] = pair[c]
    BY <1>6, <1>2 DEF Ca!Write, Ca!FileAt, Ca!Return, CaInv, Inside
  <2>2. Ca!CertificateHasItsKey' /\ Ca!OneRoot'
    BY <2>1 DEF CaInv, Ca!TypeOK, Ca!CertificateHasItsKey, Ca!OneRoot
  <2>3. Inside' /\ Reading'
    BY <2>1, <1>1, <1>2, <1>3 DEF CaInv, Ca!TypeOK, Inside, Reading, Ca!Write
  <2> QED BY <1>4, <2>2, <2>3 DEF CaInv
<1> QED BY <1>5, <1>6 DEF Ca!Write

\* The tunnel's reads, and the end of the app, write nothing.
LEMMA ReadsInv ==
  ASSUME CaInv, Ca!AppEnds \/ Ca!LoadReads \/ Ca!LoadAgain
  PROVE  CaInv'
<1> USE DEF Ca!Missing, Ca!Files
<1>1. CASE Ca!AppEnds
  BY <1>1 DEF CaInv, Ca!TypeOK, Ca!CertificateHasItsKey, Ca!OneRoot, Inside, Reading,
         Ca!AppEnds
<1>2. CASE Ca!LoadReads
  <2>1. Ca!TypeOK' /\ Ca!CertificateHasItsKey' /\ Ca!OneRoot' /\ Inside'
    BY <1>2 DEF CaInv, Ca!TypeOK, Ca!CertificateHasItsKey, Ca!OneRoot, Inside,
           Ca!LoadReads, Ca!ReadOrder
  <2>2. Reading'
    BY <1>2 DEF CaInv, Ca!TypeOK, Ca!CertificateHasItsKey, Reading, Ca!LoadReads,
           Ca!ReadOrder
  <2> QED BY <2>1, <2>2 DEF CaInv
<1>3. CASE Ca!LoadAgain
  BY <1>3 DEF CaInv, Ca!TypeOK, Ca!CertificateHasItsKey, Ca!OneRoot, Inside, Reading,
         Ca!LoadAgain, Ca!Nothing
<1> QED BY <1>1, <1>2, <1>3

\* Every step keeps the invariant.
LEMMA CaNext == CaInv /\ [Ca!Next]_(Ca!vars) => CaInv'
<1> SUFFICES ASSUME CaInv, [Ca!Next]_(Ca!vars) PROVE CaInv'
  OBVIOUS
<1>1. CASE Ca!Next
  BY <1>1, CallsInv, GenerateInv, WriteInv, ReadsInv DEF Ca!Next, Ca!Generates
<1>2. CASE UNCHANGED Ca!vars
  BY <1>2 DEF CaInv, Ca!TypeOK, Ca!CertificateHasItsKey, Ca!OneRoot, Inside, Reading,
         Ca!vars
<1> QED BY <1>1, <1>2

\* The invariant holds throughout.
LEMMA CaInvariance == Ca!Spec => []CaInv
  BY CaInit, CaNext, PTL DEF Ca!Spec

\* At most one caller is inside generate_in (GENERATE).
THEOREM TypesHold == Ca!Spec => []Ca!TypeOK
<1>1. CaInv => Ca!TypeOK
  BY DEF CaInv
<1> QED BY <1>1, CaInvariance, PTL

\* A certificate on disk always has its key next to it (generate_in).
THEOREM KeysStay == Ca!Spec => []Ca!CertificateHasItsKey
<1>1. CaInv => Ca!CertificateHasItsKey
  BY DEF CaInv
<1> QED BY <1>1, CaInvariance, PTL

\* The root a user may have installed is the one on disk (generate_ca).
THEOREM RootStays == Ca!Spec => []Ca!OneRoot
<1>1. CaInv => Ca!OneRoot
  BY DEF CaInv
<1> QED BY <1>1, CaInvariance, PTL

\* load_ca never sees one pair's certificate with another pair's key.
THEOREM WholePairSeen == Ca!Spec => []Ca!TunnelSeesWholePair
<1>1. CaInv => Ca!TunnelSeesWholePair
  BY DEF CaInv, Ca!TypeOK, Reading, Ca!TunnelSeesWholePair, Ca!Loaded, Ca!Files,
         Ca!Missing
<1> QED BY <1>1, CaInvariance, PTL

\* All four at once: the root the user installed stays whole (ca.rs).
THEOREM RootIsKept == Ca!Spec => []Ca!RootKept
BY TypesHold, KeysStay, RootStays, WholePairSeen, PTL DEF Ca!RootKept
=============================================================================
