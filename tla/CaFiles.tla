------------------------------ MODULE CaFiles -------------------------------
(***************************************************************************)
(* The root CA's two files (ca.rs).  The app makes the CA on first use     *)
(* (generate_ca), from any of its threads; the tunnel's process reads it   *)
(* (load_ca) at any time.  A write replaces a file whole or fails; the app *)
(* may be killed between any two steps.  A pair is a number; its           *)
(* certificate and its key carry it (CertAuthority::from_pem refuses a key *)
(* that does not belong to the certificate).                               *)
(***************************************************************************)
EXTENDS Naturals

CONSTANTS Callers,  \* the app's threads that call generate_ca
    MaxPairs,       \* pairs generated
    MaxFails        \* reads and writes that fail, and ends of the app

VARIABLES
    disk,    \* the pair whose part each file holds, or Missing
    serial,  \* the callers that hold GENERATE
    call,    \* where each caller is
    pair,    \* the pair a caller has generated
    made,    \* pairs generated
    reader,  \* where the tunnel's load_ca is
    seen,    \* what it has read
    shown,   \* pairs generate_ca has returned: roots the user may install
    fails

vars == <<disk, serial, call, pair, made, reader, seen, shown, fails>>

Missing == 0
Files == {"ca.pem", "ca.key"}
Nothing == [f \in Files |-> Missing]

Init ==
  /\ disk = Nothing
  /\ serial = {}
  /\ call = [c \in Callers |-> "idle"]
  /\ pair = [c \in Callers |-> Missing]
  /\ made = 0
  /\ reader = "idle" /\ seen = Nothing
  /\ shown = {}
  /\ fails = 0

\* What load_ca makes of the two files' contents.
Loaded(files) ==
  IF \E f \in Files : files[f] = Missing THEN "none"
  ELSE IF files["ca.pem"] = files["ca.key"] THEN "ca"
  ELSE "invalid"

GoesOn(c, to) == call' = [call EXCEPT ![c] = to] /\ UNCHANGED serial

\* The call returns and lets go of GENERATE.
Return(c) == call' = [call EXCEPT ![c] = "idle"] /\ serial' = {}

Enter(c) ==
  /\ call[c] = "idle" /\ serial = {}
  /\ call' = [call EXCEPT ![c] = "loads"] /\ serial' = {c}
  /\ UNCHANGED <<disk, pair, made, reader, seen, shown, fails>>

\* load_ca finds a CA, or two files that are not one.  Nothing is generated.
Found(c) ==
  /\ call[c] = "loads" /\ Loaded(disk) # "none"
  /\ shown' = IF Loaded(disk) = "ca" THEN shown \cup {disk["ca.pem"]} ELSE shown
  /\ Return(c)
  /\ UNCHANGED <<disk, pair, made, reader, seen, fails>>

\* A file cannot be read: an error, and nothing is generated.
ReadFails(c) ==
  /\ call[c] = "loads" /\ fails < MaxFails
  /\ fails' = fails + 1
  /\ Return(c)
  /\ UNCHANGED <<disk, pair, made, reader, seen, shown>>

Generate(c) ==
  /\ call[c] = "loads" /\ Loaded(disk) = "none" /\ made < MaxPairs
  /\ made' = made + 1
  /\ pair' = [pair EXCEPT ![c] = made']
  /\ GoesOn(c, "key")
  /\ UNCHANGED <<disk, reader, seen, shown, fails>>

\* The key is written first.
FileAt(step) == IF step = "key" THEN "ca.key" ELSE "ca.pem"

\* write_private succeeds: the key, then the certificate.
Write(c) ==
  /\ call[c] \in {"key", "cert"}
  /\ disk' = [disk EXCEPT ![FileAt(call[c])] = pair[c]]
  /\ IF call[c] = "key"
       THEN GoesOn(c, "cert") /\ UNCHANGED shown
       ELSE Return(c) /\ shown' = shown \cup {pair[c]}
  /\ UNCHANGED <<pair, made, reader, seen, fails>>

WriteFailsIgnored(c) ==
  /\ call[c] = "cert" /\ fails < MaxFails
  /\ fails' = fails + 1
  /\ shown' = shown \cup {pair[c]}
  /\ Return(c)
  /\ UNCHANGED <<disk, pair, made, reader, seen>>

WriteFails(c) ==
  /\ call[c] \in {"key", "cert"} /\ fails < MaxFails
  /\ fails' = fails + 1
  /\ Return(c)
  /\ UNCHANGED <<disk, pair, made, reader, seen, shown>>

\* The app is killed; what is on disk stays.
AppEnds ==
  /\ fails < MaxFails
  /\ fails' = fails + 1
  /\ call' = [c \in Callers |-> "idle"] /\ serial' = {}
  /\ UNCHANGED <<disk, pair, made, reader, seen, shown>>

\* load_ca reads the certificate first.
ReadOrder(step) == IF step = "idle" THEN "ca.pem" ELSE "ca.key"

\* load_ca in the tunnel's process (Engine::with_options), a file at a time.
LoadReads ==
  /\ reader # "loaded"
  /\ seen' = [seen EXCEPT ![ReadOrder(reader)] = disk[ReadOrder(reader)]]
  /\ reader' = IF reader = "idle" THEN "second" ELSE "loaded"
  /\ UNCHANGED <<disk, serial, call, pair, made, shown, fails>>

\* The engine is made with what was read; a later tunnel reads anew.
LoadAgain ==
  /\ reader = "loaded"
  /\ reader' = "idle" /\ seen' = Nothing
  /\ UNCHANGED <<disk, serial, call, pair, made, shown, fails>>

Generates ==
  \E c \in Callers : \/ Enter(c)
                     \/ Found(c)
                     \/ ReadFails(c)
                     \/ Generate(c)
                     \/ Write(c)
                     \/ WriteFails(c)

Next == Generates \/ AppEnds \/ LoadReads \/ LoadAgain

Spec == Init /\ [][Next]_vars

\* Types; at most one caller is inside generate_in, the one that holds GENERATE.
TypeOK ==
  /\ made \in Nat
  /\ disk \in [Files -> 0..made] /\ seen \in [Files -> 0..made]
  /\ pair \in [Callers -> 0..made]
  /\ call \in [Callers -> {"idle", "loads", "key", "cert"}]
  /\ reader \in {"idle", "second", "loaded"}
  /\ shown \subseteq 1..made
  /\ serial = {c \in Callers : call[c] # "idle"}
  /\ \A c, d \in serial : c = d

\* "The key first: a certificate on disk always has its key next to it"
\* (generate_in), whatever write failed and wherever the app was killed.
CertificateHasItsKey ==
  disk["ca.pem"] # Missing => disk["ca.key"] = disk["ca.pem"]

\* Every call of generate_ca, on any thread and after any failure, returns
\* the same root: the one the user installs is never replaced silently.
OneRoot == \A p \in shown : disk["ca.pem"] = p

\* A tunnel that comes up while the app generates the CA finds none or a
\* whole one, never a certificate with another pair's key: load_ca reads the
\* files in the opposite order to the one generate_in writes them in.
TunnelSeesWholePair == reader = "loaded" => Loaded(seen) # "invalid"

\* All of it: one whole pair, the user's (generate_ca, generate_in, load_ca).
RootKept ==
  TypeOK /\ CertificateHasItsKey /\ OneRoot /\ TunnelSeesWholePair
=============================================================================
