----------------------------- MODULE Handshake -----------------------------
(***************************************************************************)
(* A CONNECT that is inspected, up to the end of its TLS handshake: the    *)
(* ClientHello is read into a buffer (core/crates/mitm/src/connect.rs,     *)
(* read_hello; hello.rs), replayed to the tunnel or to the TLS acceptor    *)
(* (rewind.rs), and while the acceptor writes its flight FlightWatch       *)
(* (flight.rs) follows the records, so that a failed handshake is reported *)
(* to the policy as what it was (intercept.rs, report_handshake_failure).  *)
(*                                                                         *)
(* The client's bytes are numbered.  What rustls writes is one of its      *)
(* flights: records of a type and a length, and for a handshake record the *)
(* parts of the messages in it, several messages to a record or several    *)
(* records to a message.  A write may end after any byte of a header or    *)
(* part of a message.                                                      *)
(***************************************************************************)
EXTENDS Naturals, Sequences, SequencesExt

CONSTANTS
    HelloLength,         \* bytes of a complete ClientHello
    ClientBytes,         \* bound: bytes a client sends
    MAX_CLIENT_HELLO,    \* bytes read before a ClientHello is given up
    HeaderLength,        \* parts of a record header (5 bytes in flight.rs)
    MAX_HANDSHAKE_BYTES  \* parts of an incomplete message that are kept

VARIABLES
    kind,      \* what the client starts with, one of Kinds
    arrived,   \* bytes of the client that reached the proxy's socket
    client,    \* "open", or how the client ended
    peek,      \* "first", "hello", "tunnel", "handshake", "closed"
    buffer,    \* the bytes read so far, then Rewind's prefix
    pos,       \* Rewind's position in it
    taken,     \* bytes taken from the socket
    given,     \* what the tunnel or the acceptor has read
    flight,    \* what rustls writes: <<>> before it starts
    written,   \* how many units of it have been written
    records,   \* FlightWatch's Records
    waited,    \* FlightWatch's waited
    reached,   \* history: the client when the certificate had been written
    idle_read, \* history: a read found nothing after that
    error,     \* the error of a failed handshake, or "none"
    outcome    \* what becomes of the handshake, one of Outcomes

peeking == <<kind, arrived, client, peek, buffer, pos, taken, given>>
watching == <<flight, written, records, waited, reached, idle_read>>
vars == <<peeking, watching, error, outcome>>

(* A ClientHello, the start of one without an end, TLS by its first bytes  *)
(* only, and a protocol that is not TLS.                                   *)
Kinds == {"tls", "endless", "garbled", "other"}
Outcomes == {"none", "rejection", "silent", "noise", "timeout", "handshaken"}

Hellos == {"hrr", "sh13", "psk13", "sh12"}
Watched == {"Hello", "Tls13", "Tls12"}
Progress == Watched \cup {"CertificateSent", "NoCertificate"}

(* How a client hangs up, rejects the certificate, or fails otherwise. *)
HangsUp == {"eof", "reset", "close_notify", "user_canceled"}
Rejects == {"unknown_ca"}
Ended == HangsUp \cup Rejects \cup {"other_alert"}

NewRecords ==
    [progress |-> "Hello", type |-> "none", header_len |-> 0, remaining |-> 0,
     handshake |-> <<>>]

Init ==
    /\ kind \in Kinds
    /\ arrived = 0
    /\ client = "open"
    /\ peek = "first"
    /\ buffer = <<>>
    /\ pos = 0
    /\ taken = 0
    /\ given = <<>>
    /\ flight = <<>>
    /\ written = 0
    /\ records = NewRecords
    /\ waited = FALSE
    /\ reached = "no"
    /\ idle_read = FALSE
    /\ error = "none"
    /\ outcome = "none"

-----------------------------------------------------------------------------
(* The flights of rustls.  A message is a sequence of parts; a certificate *)
(* of TLS 1.3 is in an encrypted record.                                   *)

Message(m, parts) == [i \in 1 .. parts |-> [of |-> m, last |-> i = parts]]
Record(type, body) ==
    [i \in 1 .. HeaderLength |-> [type |-> type, length |-> Len(body)]] \o body
Clear(m) == Record("handshake", Message(m, 2))
Ccs == Record("ccs", Message("ccs", 1))
Data(m) == Record("data", Message(m, 2))
Alert == Record("alert", Message("alert", 1))

(* The client's second ClientHello, after a HelloRetryRequest. *)
Await == <<[of |-> "await", last |-> FALSE]>>

Chain == Message("certificate", 2)
LongChain == Message("certificate", MAX_HANDSHAKE_BYTES + 2)

Full13 == Clear("sh13") \o Ccs \o Data("certificate")
Resumed13 == Clear("psk13") \o Ccs \o Data("finished")
Retried13 == Clear("hrr") \o Ccs \o Await \o Clear("sh13") \o Data("certificate")
RetryFails == Clear("hrr") \o Ccs \o Await \o Alert
Full12 == Record("handshake", Message("sh12", 2) \o Chain \o Message("done", 1))
Split12 ==
    Record("handshake", Message("sh12", 2) \o SubSeq(Chain, 1, 1))
      \o Record("handshake", SubSeq(Chain, 2, 2) \o Message("done", 1))
Resumed12 == Clear("sh12") \o Ccs \o Clear("finished")
Ticket12 ==
    Record("handshake", Message("sh12", 2) \o Message("ticket", 1)) \o Ccs
      \o Clear("finished")
Long12 ==
    Clear("sh12") \o Record("handshake", SubSeq(LongChain, 1, Len(LongChain) - 1))
      \o Record("handshake", SubSeq(LongChain, Len(LongChain), Len(LongChain)))

Flights ==
    {Full13, Resumed13, Retried13, RetryFails, Full12, Split12, Resumed12,
     Ticket12, Long12, Alert}

(* Where the record that ends the certificate ends; 0 without one. *)
IsCertificate(unit) ==
    "of" \in DOMAIN unit /\ unit.of = "certificate" /\ unit.last
IsHeader(unit) == "type" \in DOMAIN unit
CertificateEnd(f) ==
    LET ends == {i \in 1 .. Len(f) :
                   /\ i = Len(f) \/ IsHeader(f[i + 1])
                   /\ \E j \in 1 .. i : IsCertificate(f[j])}
    IN  IF ends = {} THEN 0 ELSE CHOOSE i \in ends : \A j \in ends : i <= j
-----------------------------------------------------------------------------
(* Records: following what is written.                                     *)

server_hello(m) ==
    CASE m = "hrr" -> "Hello"
      [] m = "sh13" -> "Tls13"
      [] m = "psk13" -> "NoCertificate"
      [] m = "sh12" -> "Tls12"

AfterMessage(progress, unit) ==
    CASE progress \notin {"Hello", "Tls12"} -> progress
      [] progress = "Hello" /\ unit.of \in Hellos -> server_hello(unit.of)
      [] progress = "Tls12" /\ unit.of = "certificate" -> "CertificateSent"
      [] OTHER -> "NoCertificate"

handshake_messages(r) ==
    LET IsLast(unit) == unit.last
        used == SelectLastInSeq(r.handshake, IsLast)
        progress == FoldLeft(AfterMessage, r.progress, SelectSeq(r.handshake, IsLast))
        rest == SubSeq(r.handshake, used + 1, Len(r.handshake))
    IN  CASE progress \notin {"Hello", "Tls12"} -> [r EXCEPT !.progress = progress]
          [] OTHER -> [r EXCEPT !.handshake = rest,
                                !.progress = IF Len(rest) > MAX_HANDSHAKE_BYTES
                                             THEN "NoCertificate" ELSE progress]

record_written(full) ==
    LET r == [full EXCEPT !.header_len = 0]
    IN  CASE r.type = "handshake" /\ r.progress \in {"Hello", "Tls12"} ->
               handshake_messages(r)
          [] r.type = "ccs" /\ r.progress \in {"Hello", "Tls13"} -> r
          [] r.type = "data" /\ r.progress = "Tls13" ->
               [r EXCEPT !.progress = "CertificateSent"]
          [] OTHER -> [r EXCEPT !.progress = "NoCertificate"]

HeaderPart(r, unit) ==
    LET read == [r EXCEPT !.header_len = @ + 1, !.type = unit.type]
    IN  IF read.header_len < HeaderLength THEN read
        ELSE [read EXCEPT !.remaining = unit.length]

BodyPart(r, unit) ==
    LET collects == r.type = "handshake" /\ r.progress \in {"Hello", "Tls12"}
        read == [r EXCEPT !.remaining = @ - 1,
                          !.handshake = IF collects THEN Append(@, unit) ELSE @]
    IN  IF read.remaining = 0 THEN record_written(read) ELSE read

Forgotten(r) == IF r.progress \in Watched THEN r ELSE [r EXCEPT !.handshake = <<>>]

WrittenUnit(r, unit) ==
    CASE r.progress \notin Watched \/ unit \in Range(Await) -> r
      [] r.header_len < HeaderLength -> HeaderPart(r, unit)
      [] OTHER -> BodyPart(r, unit)

Written(r, units) == Forgotten(FoldLeft(WrittenUnit, r, units))

-----------------------------------------------------------------------------
(* The client and the socket.                                              *)

Arrive ==
    /\ client = "open"
    /\ arrived < ClientBytes
    /\ arrived' = arrived + 1
    /\ UNCHANGED <<kind, client, peek, buffer, pos, taken, given, watching,
                   error, outcome>>

End(how) ==
    /\ client = "open"
    /\ client' = how
    /\ UNCHANGED <<kind, arrived, peek, buffer, pos, taken, given, watching,
                   error, outcome>>

(* The next n bytes of the socket. *)
Bytes(n) == [i \in 1 .. n |-> taken + i]

-----------------------------------------------------------------------------
(* read_hello and plan.                                                    *)

Peeked(to) == peek' = to /\ UNCHANGED <<kind, arrived, client, pos, given>>

read_more(n) ==
    /\ n \in 1 .. (arrived - taken)
    /\ buffer' = buffer \o Bytes(n)
    /\ taken' = taken + n

(* What read_client_hello and the plan make of the bytes read. *)
Found(bytes) ==
    CASE kind = "other" -> {"tunnel"}
      [] kind = "garbled" /\ Len(bytes) >= 2 -> {"tunnel"}
      [] kind = "tls" /\ Len(bytes) >= HelloLength -> {"tunnel", "handshake"}
      [] Len(bytes) >= MAX_CLIENT_HELLO -> {"tunnel"}
      [] OTHER -> {"hello"}

ReadHello(n) ==
    /\ peek \in {"first", "hello"}
    /\ read_more(n)
    /\ \E to \in Found(buffer') : Peeked(to)
    /\ UNCHANGED <<watching, error, outcome>>

(* No byte within first_bytes_timeout, no whole ClientHello within         *)
(* handshake_timeout.                                                      *)
HelloTimeout ==
    /\ peek \in {"first", "hello"}
    /\ Peeked(IF peek = "first" THEN "tunnel" ELSE "closed")
    /\ UNCHANGED <<buffer, taken, watching, error, outcome>>

HelloClosed ==
    /\ peek \in {"first", "hello"}
    /\ client # "open" /\ taken = arrived
    /\ Peeked("closed")
    /\ UNCHANGED <<buffer, taken, watching, error, outcome>>

-----------------------------------------------------------------------------
(* Rewind, read by the tunnel or by the TLS acceptor.                      *)

(* Mutant: a read that takes less than the prefix releases all of it. *)
RewindReleased(n) ==
    IF pos < Len(buffer)
    THEN /\ n \in 1 .. (Len(buffer) - pos)
         /\ given' = given \o SubSeq(buffer, pos + 1, pos + n)
         /\ buffer' = <<>> /\ pos' = 0
         /\ taken' = taken
    ELSE /\ n \in 1 .. (arrived - taken)
         /\ given' = given \o Bytes(n)
         /\ taken' = taken + n
         /\ UNCHANGED <<buffer, pos>>

RewindRead(n) ==
    IF pos < Len(buffer)
    THEN /\ n \in 1 .. (Len(buffer) - pos)
         /\ given' = given \o SubSeq(buffer, pos + 1, pos + n)
         /\ IF pos + n = Len(buffer)
            THEN buffer' = <<>> /\ pos' = 0
            ELSE buffer' = buffer /\ pos' = pos + n
         /\ taken' = taken
    ELSE /\ n \in 1 .. (arrived - taken)
         /\ given' = given \o Bytes(n)
         /\ taken' = taken + n
         /\ UNCHANGED <<buffer, pos>>

Read(n) ==
    /\ peek \in {"tunnel", "handshake"} /\ outcome = "none"
    /\ RewindRead(n)
    /\ UNCHANGED <<kind, arrived, client, peek, watching, error, outcome>>

-----------------------------------------------------------------------------
(* The TLS acceptor over FlightWatch.                                      *)

Accepting == peek = "handshake" /\ outcome = "none"
NothingToRead == pos = Len(buffer) /\ taken = arrived

(* rustls has the ClientHello and chooses what to answer. *)
Answer(f) ==
    /\ Accepting
    /\ flight = <<>> /\ Len(given) >= HelloLength
    /\ flight' = f
    /\ UNCHANGED <<peeking, written, records, waited, reached, idle_read,
                   error, outcome>>

(* The second ClientHello is needed before anything after it. *)
Writable(n) ==
    \A i \in written + 1 .. written + n :
        flight[i] \in Range(Await) => Len(given) > HelloLength

Write(n) ==
    /\ Accepting
    /\ n \in 1 .. (Len(flight) - written)
    /\ Writable(n)
    /\ written' = written + n
    /\ records' = IF records.progress \in Watched
                  THEN Written(records, SubSeq(flight, written + 1, written + n))
                  ELSE records
    /\ reached' = LET end == CertificateEnd(flight)
                  IN  IF end \in written + 1 .. written + n THEN client ELSE reached
    /\ UNCHANGED <<peeking, flight, waited, idle_read, error, outcome>>

(* Mutant: any read that finds nothing counts as waiting for the client. *)
WaitsAlways == waited' = TRUE
Waits == waited' = (waited \/ records.progress = "CertificateSent")

ReadPending ==
    /\ Accepting
    /\ NothingToRead /\ client = "open"
    /\ Waits
    /\ idle_read' = (idle_read \/ reached # "no")
    /\ UNCHANGED <<peeking, flight, written, records, reached, error, outcome>>

certificate_delivered == records.progress = "CertificateSent" /\ waited

hung_up(e) == e \in HangsUp

report_handshake_failure(e) ==
    CASE e \in Rejects -> "rejection"
      [] hung_up(e) /\ certificate_delivered -> "silent"
      [] OTHER -> "noise"

Fails(e) ==
    /\ error' = e
    /\ outcome' = report_handshake_failure(e)
    /\ UNCHANGED <<peeking, watching>>

(* The acceptor reads how the client ended, or fails to write to it, or    *)
(* ends the handshake with an alert of its own.                            *)
ClientFails == Accepting /\ client # "open" /\ NothingToRead /\ Fails(client)
WriteFails ==
    /\ Accepting /\ client = "reset" /\ written < Len(flight)
    /\ \E e \in {"reset", "broken_pipe"} : Fails(e)
AcceptorFails ==
    /\ Accepting /\ flight \in {RetryFails, Alert} /\ written = Len(flight)
    /\ Fails("own")

(* The client's Finished, after its second ClientHello if there is one. *)
Handshaken ==
    /\ Accepting
    /\ flight \notin {<<>>, RetryFails, Alert} /\ written = Len(flight)
    /\ Len(given) > HelloLength + (IF flight = Retried13 THEN 1 ELSE 0)
    /\ outcome' = "handshaken"
    /\ UNCHANGED <<peeking, watching, error>>

HandshakeTimeout ==
    /\ Accepting
    /\ outcome' = "timeout"
    /\ UNCHANGED <<peeking, watching, error>>

Next ==
    \/ Arrive
    \/ \E how \in Ended : End(how)
    \/ HelloTimeout \/ HelloClosed
    \/ \E n \in 1 .. ClientBytes : ReadHello(n) \/ Read(n)
    \/ \E f \in Flights : Answer(f)
    \/ \E n \in 1 .. Len(flight) : Write(n)
    \/ ReadPending \/ ClientFails \/ WriteFails \/ AcceptorFails
    \/ Handshaken \/ HandshakeTimeout

Spec == Init /\ [][Next]_vars

-----------------------------------------------------------------------------
(* Properties.                                                             *)

(* The types, that parts of a message are held only while a record can     *)
(* still tell something, and that a read has waited only for a certificate *)
(* (Records::written, FlightWatch::poll_read).                             *)
TypeOK ==
    /\ kind \in Kinds /\ client \in {"open"} \cup Ended
    /\ taken <= arrived /\ arrived <= ClientBytes
    /\ pos <= Len(buffer) /\ (pos > 0 => pos < Len(buffer))
    /\ written <= Len(flight)
    /\ records.progress \in Progress /\ records.header_len \in 0 .. HeaderLength
    /\ Len(records.handshake) <= MAX_HANDSHAKE_BYTES + Len(Full12)
    /\ records.progress \notin Watched => records.handshake = <<>>
    /\ outcome \in Outcomes

(* No byte of the client is lost, repeated or reordered by the peek: what  *)
(* the tunnel or the acceptor has read, what is left of the replay buffer  *)
(* and nothing else is what was taken from the socket, in order ("Every    *)
(* byte read stays in buffer for replay", read_hello; Rewind).             *)
NothingLost ==
    given \o SubSeq(buffer, pos + 1, Len(buffer)) = [i \in 1 .. taken |-> i]

(* A handshake is counted as a silent refusal exactly if the client was    *)
(* still there when the certificate had been written to it, was given a    *)
(* chance to answer and hung up (FlightWatch::certificate_delivered): a    *)
(* client that hung up before, or one that resumed a session, never        *)
(* teaches a pin, and one that refuses is counted however rustls cuts its  *)
(* messages into records and its records into writes; only a chain too     *)
(* long to follow is missed (Records, MAX_HANDSHAKE_BYTES).                *)
RefusalsReal ==
    LET refused == error \in HangsUp /\ reached = "open" /\ idle_read
    IN  /\ TypeOK
        /\ outcome = "silent" => refused
        /\ refused /\ flight # Long12 => outcome = "silent"
=============================================================================
