------------------------------ MODULE Requests ------------------------------
(***************************************************************************)
(* Requests on the intercepted connections of one origin, and what their   *)
(* clients get: core/crates/mitm/src/request.rs (handle, forward, failure, *)
(* answer_blocked), websocket.rs (forward, upgrade), filtering.rs          *)
(* (is_blocked), body.rs (DoneBody) and the classification of errors in    *)
(* upstream.rs (needs_passthrough, gets_no_response and their parts,       *)
(* learn_from_failure).  The pool itself is UpstreamPool, and the end of a *)
(* connection that was asked to close is ClientConnections.                *)
(*                                                                         *)
(* Requests of several connections run interleaved at their awaits: what   *)
(* the policy says of the host is read when a request starts, and may have *)
(* changed when its answer comes.                                          *)
(***************************************************************************)
EXTENDS Naturals, FiniteSets

CONSTANTS
    Requests,  \* requests, each sent once
    ConnOf,    \* the connection of each request
    DestsOf,   \* bound: the destinations each request may have
    Http2,     \* the connections that speak HTTP/2
    permits    \* upstream connections for WebSockets (Pool::global_permit)

Destinations == {"App", "Document", "Subresource"}

Conns == {ConnOf[r] : r \in Requests}

ASSUME Constants ==
    /\ ConnOf \in [Requests -> Conns]
    /\ DestsOf \in [Requests -> SUBSET Destinations]
    /\ Http2 \subseteq Conns
    /\ permits \in Nat \ {0}

VARIABLES
    pc,             \* where each request's handler is
    sent,           \* what was sent: who asked (Destination) and for what
    passed_through, \* handle's local: the host was passed through at the start
    answer,         \* what the client got
    learned,        \* Policy::classify passes the host through
    taken_back,     \* history: requests told to retry before the pin was taken back
    close,          \* connections asked to close (InFlight::request_close)
    in_flight,      \* Activity::in_flight of each connection
    holds           \* requests that hold one of the permits

vars == <<pc, sent, passed_through, answer, learned, taken_back, close, in_flight,
          holds>>

NotSent == [dest |-> "App", websocket |-> FALSE, blocked |-> FALSE]

Init ==
    /\ pc = [r \in Requests |-> "new"]
    /\ sent = [r \in Requests |-> NotSent]
    /\ passed_through = [r \in Requests |-> FALSE]
    /\ answer = [r \in Requests |-> "none"]
    /\ learned = FALSE
    /\ taken_back = {}
    /\ close = {}
    /\ in_flight = [c \in Conns |-> 0]
    /\ holds = {}

-----------------------------------------------------------------------------
(* Upstream errors, as far as they are told apart *)

Errors == {"Timeout", "Connect", "Exhausted", "ClientCertificate", "Http11Required",
           "UnverifiedCertificate", "RejectedCertificate", "PeerIncompatible",
           "OtherAlert", "ClosedEarly", "Malformed"}

is_unreachable(e) == e \in {"Timeout", "Connect"}

closed_without_response(e) == e = "ClosedEarly"

gets_no_response(e) == is_unreachable(e) \/ closed_without_response(e)

http11_required(e) == e = "Http11Required"

needs_passthrough(e) ==
    \/ e = "ClientCertificate"
    \/ http11_required(e)
    \/ e \in {"UnverifiedCertificate", "PeerIncompatible"}

(* learn_from_failure, and what it returns: whether the host is passed     *)
(* through now, also if another request taught it.  The policy does not    *)
(* learn from a burst (PinLearning), hence the choice.                     *)
Learns(e, learned2) ==
    /\ learned2 \in {learned, learned \/ needs_passthrough(e)}
    /\ learned' = learned2
    /\ UNCHANGED taken_back

LearnedFrom(e, learned2) == needs_passthrough(e) /\ learned2

(* Failure of a request of destination d: NoResponse (with or without an   *)
(* invitation to retry) or a response made by the proxy.                   *)
failure(e, d, learned2) ==
    IF gets_no_response(e) THEN "Closed"
    ELSE IF e = "Exhausted" THEN "503"
    ELSE IF LearnedFrom(e, learned2)
    THEN IF http11_required(e) THEN "HTTP_1_1_REQUIRED" ELSE "REFUSED_STREAM"
    ELSE IF http11_required(e) \/ d = "Subresource" THEN "Closed" ELSE "502"

answer_blocked(d) ==
    CASE d = "App" -> "403"
      [] d = "Document" -> "403 page"
      [] d = "Subresource" -> "Blocked"

NoResponses == {"Closed", "Blocked", "REFUSED_STREAM", "HTTP_1_1_REQUIRED"}

\* Mutant: no failure closes the client's connection
ClosesNothing(a) == FALSE

(* NoResponse::closes_connection: PassedThrough. *)
closes_connection(a) == a \in {"REFUSED_STREAM", "HTTP_1_1_REQUIRED"}

-----------------------------------------------------------------------------
(* handle *)

Conn(r) == ConnOf[r]

(* The requests in flight on r's connection besides r. *)
Others(r) == in_flight[Conn(r)] - (IF pc[r] = "new" THEN 0 ELSE 1)

(* The answer has a body, and DoneBody keeps in_flight until it is done.   *)
(* NoResponse drops in_flight at once; an upgraded WebSocket no longer     *)
(* belongs to the connection.                                              *)
BodyFollows(a) == a \notin NoResponses \cup {"101"}

(* Whether handle asks for the connection to be closed: the host was passed*)
(* through at the start or is now.  hyper closes an HTTP/1.1 connection    *)
(* after any service error.                                                *)
AsksToClose(r, a, passed, untrusted) ==
    \/ a \in NoResponses /\ (passed \/ closes_connection(a) \/ Conn(r) \notin Http2)
    \/ BodyFollows(a) /\ (passed \/ untrusted)

(* handle, with forward's result a. *)
Answered(r, a, passed, untrusted) ==
    /\ answer' = [answer EXCEPT ![r] = a]
    /\ pc' = [pc EXCEPT ![r] = CASE a \in NoResponses -> "done"
                                [] a = "101" -> "relay"
                                [] OTHER -> "body"]
    /\ in_flight' = [in_flight EXCEPT ![Conn(r)] =
                        Others(r) + (IF BodyFollows(a) THEN 1 ELSE 0)]
    /\ close' = IF AsksToClose(r, a, passed, untrusted)
                THEN close \cup {Conn(r)} ELSE close

(* A request arrives: HTTP/1.1 has one at a time, and a connection that is *)
(* going away takes no more.  handle asks the policy about the host.       *)
Arrives(r, q) ==
    /\ pc[r] = "new"
    /\ Conn(r) \notin close
    /\ Conn(r) \in Http2 \/ in_flight[Conn(r)] = 0
    /\ q.websocket => Conn(r) \notin Http2
    /\ sent' = [sent EXCEPT ![r] = q]
    /\ passed_through' = [passed_through EXCEPT ![r] = learned]
    /\ UNCHANGED <<learned, taken_back, holds>>

(* forward, of a request to another authority on an HTTP/2 connection. *)
Misdirected(r) ==
    /\ Conn(r) \in Http2
    /\ Arrives(r, NotSent)
    /\ Answered(r, "421", learned, FALSE)

(* forward, of a request the filter engine blocks: it goes nowhere. *)
Blocked(r) ==
    \E d \in DestsOf[r], w \in BOOLEAN :
        /\ Arrives(r, [dest |-> d, websocket |-> w, blocked |-> TRUE])
        /\ Answered(r, answer_blocked(d), learned, FALSE)

(* forward, of any other request, up to its first await. *)
Forward(r) ==
    /\ \E d \in DestsOf[r], w \in BOOLEAN :
        /\ Arrives(r, [dest |-> d, websocket |-> w, blocked |-> FALSE])
        /\ pc' = [pc EXCEPT ![r] = IF w THEN "dial" ELSE "pool"]
    /\ in_flight' = [in_flight EXCEPT ![Conn(r)] = @ + 1]
    /\ UNCHANGED <<answer, close>>

PoolAnswers(r) ==
    /\ pc[r] = "pool"
    /\ Answered(r, "upstream", passed_through[r], FALSE)
    /\ UNCHANGED <<sent, passed_through, learned, taken_back, holds>>

PoolFails(r) ==
    /\ pc[r] = "pool"
    /\ \E e \in Errors, learned2 \in BOOLEAN :
        /\ Learns(e, learned2)
        /\ Answered(r, failure(e, sent[r].dest, learned2), passed_through[r], FALSE)
    /\ UNCHANGED <<sent, passed_through, holds>>

-----------------------------------------------------------------------------
(* WebSockets *)

(* dial takes a permit before it connects. *)
Permit(r) ==
    /\ pc[r] = "dial"
    /\ r \notin holds
    /\ Cardinality(holds) < permits
    /\ holds' = holds \cup {r}
    /\ UNCHANGED <<pc, sent, passed_through, answer, learned, taken_back, close, in_flight>>

(* dial fails: 502, and the connection closes if that teaches a pin. *)
DialFails(r) ==
    /\ pc[r] = "dial"
    /\ \E e \in Errors, learned2 \in BOOLEAN :
        /\ e = "Exhausted" <=> r \notin holds
        /\ Learns(e, learned2)
        /\ Answered(r, "502", passed_through[r], LearnedFrom(e, learned2))
    /\ holds' = holds \ {r}
    /\ UNCHANGED <<sent, passed_through>>

Dialed(r) ==
    /\ pc[r] = "dial"
    /\ r \in holds
    /\ pc' = [pc EXCEPT ![r] = "upgrade"]
    /\ UNCHANGED <<sent, passed_through, answer, learned, taken_back, close, in_flight, holds>>

(* upgrade: the server fails, answers without switching protocols (the     *)
(* permit goes with the body), or switches.                                *)
Upgrade(r) ==
    /\ pc[r] = "upgrade"
    /\ \E a \in {"502", "upstream", "101"} :
        /\ Answered(r, a, passed_through[r], FALSE)
        /\ holds' = IF a = "502" THEN holds \ {r} ELSE holds
    /\ UNCHANGED <<sent, passed_through, learned, taken_back>>

(* DoneBody: the response's body ended, failed or was dropped. *)
BodyDone(r) ==
    /\ pc[r] = "body"
    /\ pc' = [pc EXCEPT ![r] = "done"]
    /\ in_flight' = [in_flight EXCEPT ![Conn(r)] = @ - 1]
    /\ holds' = holds \ {r}
    /\ UNCHANGED <<sent, passed_through, answer, learned, taken_back, close>>

(* The relay of a WebSocket ends (Relays). *)
RelayEnds(r) ==
    /\ pc[r] = "relay"
    /\ pc' = [pc EXCEPT ![r] = "done"]
    /\ holds' = holds \ {r}
    /\ UNCHANGED <<sent, passed_through, answer, learned, taken_back, close, in_flight>>

(* Another connection teaches the policy about the host (PinLearning). *)
OthersLearn ==
    /\ ~learned
    /\ learned' = TRUE
    /\ UNCHANGED <<pc, sent, passed_through, answer, taken_back, close, in_flight, holds>>

InvitesRetry(r) == answer[r] \in {"REFUSED_STREAM", "HTTP_1_1_REQUIRED"}

(* The host is a pin no more (PinLearning): a burst or a change of network *)
(* takes it back, it expires or the user has it forgotten.                 *)
OthersForget ==
    /\ learned
    /\ learned' = FALSE
    /\ taken_back' = {r \in Requests : InvitesRetry(r)}
    /\ UNCHANGED <<pc, sent, passed_through, answer, close, in_flight, holds>>

-----------------------------------------------------------------------------
Client(r) == Misdirected(r) \/ Blocked(r) \/ Forward(r)

Handler(r) ==
    \/ PoolAnswers(r)
    \/ PoolFails(r)
    \/ Permit(r)
    \/ DialFails(r)
    \/ Dialed(r)
    \/ Upgrade(r)
    \/ BodyDone(r)
    \/ RelayEnds(r)

Next == (\E r \in Requests : Client(r) \/ Handler(r)) \/ OthersLearn \/ OthersForget

Spec == Init /\ [][Next]_vars

-----------------------------------------------------------------------------
(* Properties *)

(* Activity's in_flight counts exactly the requests whose answer is not    *)
(* fully sent, so idle::serve neither drops a busy connection nor keeps a  *)
(* finished one; and a WebSocket holds its permit no longer than it dials, *)
(* is upgraded, sends a refusal's body or relays.                          *)
TypeOK ==
    /\ answer \in [Requests -> NoResponses \cup
            {"none", "403", "403 page", "421", "502", "503", "101", "upstream"}]
    /\ learned \in BOOLEAN /\ taken_back \subseteq Requests
    /\ close \subseteq Conns
    /\ \A c \in Conns :
        in_flight[c] = Cardinality({r \in Requests :
            Conn(r) = c /\ pc[r] \in {"pool", "dial", "upgrade", "body"}})
    /\ \A r \in holds : pc[r] \in {"dial", "upgrade", "body", "relay"}

(* What a client gets leads somewhere.                                     *)
(* A reset that tells it to retry (REFUSED_STREAM or HTTP_1_1_REQUIRED) is *)
(* sent only when the retry meets a new CONNECT that is passed through:    *)
(* the host is a pin from then on until the policy takes that pin back (a  *)
(* burst, a change of network, expiry, forget_pins: a retry after it may   *)
(* fail once more), and the connection the retry would otherwise use is    *)
(* closing.  A blocked request is never retried.                           *)
(* A blocked request never reaches an upstream, and what its sender sees   *)
(* depends only on who sent it: an app gets a response, so that its SDK    *)
(* does not retry, and a page a network error, also when the upstream      *)
(* failed, so that it does not take the answer for a loaded resource.      *)
(* Every answer that a request gets once the host is passed through (also  *)
(* if it was learned on another connection before the request started)     *)
(* closes its connection, but for a WebSocket that was upgraded.           *)
AnswersFit ==
    /\ TypeOK
    /\ \A r \in Requests : pc[r] # "new" /\ answer[r] # "none" =>
        /\ InvitesRetry(r) =>
            (learned \/ r \in taken_back) /\ Conn(r) \in close /\ ~sent[r].blocked
        /\ sent[r].blocked =>
            answer[r] = CASE sent[r].dest = "App" -> "403"
                          [] sent[r].dest = "Document" -> "403 page"
                          [] sent[r].dest = "Subresource" -> "Blocked"
        /\ sent[r].dest = "Subresource" /\ ~sent[r].websocket =>
            answer[r] \notin {"403", "403 page", "502"}
        /\ passed_through[r] /\ answer[r] # "101" => Conn(r) \in close

=============================================================================
