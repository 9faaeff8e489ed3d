----------------------------- MODULE MCRequests -----------------------------
(***************************************************************************)
(* Instances of Requests and of Handshake for TLC: two requests of one     *)
(* HTTP/2 connection and one of an HTTP/1.1 connection, or one client's    *)
(* handshake.  The two share no variable: a behaviour is one of the first  *)
(* or one of the second, as machine says, and the other one stays where it *)
(* begins.                                                                 *)
(***************************************************************************)
EXTENDS Requests, TLC

CONSTANTS first, second, upgrading, h1, h2

ThreeRequests == {first, second, upgrading}
Connections == (first :> h2) @@ (second :> h2) @@ (upgrading :> h1)
Dests == (first :> Destinations) @@ (second :> {"Subresource"}) @@ (upgrading :> {"Subresource"})
OneHttp2 == {h2}

VARIABLE machine  \* "requests" or "handshake"
VARIABLES t_kind, t_arrived, t_client, t_peek, t_buffer, t_pos, t_taken,
    t_given, t_flight, t_written, t_records, t_waited, t_reached, t_idle_read,
    t_error, t_outcome

handshakeVars == << t_kind, t_arrived, t_client, t_peek, t_buffer, t_pos,
    t_taken, t_given, t_flight, t_written, t_records, t_waited, t_reached,
    t_idle_read, t_error, t_outcome>>

\* A hello of two units, of which three are read at most, and a chain that does
\* or does not fit in two.
Tls == INSTANCE Handshake WITH
    kind <- t_kind, arrived <- t_arrived, client <- t_client, peek <- t_peek,
    buffer <- t_buffer, pos <- t_pos, taken <- t_taken, given <- t_given,
    flight <- t_flight, written <- t_written, records <- t_records,
    waited <- t_waited, reached <- t_reached, idle_read <- t_idle_read,
    error <- t_error, outcome <- t_outcome, HelloLength <- 2,
    ClientBytes <- 4, MAX_CLIENT_HELLO <- 3, HeaderLength <- 2,
    MAX_HANDSHAKE_BYTES <- 2

EitherInit ==
  /\ machine \in {"requests", "handshake"}
  /\ Init /\ Tls!Init
  /\ machine = "requests" => t_kind = "tls"

EitherNext ==
  \/ machine = "requests" /\ Next /\ UNCHANGED <<machine, handshakeVars>>
  \/ machine = "handshake" /\ Tls!Next /\ UNCHANGED <<machine, vars>>

EitherSpec == EitherInit /\ [][EitherNext]_<<machine, vars, handshakeVars>>

\* Handshake: no byte of the client is lost, repeated or reordered by the peek
\* (connect.rs, read_hello; Rewind).
NothingLost == Tls!NothingLost

\* Handshake: a client that hangs up counts as a silent refusal exactly if it was
\* still there when the certificate had been written (flight.rs).
RefusalsReal == Tls!RefusalsReal

=============================================================================
