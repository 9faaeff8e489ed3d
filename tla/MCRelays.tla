------------------------------ MODULE MCRelays ------------------------------
(* A tunnel, a WebSocket and a connection of the pool, two of them at a    *)
(* time, on a device with two links.                                       *)
EXTENDS Relays, TLC

CONSTANTS tunnel, socket, pooled, wifi, cellular

OneTunnel == {tunnel}
OneSocket == {socket}
OnePooled == {pooled}
TwoLinks == {wifi, cellular}

=============================================================================
