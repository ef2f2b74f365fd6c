-------------------------- MODULE MCHubConnection --------------------------
(* HubConnection for TLC: two calls over two sockets, the second one with a *)
(* timeout.                                                                 *)
EXTENDS HubConnection

CONSTANTS c1, c2

MCCalls == {c1, c2}

MCTimed == {c2}

=============================================================================
