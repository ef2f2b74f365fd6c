--------------------------- MODULE MCHubSessions ---------------------------
(* Instances of HubSessions for TLC. *)
EXTENDS HubSessions

CONSTANT t1

MCOneToolCall == {t1}

=============================================================================
