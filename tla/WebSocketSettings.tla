------------------------- MODULE WebSocketSettings -------------------------
(* What the local WebSocket endpoint and the tunnel to an upstream share.  *)
EXTENDS Integers

CONSTANTS
    client_tls,             \* the client connection has an ssl_
    idle_timeout_seconds

ASSUME SettingsAssumption ==
    /\ client_tls \in BOOLEAN
    /\ idle_timeout_seconds \in Nat \ {0}

Events == {"IN", "OUT"}

\* What a call that cannot go on asks epoll for: event_for_ssl_error, or nothing
\* of its own on a plain socket.
Wants(tls) == IF tls THEN {{event} : event \in Events} ELSE {{}}
============================================================================
