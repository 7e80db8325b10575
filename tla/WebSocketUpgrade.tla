-------------------------- MODULE WebSocketUpgrade --------------------------
(***************************************************************************)
(* A WebSocket upgrade request that try_handle_websocket_upgrade accepts:  *)
(* its virtual host sends it to an upstream (WebSocketTunnel), or it is    *)
(* answered by the server itself (WebSocketEndpoint).  ClientConnection    *)
(* has the requests that come before, and the refusals.                    *)
(***************************************************************************)
EXTENDS WebSocketTunnel, WebSocketEndpoint

VARIABLE route      \* websocket_proxy_after_response_ or websocket_after_response_

upgrade_vars == <<route, vars, endpoint_vars>>

\* try_start_websocket_proxy has upstreams, or none and the server answers.
try_handle_websocket_upgrade ==
    \/ route = "proxy" /\ Init /\ EndpointAbsent
    \/ route = "local" /\ sent["client"] = 0 /\ EndpointBegins

UpgradeInit == Init /\ EndpointInit /\ try_handle_websocket_upgrade

UpgradeNext ==
    \/ route = "proxy" /\ Next /\ UNCHANGED <<route, endpoint_vars>>
    \/ route = "local" /\ EndpointNext /\ UNCHANGED <<route, vars>>

UpgradeSpec == UpgradeInit /\ [][UpgradeNext]_upgrade_vars /\ Fairness /\ EndpointFairness
=============================================================================
