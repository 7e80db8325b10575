---------------------------- MODULE MCWebSocket ----------------------------
(* Small instances of WebSocketUpgrade.                                    *)
EXTENDS WebSocketUpgrade

CONSTANTS u1, u2

MCOrders == {<<u1, u2>>}

MCMaxSent == [p \in Parties |-> IF p = "client" THEN 3 ELSE 1]

\* The longest acceptable frame has an extended length.
MCFrames ==
    {[kind |-> "data", length |-> 2], [kind |-> "data", length |-> 3],
     [kind |-> "ping", length |-> 1], [kind |-> "pong", length |-> 0],
     [kind |-> "close", length |-> 0], [kind |-> "reserved", length |-> 0],
     [kind |-> "fragment", length |-> 0]}
============================================================================
