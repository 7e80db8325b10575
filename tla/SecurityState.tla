--------------------------- MODULE SecurityState ---------------------------
(***************************************************************************)
(* The connection counters of class SecurityState (server.cpp): one object *)
(* shared by every worker, each operation of which runs under its mutex    *)
(* and is therefore one atomic step of whoever calls it.                   *)
(*                                                                         *)
(* A counter value is [total |-> n, by_ip |-> f].  The code's map has no   *)
(* entry where f is 0.                                                     *)
(***************************************************************************)
EXTENDS Naturals

CONSTANT Ips        \* The client addresses.

no_connections == [total |-> 0, by_ip |-> [ip \in Ips |-> 0]]

Counters == [total : Nat, by_ip : [Ips -> Nat]]

\* Faulty variant: the limits are compared with > instead of >=.
admits_off_by_one(security, ip, config) ==
    /\ ip \notin config.ip_blocklist
    /\ config.ip_allowlist # {} => ip \in config.ip_allowlist
    /\ security.total <= config.global_connection_limit
    /\ security.by_ip[ip] <= config.per_ip_connection_limit

\* try_open_connection answers "allowed".
admits(security, ip, config) ==
    /\ ip \notin config.ip_blocklist
    /\ config.ip_allowlist # {} => ip \in config.ip_allowlist
    /\ security.total < config.global_connection_limit
    /\ security.by_ip[ip] < config.per_ip_connection_limit

\* The two increments of try_open_connection.
open_connection(security, ip) ==
    [total |-> security.total + 1,
     by_ip |-> [security.by_ip EXCEPT ![ip] = @ + 1]]

\* Both counters are guarded against going below zero.
close_connection(security, ip) ==
    [total |-> IF security.total > 0 THEN security.total - 1 ELSE security.total,
     by_ip |-> [security.by_ip EXCEPT ![ip] = IF @ > 0 THEN @ - 1 ELSE @]]

=============================================================================
