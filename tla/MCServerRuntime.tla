-------------------------- MODULE MCServerRuntime --------------------------
(* Small instances of ServerRuntime.                                       *)
EXTENDS ServerRuntime, TLC

CONSTANTS w1, w2, c1, c2, c3, c4, ip1, ip2, ip3

MCIpOf == [c \in Conns |-> CASE c = c3 -> ip2 [] c = c4 -> ip3 [] OTHER -> ip1]

(***************************************************************************)
(* 0  two connections, at most one of them from each address               *)
(* 1  new TLS settings, but the certificate does not load                  *)
(* 2  new TLS settings that load, a higher limit for one address           *)
(* 3  a key that needs a restart is changed as well                        *)
(* 4  a configuration that does not load                                   *)
(* 5  the same keys as 2, the first address is blocked                     *)
(***************************************************************************)
BaseConfig ==
    [valid |-> TRUE, pinned |-> 0, tls |-> 0, builds |-> TRUE,
     global_connection_limit |-> 2, per_ip_connection_limit |-> 1,
     ip_blocklist |-> {}, ip_allowlist |-> {}]

MCConfig ==
    [v \in Versions |->
       CASE v = 0 -> BaseConfig
         [] v = 1 -> [BaseConfig EXCEPT !.tls = 1, !.builds = FALSE]
         [] v = 2 -> [BaseConfig EXCEPT !.tls = 2, !.per_ip_connection_limit = 2]
         [] v = 3 -> [BaseConfig EXCEPT !.tls = 2, !.pinned = 1]
         [] v = 4 -> [BaseConfig EXCEPT !.valid = FALSE]
         [] OTHER -> [BaseConfig EXCEPT !.tls = 2, !.ip_blocklist = {ip1}]]

\* The workers, the two connections of the first address, and the other two
\* connections together with their addresses.
AdmissionSymmetry ==
    Permutations(Workers) \cup
    {(c1 :> c2) @@ (c2 :> c1),
     (c3 :> c4) @@ (c4 :> c3) @@ (ip2 :> ip3) @@ (ip3 :> ip2)}
=============================================================================
