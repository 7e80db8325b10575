-------------------------- MODULE AdmissionControl --------------------------
(***************************************************************************)
(* What the server promises of the connections it takes: one controller    *)
(* that decides on each connection in a single step, by the policy that    *)
(* was in force when the connection arrived and by the connections that    *)
(* are live at the moment of the decision.  It refuses only what that      *)
(* policy does not allow, and takes only what it does.                     *)
(***************************************************************************)
EXTENDS Naturals, FiniteSets

CONSTANTS
    Conns,
    IpOf,           \* IpOf[c]: the address of c
    Versions,       \* the policies
    Config          \* Config[v]: the limits and lists of policy v

VARIABLES
    policy,         \* the policy in force
    waiting,        \* the connections to be decided, each with its policy
    live            \* the connections that count

vars == <<policy, waiting, live>>

Init == policy \in Versions /\ waiting = {} /\ live = {}

From(ip) == {c \in live : IpOf[c] = ip}

Allowed(c, v) ==
    /\ IpOf[c] \notin Config[v].ip_blocklist
    /\ Config[v].ip_allowlist # {} => IpOf[c] \in Config[v].ip_allowlist
    /\ Cardinality(live) < Config[v].global_connection_limit
    /\ Cardinality(From(IpOf[c])) < Config[v].per_ip_connection_limit

Publish(v) ==
    /\ policy' = v
    /\ UNCHANGED <<waiting, live>>

Arrive(c) ==
    /\ c \notin live /\ \A v \in Versions : <<c, v>> \notin waiting
    /\ waiting' = waiting \cup {<<c, policy>>}
    /\ UNCHANGED <<policy, live>>

Admit(c, v) ==
    /\ <<c, v>> \in waiting /\ Allowed(c, v)
    /\ waiting' = waiting \ {<<c, v>>}
    /\ live' = live \cup {c}
    /\ UNCHANGED policy

Refuse(c, v) ==
    /\ <<c, v>> \in waiting /\ ~Allowed(c, v)
    /\ waiting' = waiting \ {<<c, v>>}
    /\ UNCHANGED <<policy, live>>

Leave(c) ==
    /\ c \in live
    /\ live' = live \ {c}
    /\ UNCHANGED <<policy, waiting>>

Next ==
    \/ \E v \in Versions : Publish(v)
    \/ \E c \in Conns : Arrive(c) \/ Leave(c)
    \/ \E c \in Conns, v \in Versions : Admit(c, v) \/ Refuse(c, v)

Spec == Init /\ [][Next]_vars
=============================================================================
