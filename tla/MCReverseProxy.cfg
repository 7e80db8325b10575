\* A failed attempt fails over once and opens the circuit of its upstream for two seconds.
SPECIFICATION Spec
CONSTANTS
    u1 = u1
    u2 = u2
    NoUpstream = NoUpstream
    upstreams <- MCUpstreams
    Https = {u2}
    Conns = {c1, c2}
    load_balancing_policy = "failover"
    retry_count = 1
    connect_timeout_seconds = 1
    read_timeout_seconds = 1
    circuit_breaker_enabled = TRUE
    circuit_breaker_failure_threshold = 1
    circuit_breaker_cooldown_seconds = 2
INVARIANTS
    AnswerTellsTruth
    SocketsAccounted
PROPERTIES
    OpenCircuitShields
    ForwardingEnds
    OpenCircuitRecovers
