\* One attempt succeeds after another has opened the circuit.
SPECIFICATION Safety
CONSTANTS
    u1 = u1
    u2 = u2
    NoUpstream = NoUpstream
    upstreams <- MCUpstreams
    Https = {u2}
    Conns = {c1, c2}
    load_balancing_policy = "round_robin"
    retry_count = 1
    connect_timeout_seconds = 1
    read_timeout_seconds = 1
    circuit_breaker_enabled = TRUE
    circuit_breaker_failure_threshold = 1
    circuit_breaker_cooldown_seconds = 2
PROPERTIES
    ReopenedOnlyAfterCooldown
