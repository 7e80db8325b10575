SPECIFICATION Safety
CONSTANTS
    w1 = w1
    w2 = w2
    c1 = c1
    c2 = c2
    c3 = c3
    c4 = c4
    ip1 = ip1
    ip2 = ip2
    ip3 = ip3
    NoWorker = NoWorker
    Ips = {ip1, ip2, ip3}
    Workers = {w1, w2}
    Conns = {c1, c2, c3, c4}
    IpOf <- MCIpOf
    Config <- MCConfig
    MaxVersion = 0
    MaxReloads = 0
    MaxCert = 0
    TlsEnabled = FALSE
    PoolSize = 1
SYMMETRY AdmissionSymmetry
INVARIANTS
    TypeOK
    CountersExact
    LimitsRespected
    CleanShutdown
