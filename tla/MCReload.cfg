SPECIFICATION Safety
CONSTANTS
    w1 = w1
    w2 = w2
    c1 = c1
    c2 = c2
    c3 = c3
    c4 = c4
    ip1 = ip1
    ip2 = ip2
    ip3 = ip3
    NoWorker = NoWorker
    Ips = {ip1}
    Workers = {w1}
    Conns = {c1, c2}
    IpOf <- MCIpOf
    Config <- MCConfig
    MaxVersion = 5
    MaxReloads = 2
    MaxCert = 1
    TlsEnabled = TRUE
    PoolSize = 1
INVARIANTS
    StaleClientsNoticed
    ReloadAllOrNothing
PROPERTIES
    TlsNotOlderThanConfig
    ImplementsAdmissionControl
