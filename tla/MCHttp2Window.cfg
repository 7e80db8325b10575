CONSTANTS
    Fields = {"good", "bad"}
    Size <- MCSize
    DefaultTableSize = 2
    Streams = {1}
    BadFields = {"bad"}
    max_request_bytes = 3
    InitialWindow = 2
    http_keep_alive_max_requests = 2
    http2_enabled = TRUE
    Tls = TRUE
    DataSizes = {1, 2}
    PaddingSizes = {0, 1}
    TableSizes = {1}
    Strays = {}
    MaxSends = 3
SPECIFICATION Spec
INVARIANT WindowRestored
