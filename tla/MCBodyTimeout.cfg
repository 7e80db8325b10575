\* Two requests per connection, chunks of one or two units; every timeout different.
SPECIFICATION Safety
CONSTANTS
    max_request_bytes = 3
    http_keep_alive_max_requests = 2
    request_timeout_seconds = 2
    header_timeout_seconds = 1
    body_timeout_seconds = 2
    idle_timeout_seconds = 1
    ReadSize = 2
    RecordSize = 3
    MaxBody = 2
    MaxUnits = 4
INVARIANT
    BodyTimeoutEnforced
