\* Two requests per connection, reads of one or two units; bodies of at most two chunks.
SPECIFICATION MCSpec
CONSTANTS
    max_request_bytes = 3
    http_keep_alive_max_requests = 2
    request_timeout_seconds = 2
    header_timeout_seconds = 1
    body_timeout_seconds = 1
    idle_timeout_seconds = 1
    ReadSize = 2
    RecordSize = 3
    MaxBody = 2
    MaxUnits = 4
    Chunks <- MCChunks
    MaxChunks = 2
    Trailers <- MCTrailers
    max_body_bytes = 11
    memory_limit_ = 2
    max_line_bytes = 4
INVARIANTS
    RequestsWholeAndInOrder
    RequestCapRespected
    HeaderTimeoutEnforced
    NothingLeftToParse
    RequestBufferBounded
    ChunkedBodyAsSent
PROPERTY
    HungUpClientReleased
