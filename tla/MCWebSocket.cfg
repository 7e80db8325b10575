\* The first of two upstreams may fail, the second is reached over TLS.
\* The payload of a frame is at most two units, and one of two units has an
\* extended length.
SPECIFICATION UpgradeSpec
CHECK_DEADLOCK FALSE
CONSTANTS
    u1 = u1
    u2 = u2
    NoUpstream = NoUpstream
    Upstreams = {u1, u2}
    Https = {u2}
    Orders <- MCOrders
    client_tls = FALSE
    idle_timeout_seconds = 1
    websocket_proxy_buffer_limit = 2
    SocketRoom = 1
    MaxSent <- MCMaxSent
    websocket_max_frame_bytes = 2
    ExtendedLength = 2
    Frames <- MCFrames
    MaxFrames = 2
    EndpointRoom = 1
INVARIANTS
    TypeOK
    NothingLostInside
    OverflowIsReal
    NoLostWakeup
    AnswersFaithful
    NoFrameForgotten
PROPERTIES
    ImplementsDuplexChannel
    UnitsPassedOn
    AnswersDelivered
