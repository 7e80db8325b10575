-------------------------- MODULE WebSocketTunnel --------------------------
(***************************************************************************)
(* A client connection whose WebSocket upgrade goes to a reverse proxy     *)
(* virtual host (server.cpp): try_start_websocket_proxy sets the upstream  *)
(* up with blocking calls, the 101 response is written, and then bytes are *)
(* tunnelled both ways by the worker's epoll loop.  Every recv, send,      *)
(* SSL_read and SSL_write is one step, so that the peers move between the  *)
(* calls of one handler.                                                   *)
(*                                                                         *)
(* A unit stands for a run of bytes; the n-th unit of a party p is <<p,n>>.*)
(* The state of the circuit breakers is in ReverseProxy: here the upstreams*)
(* left to try are those reverse_proxy_upstream_available lets through.    *)
(***************************************************************************)
EXTENDS WebSocketSettings, Sequences

CONSTANTS
    Upstreams, NoUpstream,
    Https,                          \* the upstreams whose scheme is https
    Orders,                         \* the orders the upstreams may be tried in
    websocket_proxy_buffer_limit,
    SocketRoom,                     \* bound: units the kernel holds for a peer that does not read
    MaxSent                         \* bound: MaxSent[p], the units party p sends

Sides == {"client", "upstream"}
Parties == {"client"} \cup Upstreams
AnyCount == UNION {0 .. MaxSent[p] : p \in Parties}
Units == Parties \X AnyCount

ASSUME TunnelAssumption ==
    /\ NoUpstream \notin Parties /\ "client" \notin Upstreams
    /\ Https \subseteq Upstreams
    /\ Orders \subseteq Seq(Upstreams) \ {<<>>}
    /\ websocket_proxy_buffer_limit \in Nat \ {0}
    /\ SocketRoom \in Nat \ {0} /\ MaxSent \in [Parties -> Nat]

VARIABLES
    phase,
    left,           \* the upstreams still to be tried, the current one excepted
    peer,           \* the upstream websocket_upstream_fd_ is connected to
    stage,          \* how far connect_websocket_proxy_upstream has come
    buffer,         \* buffer[side]: websocket_proxy_upstream_to_client_ and its twin
    offset,         \* offset[side]: what of buffer[side] has been sent
    extra,          \* extra[side]: websocket_proxy_client_extra_events_ and its twin
    interest,       \* interest[side]: the events the descriptor is registered for
    task,           \* the handler in progress: the loop it is in, and on whose behalf
    retry,          \* the SSL_write to the upstream that must be repeated
    quiet,          \* seconds since last_activity_, up to the idle timeout
    cause,          \* history: why close_now was called
    sent,           \* sent[p]: the units p has written to its socket
    head,           \* the upstreams that have sent their response head
    gone,           \* the parties that have closed or reset their connection
    taken,          \* taken[p]: the units of p the server has received
    decrypted,      \* decrypted[side]: units OpenSSL has read from the socket, which epoll does not see
    wire,           \* wire[side]: the units handed to the kernel for that side
    drained         \* drained[side]: how many of them the side has read

network == <<sent, head, gone, drained>>
tunnel == <<buffer, offset, extra, interest, task, retry, quiet>>
carried == <<taken, decrypted, wire>>
setup == <<left, peer, stage>>
vars == <<phase, cause, carried, setup, tunnel, network>>

Phases == {"connecting", "writing", "websocket_proxy", "refused", "closed"}
Stages == {"tcp", "tls", "request", "head", "done"}
Causes == {"none", "peer", "limit", "idle", "epoll", "bad_retry"}
Jobs == {"idle", "read", "relay", "flush", "finish_client", "finish_upstream", "update",
         "last_flush"}

(***************************************************************************)
(* read      the loop of read_websocket_proxy_client or _upstream          *)
(* relay     that loop's flush to the other side                           *)
(* flush     the handler's flush to its own side                           *)
(* finish_client, finish_upstream   the flushes of finish_response         *)
(* update    update_websocket_proxy_events, at the end of every handler    *)
(* last_flush   finish_response's flush to the client after its own first  *)
(*              update_websocket_proxy_events has closed the connection    *)
(***************************************************************************)
Idle == [job |-> "idle", side |-> "client"]

Other(side) == IF side = "client" THEN "upstream" ELSE "client"

\* The party at the other end of a side's socket.
Party(side) == IF side = "client" THEN "client" ELSE peer

Tls(side) == IF side = "client" THEN client_tls ELSE peer \in Https

Unsent(side) == SubSeq(buffer[side], offset[side] + 1, Len(buffer[side]))

\* What waits in the receive buffer of a side's socket.
Waiting(side) == sent[Party(side)] - taken[Party(side)]

Room(side) == SocketRoom - (Len(wire[side]) - drained[side])

\* The units first .. last of a party.
Stretch(p, first, last) == [i \in 1 .. last - first + 1 |-> <<p, first + i - 1>>]

(***************************************************************************)
(* The types and sizes of the tunnel's state.  No offset is beyond the end *)
(* of its buffer, which the flushes and append_websocket_proxy_buffer each *)
(* reset on their own, no buffer is longer than its limit, sent bytes that *)
(* have not been cut off included, and no socket holds more than it has    *)
(* room for.                                                               *)
(***************************************************************************)
TypeOK ==
    /\ phase \in Phases /\ cause \in Causes
    /\ left \in Seq(Upstreams) /\ peer \in Upstreams \cup {NoUpstream} /\ stage \in Stages
    /\ buffer \in [Sides -> Seq(Units)] /\ offset \in [Sides -> Nat]
    /\ extra \in [Sides -> SUBSET Events] /\ interest \in [Sides -> SUBSET Events]
    /\ task \in [job : Jobs, side : Sides]
    /\ retry \in {"none", "same", "moved"} /\ quiet \in 0 .. idle_timeout_seconds
    /\ sent \in [Parties -> AnyCount] /\ taken \in [Parties -> AnyCount]
    /\ head \in SUBSET Upstreams /\ gone \in SUBSET Parties
    /\ wire \in [Sides -> Seq(Units)] /\ drained \in [Sides -> Nat]
    /\ decrypted \in [Sides -> AnyCount]
    /\ \A side \in Sides :
         /\ offset[side] <= Len(buffer[side])
         /\ Len(buffer[side]) <= websocket_proxy_buffer_limit
         /\ drained[side] <= Len(wire[side]) /\ Len(wire[side]) <= drained[side] + SocketRoom

\* request_buffer_ holds what the client sent after its upgrade request.
Init ==
    /\ phase = "connecting" /\ cause = "none"
    /\ \E order \in Orders : left = Tail(order) /\ peer = Head(order)
    /\ stage = "tcp"
    /\ buffer = [side \in Sides |-> <<>>] /\ offset = [side \in Sides |-> 0]
    /\ extra = [side \in Sides |-> {}] /\ interest = [side \in Sides |-> {}]
    /\ task = Idle /\ retry = "none" /\ quiet = 0
    /\ \E early \in 0 .. MaxSent["client"] : \E held \in IF client_tls THEN 0 .. early ELSE {0} :
         /\ sent = [p \in Parties |-> IF p = "client" THEN early ELSE 0]
         /\ taken = [p \in Parties |-> IF p = "client" THEN early - held ELSE 0]
         /\ decrypted = [client |-> held, upstream |-> 0]
    /\ head = {} /\ gone = {}
    /\ wire = [side \in Sides |-> <<>>] /\ drained = [side \in Sides |-> 0]

----------------------------------------------------------------------------
(***************************************************************************)
(* The peers and the network.                                              *)
(***************************************************************************)

\* An upstream writes nothing before its response head.
PeerSends(p) ==
    /\ p \notin gone /\ sent[p] < MaxSent[p]
    /\ p \in head \cup {"client"}
    /\ sent' = [sent EXCEPT ![p] = sent[p] + 1]
    /\ UNCHANGED <<phase, cause, carried, setup, tunnel, head, gone, drained>>

UpstreamAnswers(u) ==
    /\ u = peer /\ stage = "head" /\ u \notin gone \cup head
    /\ head' = head \cup {u}
    /\ UNCHANGED <<phase, cause, carried, setup, tunnel, sent, gone, drained>>

PeerReads(side) ==
    /\ drained[side] < Len(wire[side])
    /\ drained' = [drained EXCEPT ![side] = drained[side] + 1]
    /\ UNCHANGED <<phase, cause, carried, setup, tunnel, sent, head, gone>>

PeerLeaves(p) ==
    /\ p \notin gone
    /\ p = "client" \/ p = peer
    /\ gone' = gone \cup {p}
    /\ UNCHANGED <<phase, cause, carried, setup, tunnel, sent, head, drained>>

\* Time passes between two events.
Tick ==
    /\ phase = "websocket_proxy" /\ task = Idle /\ quiet < idle_timeout_seconds
    /\ quiet' = quiet + 1
    /\ UNCHANGED <<phase, cause, carried, setup, network,
                   buffer, offset, extra, interest, task, retry>>

----------------------------------------------------------------------------
(***************************************************************************)
(* close_now: the upstream's descriptor is removed from epoll and closed,  *)
(* the worker then closes the client's.                                    *)
(***************************************************************************)
close_and(why, next) ==
    /\ phase' = "closed" /\ cause' = why
    /\ task' = next /\ interest' = [side \in Sides |-> {}]
    /\ UNCHANGED setup

\* The handler returns after it.
close_now(why) == close_and(why, Idle)

(***************************************************************************)
(* Setting the upstream up.  Each stage waits in poll with a timeout of    *)
(* its own; the worker does nothing else meanwhile.                        *)
(***************************************************************************)
Enter(next) ==
    /\ phase = "connecting"
    /\ stage' = next
    /\ UNCHANGED <<phase, cause, carried, left, peer, tunnel, network>>

\* connect_websocket_proxy_tcp
TcpConnected == stage = "tcp" /\ Enter(IF peer \in Https THEN "tls" ELSE "request")

\* connect_websocket_proxy_tls
TlsConnected == stage = "tls" /\ Enter("request")

\* write_websocket_proxy_plain, write_websocket_proxy_tls
RequestWritten == stage = "request" /\ Enter("head")

(***************************************************************************)
(* The catch block of try_start_websocket_proxy: any stage may fail or     *)
(* time out, the answer may not be a valid 101, and epoll may refuse the   *)
(* descriptor after the answer has been read and the buffers were filled.  *)
(* The next upstream is tried, or the client is told 502.                  *)
(***************************************************************************)
next_upstream ==
    /\ \/ left = <<>> /\ phase' = "refused" /\ UNCHANGED setup
       \/ left # <<>> /\ phase' = phase /\ peer' = Head(left) /\ stage' = "tcp" /\ left' = Tail(left)
    /\ decrypted' = [decrypted EXCEPT !["upstream"] = 0]

\* Faulty variant: the buffers are not cleared.
attempt_failed_keeping(queued) == next_upstream /\ buffer' = queued /\ UNCHANGED offset

attempt_failed(queued) ==
    /\ next_upstream
    /\ buffer' = [side \in Sides |-> <<>>] /\ offset' = [side \in Sides |-> 0]

AttemptFails ==
    /\ phase = "connecting"
    /\ attempt_failed(buffer)
    /\ UNCHANGED <<cause, taken, wire, extra, interest, task, retry, quiet, network>>

\* Faulty variant: the offset is reset, the bytes that were sent stay.
compact_offset_only(side) == buffer[side]

compact_websocket_proxy_buffer(side) == Unsent(side)

\* Faulty variant: what has been sent counts as well.
fits_uncompacted(side, n) == Len(buffer[side]) + n <= websocket_proxy_buffer_limit

\* append_websocket_proxy_buffer compacts the buffer first.
fits(side, n) == Len(Unsent(side)) + n <= websocket_proxy_buffer_limit

(***************************************************************************)
(* A valid 101 has been read, and n units with it.  Those and the client's *)
(* early bytes are queued, the upstream is registered with epoll and the   *)
(* 101 response is set.  The rest of the TLS record the head ended in      *)
(* stays in OpenSSL.                                                       *)
(***************************************************************************)
UpstreamAgrees(n) ==
    LET early  == taken["client"]
        queued == [client   |-> buffer["client"] \o Stretch(peer, 1, n),
                   upstream |-> buffer["upstream"] \o Stretch("client", 1, early)]
    IN  /\ phase = "connecting" /\ stage = "head" /\ peer \in head
        /\ n \in 0 .. Waiting("upstream")
        /\ taken' = [taken EXCEPT ![peer] = n]
        /\ \/ /\ fits("client", n) /\ fits("upstream", early)
              /\ buffer' = queued
              /\ \E held \in IF peer \in Https THEN 0 .. Waiting("upstream") - n ELSE {0} :
                   decrypted' = [decrypted EXCEPT !["upstream"] = held]
              /\ phase' = "writing" /\ stage' = "done"
              /\ interest' = [client   |-> {"OUT"},
                              upstream |-> {"IN"} \cup (IF early = 0 THEN {} ELSE {"OUT"})]
              /\ UNCHANGED <<cause, left, peer, task, offset>>
           \/ /\ ~(fits("client", n) /\ fits("upstream", early))
              /\ close_now("limit")
              /\ UNCHANGED <<buffer, offset, decrypted>>
           \/ /\ fits("client", n) /\ fits("upstream", early)
              /\ attempt_failed(queued)
              /\ UNCHANGED <<cause, interest, task>>
        /\ UNCHANGED <<wire, extra, retry, quiet, network>>

----------------------------------------------------------------------------
(***************************************************************************)
(* write_response and finish_response: until the 101 is written the events *)
(* of the upstream are ignored, and finish_response then begins with an    *)
(* update of the events.                                                   *)
(***************************************************************************)
\* Faulty variant: only the descriptor whose event was handled.
update_websocket_proxy_events_one ==
    interest' = [interest EXCEPT ![task.side] =
                   {"IN"} \cup extra[task.side]
                          \cup (IF buffer[task.side] = <<>> THEN {} ELSE {"OUT"})]

update_websocket_proxy_events ==
    interest' = [side \in Sides |->
                   {"IN"} \cup extra[side] \cup (IF buffer[side] = <<>> THEN {} ELSE {"OUT"})]

ResponseWritten ==
    /\ phase = "writing"
    /\ phase' = "websocket_proxy"
    /\ update_websocket_proxy_events
    /\ task' = [job |-> "finish_client", side |-> "client"]
    /\ quiet' = 0
    /\ UNCHANGED <<cause, carried, setup, buffer, offset, extra, retry, network>>

\* The client is gone before the 101 is written.
ResponseFails ==
    /\ phase = "writing" /\ "client" \in gone
    /\ close_now("peer")
    /\ UNCHANGED <<carried, buffer, offset, extra, retry, quiet, network>>

\* epoll refuses the first update of finish_response.  The client's socket stays
\* open until the worker releases the connection, and finish_response does not ask
\* whether it is closed before it flushes to the client.
FirstUpdateFails ==
    /\ phase = "writing"
    /\ close_and("epoll", [job |-> "last_flush", side |-> "client"])
    /\ quiet' = 0
    /\ UNCHANGED <<carried, buffer, offset, extra, retry, network>>

----------------------------------------------------------------------------
(***************************************************************************)
(* The events of a side's descriptor: handle and handle_upstream.          *)
(***************************************************************************)
Readable(side) ==
    "IN" \in interest[side] /\ (Waiting(side) > decrypted[side] \/ Party(side) \in gone)
Writable(side) == "OUT" \in interest[side] /\ Room(side) > 0

WakeUp(side) ==
    /\ phase = "websocket_proxy" /\ task = Idle
    /\ \/ Readable(side) /\ task' = [job |-> "read", side |-> side]
       \/ ~Readable(side) /\ Writable(side) /\ task' = [job |-> "flush", side |-> side]
    /\ UNCHANGED <<phase, cause, carried, setup, network,
                   buffer, offset, extra, interest, retry, quiet>>

\* An error or a hangup is reported without anything to read or to write.
HangUp(side) ==
    /\ phase = "websocket_proxy" \/ (phase = "writing" /\ side = "client")
    /\ task = Idle /\ Party(side) \in gone
    /\ close_now("peer")
    /\ UNCHANGED <<carried, buffer, offset, extra, retry, quiet, network>>

\* expire_if_timed_out
Expire ==
    /\ phase = "websocket_proxy" /\ task = Idle /\ quiet >= idle_timeout_seconds
    /\ close_now("idle")
    /\ UNCHANGED <<carried, buffer, offset, extra, retry, quiet, network>>

Reading(side) == phase = "websocket_proxy" /\ task = [job |-> "read", side |-> side]

(***************************************************************************)
(* recv or SSL_read returns n units, which are queued for the other side.  *)
(* A write to an https upstream that must be repeated is lost when its     *)
(* bytes move: compacting moves them, the append may.                      *)
(***************************************************************************)
Receive(side, n) ==
    LET to    == Other(side)
        first == taken[Party(side)] + 1
        units == Stretch(Party(side), first, first + n - 1)
    IN  /\ Reading(side) /\ n \in 1 .. Waiting(side)
        /\ taken' = [taken EXCEPT ![Party(side)] = first + n - 1]
        /\ decrypted' = [decrypted EXCEPT ![side] = IF n >= decrypted[side] THEN 0 ELSE decrypted[side] - n]
        /\ extra' = [extra EXCEPT ![side] = {}] /\ quiet' = 0
        /\ buffer' = [buffer EXCEPT ![to] =
                        compact_websocket_proxy_buffer(to) \o (IF fits(to, n) THEN units ELSE <<>>)]
        /\ offset' = [offset EXCEPT ![to] = 0]
        /\ \/ /\ fits(to, n)
              /\ task' = [task EXCEPT !.job = "relay"]
              /\ \/ to = "upstream" /\ retry = "same" /\ retry' = "moved"
                 \/ ~(to = "upstream" /\ retry = "same" /\ offset[to] > 0) /\ retry' = retry
              /\ UNCHANGED <<phase, cause, interest, setup>>
           \/ ~fits(to, n) /\ close_now("limit") /\ UNCHANGED retry
        /\ UNCHANGED <<wire, network>>

\* The socket is empty; SSL_read may ask for either event.
ReceiveBlocked(side) ==
    /\ Reading(side) /\ Waiting(side) = 0 /\ Party(side) \notin gone
    /\ \E wants \in Wants(Tls(side)) :
         extra' = [extra EXCEPT ![side] = wants]
    /\ task' = [task EXCEPT !.job = "flush"]
    /\ UNCHANGED <<phase, cause, carried, setup, network,
                   buffer, offset, interest, retry, quiet>>

\* End of stream, or an error: what is still queued for the other side is dropped.
ReceiveEnds(side) ==
    /\ Reading(side) /\ Party(side) \in gone
    /\ close_now("peer")
    /\ UNCHANGED <<carried, buffer, offset, extra, retry, quiet, network>>

----------------------------------------------------------------------------
(***************************************************************************)
(* flush_websocket_proxy_client and flush_websocket_proxy_upstream.        *)
(***************************************************************************)
Flushing(side) ==
    \/ /\ phase = "websocket_proxy"
       /\ \/ task = [job |-> "relay", side |-> Other(side)]
          \/ task = [job |-> "flush", side |-> side]
          \/ task.job = "finish_client" /\ side = "client"
          \/ task.job = "finish_upstream" /\ side = "upstream"
    \/ task.job = "last_flush" /\ side = "client"

next_task ==
    [task EXCEPT !.job = CASE task.job = "relay"           -> "read"
                           [] task.job = "finish_client"   -> "finish_upstream"
                           [] task.job = "last_flush"      -> "idle"
                           [] OTHER                        -> "update"]

Repeats(side) == side = "upstream" /\ Tls(side) /\ retry # "none"

Transmit(side, n) ==
    /\ Flushing(side) /\ n \in 1 .. Len(Unsent(side)) /\ n <= Room(side)
    /\ ~(Repeats(side) /\ retry = "moved")
    /\ wire' = [wire EXCEPT ![side] = wire[side] \o SubSeq(Unsent(side), 1, n)]
    /\ offset' = [offset EXCEPT ![side] = offset[side] + n]
    /\ extra' = [extra EXCEPT ![side] = {}] /\ quiet' = 0
    /\ retry' = IF side = "upstream" THEN "none" ELSE retry
    /\ UNCHANGED <<phase, cause, taken, decrypted, setup, network, buffer, interest, task>>

\* The socket is full: the handler goes on, the rest stays queued.
TransmitBlocked(side) ==
    /\ Flushing(side) /\ Unsent(side) # <<>> /\ Room(side) <= 0
    /\ ~(Repeats(side) /\ retry = "moved")
    /\ \E wants \in Wants(Tls(side)) :
         extra' = [extra EXCEPT ![side] = IF Tls(side) THEN wants ELSE extra[side]]
    /\ retry' = IF side = "upstream" /\ Tls(side) THEN "same" ELSE retry
    /\ task' = next_task
    /\ UNCHANGED <<phase, cause, carried, setup, network, buffer, offset, interest, quiet>>

\* Faulty variant: the offset of the bytes that were sent is kept.
TransmittedKeepsOffset(side) ==
    /\ Flushing(side) /\ Unsent(side) = <<>>
    /\ buffer' = [buffer EXCEPT ![side] = <<>>]
    /\ task' = next_task
    /\ UNCHANGED <<phase, cause, carried, setup, network, offset, extra, interest, retry, quiet>>

Transmitted(side) ==
    /\ Flushing(side) /\ Unsent(side) = <<>>
    /\ buffer' = [buffer EXCEPT ![side] = <<>>] /\ offset' = [offset EXCEPT ![side] = 0]
    /\ task' = next_task
    /\ UNCHANGED <<phase, cause, carried, setup, network, extra, interest, retry, quiet>>

(***************************************************************************)
(* The peer is gone; or OpenSSL refuses to repeat a write from another     *)
(* address: SSL_MODE_ACCEPT_MOVING_WRITE_BUFFER is set for the client and  *)
(* for HTTP upstreams, not for this one.                                   *)
(***************************************************************************)
TransmitFails(side) ==
    /\ Flushing(side) /\ Unsent(side) # <<>>
    /\ \/ Party(side) \in gone /\ close_now("peer")
       \/ Repeats(side) /\ retry = "moved" /\ close_now("bad_retry")
    /\ UNCHANGED <<carried, buffer, offset, extra, retry, quiet, network>>

----------------------------------------------------------------------------
EndHandler ==
    /\ phase = "websocket_proxy" /\ task.job = "update"
    /\ update_websocket_proxy_events
    /\ task' = Idle
    /\ UNCHANGED <<phase, cause, carried, setup, network, buffer, offset, extra, retry, quiet>>

\* epoll_ctl refuses.
EndHandlerFails ==
    /\ phase = "websocket_proxy" /\ task.job = "update"
    /\ close_now("epoll")
    /\ UNCHANGED <<carried, buffer, offset, extra, retry, quiet, network>>

----------------------------------------------------------------------------
Peers ==
    \/ \E p \in Parties : PeerSends(p) \/ PeerLeaves(p)
    \/ \E u \in Upstreams : UpstreamAnswers(u)
    \/ \E side \in Sides : PeerReads(side)
    \/ Tick

Setup ==
    \/ TcpConnected \/ TlsConnected \/ RequestWritten \/ AttemptFails
    \/ \E n \in AnyCount : UpstreamAgrees(n)
    \/ ResponseWritten \/ ResponseFails \/ FirstUpdateFails

\* One step of the handler in progress.
Handler ==
    \/ \E side \in Sides :
         \/ \E n \in AnyCount : Receive(side, n) \/ Transmit(side, n)
         \/ ReceiveBlocked(side) \/ ReceiveEnds(side)
         \/ TransmitBlocked(side) \/ Transmitted(side) \/ TransmitFails(side)
    \/ EndHandler \/ EndHandlerFails

Next ==
    \/ Peers
    \/ Setup
    \/ Handler
    \/ \E side \in Sides : WakeUp(side) \/ HangUp(side)
    \/ Expire

\* Handlers run to their end; epoll reports every descriptor that stays ready.
Fairness ==
    /\ WF_vars(Handler)
    /\ WF_vars(ResponseWritten)
    /\ \A side \in Sides : SF_vars(WakeUp(side))

Safety == Init /\ [][Next]_vars

Spec == Safety /\ Fairness

----------------------------------------------------------------------------
\* The connection has not been closed, or the handler that closed it goes on.
carrying == phase \notin {"closed", "refused"} \/ task.job = "last_flush"

(***************************************************************************)
(* The tunnel is a DuplexChannel: what is handed to a socket is what the   *)
(* other end sent, whole and in order from its first unit, early bytes and *)
(* bytes that came with the 101 included, and never what an upstream that  *)
(* was given up (server.cpp:3658) had sent.  The channel is closed when    *)
(* the handler that called close_now has ended: finish_response still      *)
(* flushes to the client when epoll has refused its first update           *)
(* (server.cpp:4244-4247), and nothing else is delivered after close_now.  *)
(***************************************************************************)
Channel == INSTANCE DuplexChannel WITH
    link <- peer, delivered <- wire, open <- carrying

ImplementsDuplexChannel == Channel!Spec

(***************************************************************************)
(* From the 101 until the last handler has ended no unit that was received *)
(* is lost inside the server: it is on the wire or in the buffer, in its   *)
(* place.                                                                  *)
(***************************************************************************)
NothingLostInside ==
    phase # "connecting" /\ carrying =>
      \A side \in Sides :
        wire[side] \o Unsent(side)
           = Stretch(Party(Other(side)), 1, taken[Party(Other(side))])

(***************************************************************************)
(* A tunnel is closed for its buffer limit (server.cpp:3576) only when     *)
(* more units than that were received for one side and not passed on.      *)
(***************************************************************************)
OverflowIsReal ==
    cause = "limit" =>
      \E side \in Sides :
        taken[Party(Other(side))] - Len(wire[side]) > websocket_proxy_buffer_limit

(***************************************************************************)
(* Between two events no queued byte waits for an event its descriptor is  *)
(* not registered for, whichever side's handler queued it.                 *)
(***************************************************************************)
NoLostWakeup ==
    phase = "websocket_proxy" /\ task = Idle =>
      \A side \in Sides :
        /\ "IN" \in interest[side]
        /\ Unsent(side) # <<>> => "OUT" \in interest[side]

(***************************************************************************)
(* As long as an end keeps reading, all that the other end has sent is     *)
(* passed on in the end (each sends a bounded number of units), or the     *)
(* tunnel is closed: no unit is stuck in a buffer or in a socket.  Units   *)
(* that OpenSSL read ahead with the head of the 101, or with the upgrade   *)
(* request, are the exception: they wait until the sender writes again.    *)
(***************************************************************************)
AllPassedOn(side) ==
    phase = "websocket_proxy" =>
      Len(wire[side]) + decrypted[Other(side)] = sent[Party(Other(side))]

UnitsPassedOn ==
    \A side \in Sides : []<>(Room(side) > 0) => []<>AllPassedOn(side)
============================================================================
