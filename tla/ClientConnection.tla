------------------------- MODULE ClientConnection --------------------------
(***************************************************************************)
(* One client connection between accept and close: class ClientConnection  *)
(* (server.cpp) serving HTTP/1.1, with its phases, its request buffer, the *)
(* streamed request body, pipelining, keep-alive and the timeouts that     *)
(* enforce_client_timeouts drives.                                         *)
(*                                                                         *)
(* The bytes of a request are abstracted to units: some "part"s of a       *)
(* header, the "end" of it (which carries what the header says) and the    *)
(* "data" of a body.  What an upstream, a WebSocket peer or a request      *)
(* handler does is a choice.  HTTP/2 is disabled or not asked for.         *)
(***************************************************************************)
EXTENDS Integers, Sequences, SequencesExt

CONSTANTS
    max_request_bytes,              \* in units
    http_keep_alive_max_requests,
    request_timeout_seconds, header_timeout_seconds,
    body_timeout_seconds, idle_timeout_seconds,
    ReadSize,                       \* the size of the chunk recv and SSL_read fill
    RecordSize,                     \* the size of the largest TLS record
    MaxBody,                        \* the largest body a client announces
    MaxUnits                        \* Bound: what a client sends in all

ASSUME ConnectionAssumption ==
    /\ {max_request_bytes, http_keep_alive_max_requests, MaxBody, MaxUnits} \subseteq Nat
    /\ {request_timeout_seconds, header_timeout_seconds, body_timeout_seconds,
        idle_timeout_seconds, ReadSize, RecordSize} \subseteq Nat \ {0}

VARIABLES
    \* The client and the network.
    wire,                   \* units in the receive queue of the socket
    owed,                   \* data units of the announced body still to be sent
    sent,                   \* number of units sent
    requests,               \* number of headers the client has completed
    upgraded,               \* the client has asked for a WebSocket
    eof,                    \* the client has shut down its sending side
    \* The connection.
    tls,                    \* tls_context_holder_ is set
    phase_,
    pending,                \* decrypted units SSL_read has not returned yet
    in_read_loop,           \* read_tls_request has not met SSL_ERROR_WANT_READ yet
    request_buffer_,
    http1_body_stream_,     \* NoStream, or what the stream has and wants
    after_response,         \* the flags finish_response reads, written with each response
    reverse_proxy_keep_alive_,
    requests_served_,
    \* The clock: ages in seconds, Unset for time_point {}.
    last_activity_, request_started_at_, body_started_at_,
    waiting_for_body_,
    due,                    \* a second has passed without enforce_client_timeouts
    \* History.
    dispatched,             \* the requests that were dispatched, in order
    header_age, body_age    \* the ages of the incomplete header and body at hand

client == <<wire, owed, sent, requests, upgraded, eof>>
input == <<pending, in_read_loop>>
outcome == <<phase_, after_response, reverse_proxy_keep_alive_, requests_served_, dispatched>>
timers == <<request_started_at_, body_started_at_, waiting_for_body_>>
buffers == <<request_buffer_, http1_body_stream_>>
vars == <<client, tls, input, outcome, buffers, last_activity_, timers, due,
          header_age, body_age>>

ClientPhase == {"tls_handshake", "reading", "writing", "websocket", "websocket_proxy",
                "reverse_proxy", "tls_shutdown", "closed"}

Unset == -1

\* Ages are not told apart beyond this one.
MaxAge == Max({request_timeout_seconds, header_timeout_seconds, body_timeout_seconds,
               idle_timeout_seconds}) + 1

Ages == Unset .. MaxAge

(***************************************************************************)
(* What the end of a header says: a Content-Length, Transfer-Encoding:     *)
(* chunked (whose last unit is the last chunk), a WebSocket upgrade, or    *)
(* something analyze_header_frame or parse_request rejects.                *)
(***************************************************************************)
Framings == {"length", "chunked", "upgrade", "bad"}

\* id: the number of the request the unit belongs to.
Unit == [t : {"part", "end", "data", "junk"}, id : Nat, framing : Framings, n : 0 .. MaxBody]

Piece(t, id) == [t |-> t, id |-> id, framing |-> "length", n |-> 0]
End(framing, n, id) == [t |-> "end", id |-> id, framing |-> framing, n |-> n]

\* Http1BodyStreamState (id: history), and the pointer that holds none.
Streams == [id : Nat, received : Nat, content_length : Nat, max_body_bytes : Nat,
            chunked : BOOLEAN]
NoStream == [id |-> 0, received |-> 0, content_length |-> 0, max_body_bytes |-> 0,
             chunked |-> FALSE]

TypeOK ==
    /\ wire \in Seq(Unit) /\ owed \in 0 .. MaxBody /\ sent \in 0 .. MaxUnits
    /\ requests \in 0 .. MaxUnits /\ upgraded \in BOOLEAN /\ eof \in BOOLEAN
    /\ tls \in BOOLEAN
    /\ phase_ \in ClientPhase
    /\ pending \in Seq(Unit) /\ in_read_loop \in BOOLEAN
    /\ request_buffer_ \in Seq(Unit)
    /\ http1_body_stream_ \in Streams
    /\ after_response \in {"close", "keep_alive", "websocket", "websocket_proxy"}
    /\ reverse_proxy_keep_alive_ \in BOOLEAN
    /\ requests_served_ \in Nat
    /\ {last_activity_, request_started_at_, body_started_at_, header_age, body_age}
          \subseteq Ages
    /\ waiting_for_body_ \in BOOLEAN /\ due \in BOOLEAN
    /\ dispatched \in Seq(Nat)

\* reset
Init ==
    /\ wire = <<>> /\ owed = 0 /\ sent = 0 /\ requests = 0 /\ upgraded = FALSE /\ eof = FALSE
    /\ tls \in BOOLEAN
    /\ phase_ = IF tls THEN "tls_handshake" ELSE "reading"
    /\ pending = <<>> /\ in_read_loop = FALSE
    /\ request_buffer_ = <<>> /\ http1_body_stream_ = NoStream
    /\ after_response = "close" /\ reverse_proxy_keep_alive_ = FALSE
    /\ requests_served_ = 0
    /\ last_activity_ = 0 /\ request_started_at_ = Unset /\ body_started_at_ = Unset
    /\ waiting_for_body_ = FALSE /\ due = FALSE
    /\ dispatched = <<>> /\ header_age = Unset /\ body_age = Unset

\* History: how long the header, or the body, at hand has been incomplete.
Observe ==
    /\ header_age' = IF phase_' # "reading" \/ request_buffer_' = <<>> THEN Unset
                     ELSE IF header_age = Unset THEN 0 ELSE header_age
    /\ body_age' = IF phase_' # "reading" \/ http1_body_stream_' = NoStream THEN Unset
                   ELSE IF body_age = Unset THEN 0 ELSE body_age

----------------------------------------------------------------------------
(* The client writes well-framed requests, as slowly as it likes.          *)

Put(u) ==
    /\ sent < MaxUnits /\ ~eof /\ phase_ # "closed"
    /\ wire' = Append(wire, u)
    /\ sent' = sent + 1
    /\ UNCHANGED <<eof, tls, input, outcome, buffers, last_activity_, timers, due>>
    /\ Observe

SendHeaderPart ==
    /\ owed = 0 /\ ~upgraded
    /\ Put(Piece("part", requests + 1))
    /\ UNCHANGED <<owed, requests, upgraded>>

SendHeaderEnd(framing, n) ==
    /\ owed = 0 /\ ~upgraded
    /\ framing = "chunked" => n > 0
    /\ framing \in {"upgrade", "bad"} => n = 0
    /\ Put(End(framing, n, requests + 1))
    /\ owed' = n /\ requests' = requests + 1
    /\ upgraded' = (framing = "upgrade")

\* t = "junk": a chunk that is not well-formed.
SendBody(t) ==
    /\ owed > 0
    /\ Put(Piece(t, requests))
    /\ owed' = owed - 1
    /\ UNCHANGED <<requests, upgraded>>

SendFrame == upgraded /\ Put(Piece("data", requests)) /\ UNCHANGED <<owed, requests, upgraded>>

ShutDownSending ==
    /\ ~eof /\ phase_ # "closed"
    /\ eof' = TRUE
    /\ UNCHANGED <<wire, owed, sent, requests, upgraded, tls, input, outcome, buffers,
                   last_activity_, timers, due>>
    /\ Observe

----------------------------------------------------------------------------
(* Responses and dispatch.                                                 *)

\* set_response and its variants: what finish_response will do is settled here.
Respond(next) ==
    /\ phase_' = "writing"
    /\ after_response' = next
    /\ UNCHANGED reverse_proxy_keep_alive_

\* Faulty variant: one request more than http_keep_alive_max_requests.
keep_alive_allowed_off_by_one(served, wanted) ==
    wanted /\ served <= http_keep_alive_max_requests

keep_alive_allowed(served, wanted) == wanted /\ served < http_keep_alive_max_requests

(***************************************************************************)
(* dispatch_request, for the units of one request: refused (429, 403), or  *)
(* counted and answered by a handler, refused by one (500), or forwarded   *)
(* upstream.  A request made of the units of several is recorded as 0.     *)
(***************************************************************************)
IdOf(units) == IF \A k \in DOMAIN units : units[k].id = units[1].id THEN units[1].id ELSE 0

dispatch_request(id) ==
    /\ dispatched' = Append(dispatched, id)
    /\ \/ Respond("close") /\ UNCHANGED requests_served_
       \/ /\ requests_served_' = requests_served_ + 1
          /\ \E wanted \in BOOLEAN :
               LET keep == keep_alive_allowed(requests_served_ + 1, wanted)
               IN  \/ Respond(IF keep THEN "keep_alive" ELSE "close")
                   \/ Respond("close")
                   \/ /\ phase_' = "reverse_proxy"
                      /\ reverse_proxy_keep_alive_' = keep
                      /\ UNCHANGED after_response

----------------------------------------------------------------------------
(* Reading: append_request_bytes and what it calls.  The timers are passed *)
(* as the record t that append_request_bytes or finish_response has made.  *)

SetTimers(t) ==
    /\ request_started_at_' = t.started
    /\ body_started_at_' = t.body
    /\ waiting_for_body_' = t.waiting

\* The timers of a request that has been taken off the buffer.
Restarted(rest) ==
    [started |-> IF rest = <<>> THEN Unset ELSE 0, body |-> Unset, waiting |-> FALSE]

Rest(buf, n) == SubSeq(buf, n + 1, Len(buf))

\* Faulty variant: the connection survives a body it could not frame.
fail_http1_body_stream_keeps(t) ==
    /\ http1_body_stream_' = NoStream
    /\ request_buffer_' = <<>>
    /\ SetTimers([t EXCEPT !.body = Unset, !.waiting = FALSE])
    /\ Respond("keep_alive")
    /\ UNCHANGED <<requests_served_, dispatched>>

\* What has been buffered behind the body is dropped, and the connection will close.
fail_http1_body_stream(t) ==
    /\ http1_body_stream_' = NoStream
    /\ request_buffer_' = <<>>
    /\ SetTimers([t EXCEPT !.body = Unset, !.waiting = FALSE])
    /\ Respond("close")
    /\ UNCHANGED <<requests_served_, dispatched>>

(***************************************************************************)
(* process_http1_body_stream: the stream takes what it wants from buf.  It *)
(* fails on a malformed chunk, on a chunked body beyond max_body_bytes     *)
(* (all units but the last are data) and when the spool file cannot be     *)
(* written.                                                                *)
(***************************************************************************)
process_http1_body_stream(stream, buf, t) ==
    LET take == Min({stream.content_length - stream.received, Len(buf)})
        rest == Rest(buf, take)
        got == stream.received + take
        data == Min({got, stream.content_length - 1})
        malformed == /\ stream.chunked
                     /\ \/ \E k \in 1 .. take : buf[k].t = "junk"
                        \/ data > stream.max_body_bytes
        id == IF \A k \in 1 .. take : buf[k].id = stream.id THEN stream.id ELSE 0
    IN  \/ malformed /\ fail_http1_body_stream(t)
        \/ \* The spool file fails.
           /\ take > 0
           /\ http1_body_stream_' = NoStream /\ request_buffer_' = <<>>
           /\ SetTimers(t)
           /\ Respond("close")
           /\ UNCHANGED <<requests_served_, dispatched>>
        \/ /\ ~malformed /\ got < stream.content_length
           /\ http1_body_stream_' = [stream EXCEPT !.received = got, !.id = id]
           /\ request_buffer_' = rest
           /\ SetTimers(t)
           /\ phase_' = "reading"
           /\ UNCHANGED <<after_response, reverse_proxy_keep_alive_, requests_served_,
                          dispatched>>
        \/ \* finish_http1_body_stream
           /\ ~malformed /\ got = stream.content_length
           /\ http1_body_stream_' = NoStream
           /\ request_buffer_' = rest
           /\ SetTimers(Restarted(rest))
           /\ dispatch_request(id)

start_http1_body_stream(buf, header, t) ==
    LET end == buf[header]
        stream == [id |-> IdOf(SubSeq(buf, 1, header)), received |-> 0,
                   content_length |-> end.n,
                   max_body_bytes |-> IF max_request_bytes > header
                                        THEN max_request_bytes - header ELSE 0,
                   chunked |-> end.framing = "chunked"]
    IN  process_http1_body_stream(stream, Rest(buf, header),
            [t EXCEPT !.waiting = TRUE, !.body = IF t.body = Unset THEN 0 ELSE t.body])

(***************************************************************************)
(* try_handle_websocket_upgrade: refused (429, 403), not forwarded (500    *)
(* before it is counted, 502 or 503 after), forwarded (unless the early    *)
(* bytes overflow the tunnel) or answered by the echo endpoint.            *)
(***************************************************************************)
try_handle_websocket_upgrade(buf, header, t) ==
    LET rest == Rest(buf, header)
        Counted == requests_served_' = requests_served_ + 1
    IN  /\ SetTimers([t EXCEPT !.started = IF rest = <<>> THEN Unset ELSE 0])
        /\ dispatched' = Append(dispatched, IdOf(SubSeq(buf, 1, header)))
        /\ \/ Respond("close") /\ request_buffer_' = rest /\ UNCHANGED requests_served_
           \/ Respond("close") /\ request_buffer_' = <<>> /\ UNCHANGED requests_served_
           \/ Respond("close") /\ request_buffer_' = <<>> /\ Counted
           \/ Respond("websocket_proxy") /\ request_buffer_' = <<>> /\ Counted
           \/ /\ phase_' = "closed" /\ request_buffer_' = <<>> /\ Counted
              /\ UNCHANGED <<after_response, reverse_proxy_keep_alive_>>
           \/ Respond("websocket") /\ request_buffer_' = rest /\ Counted
        /\ UNCHANGED http1_body_stream_

frame_complete(buf, total) ==
    /\ request_buffer_' = Rest(buf, total)
    /\ SetTimers(Restarted(Rest(buf, total)))
    /\ dispatch_request(IdOf(SubSeq(buf, 1, total)))
    /\ UNCHANGED http1_body_stream_

\* The error frames of next_http1_request_frame; left is what they do not consume.
frame_error(left, t) ==
    /\ request_buffer_' = left
    /\ SetTimers(t)
    /\ Respond("close")
    /\ UNCHANGED <<http1_body_stream_, requests_served_, dispatched>>

frame_incomplete(buf, t) ==
    /\ request_buffer_' = buf
    /\ SetTimers([t EXCEPT !.waiting = FALSE])
    /\ phase_' = "reading"
    /\ UNCHANGED <<http1_body_stream_, after_response, reverse_proxy_keep_alive_,
                   requests_served_, dispatched>>

\* The length of the header at the head of buf; 0 when no end of it is there yet.
header_end(buf) == SelectInSeq(buf, LAMBDA u : u.t = "end")

\* Faulty variant: only complete headers are measured.
header_too_large_unchecked(buf, header) == header > max_request_bytes

\* A header that has not ended (header = 0) is measured with what there is of it.
header_too_large(buf, header) ==
    (IF header = 0 THEN Len(buf) ELSE header) > max_request_bytes

(***************************************************************************)
(* What next_http1_request_frame finds at the head of buf, and how much of *)
(* buf it takes: a refused header or a malformed chunked body takes the    *)
(* header, a request beyond max_request_bytes everything.                  *)
(***************************************************************************)
next_http1_request_frame(buf) ==
    LET header == header_end(buf)
        end == buf[header]
        total == header + end.n
        body == SubSeq(buf, header + 1, Min({total, Len(buf)}))
        malformed == end.framing = "chunked" /\ \E k \in DOMAIN body : body[k].t = "junk"
        size == IF end.framing = "chunked" THEN Min({Len(buf), total}) ELSE total
        Frame(state, consumed) == [state |-> state, consumed |-> consumed]
    IN  CASE header_too_large(buf, header)          -> Frame("error", header)
          [] header = 0 /\ ~header_too_large(buf, 0) -> Frame("incomplete", 0)
          [] OTHER ->
               IF end.framing = "bad" \/ malformed THEN Frame("error", header)
               ELSE IF size > max_request_bytes     THEN Frame("error", Len(buf))
               ELSE IF Len(buf) < total             THEN Frame("header_complete", header)
               ELSE Frame("complete", total)

process_buffered_request(buf, t) ==
    LET frame == next_http1_request_frame(buf)
        upgrade == frame.state = "complete" /\ buf[header_end(buf)].framing = "upgrade"
    IN  \/ frame.state = "incomplete" /\ frame_incomplete(buf, t)
        \/ frame.state = "error" /\ frame_error(Rest(buf, frame.consumed), t)
        \/ upgrade /\ try_handle_websocket_upgrade(buf, frame.consumed, t)
        \/ frame.state = "header_complete" /\ start_http1_body_stream(buf, frame.consumed, t)
        \/ frame.state = "complete" /\ ~upgrade /\ frame_complete(buf, frame.consumed)

\* Faulty variant: the timers start again with every chunk.
append_request_bytes_restarts(data) ==
    LET buf == request_buffer_ \o data
        t == [started |-> 0, body |-> body_started_at_, waiting |-> waiting_for_body_]
    IN  IF http1_body_stream_ # NoStream
          THEN process_http1_body_stream(http1_body_stream_, buf, t)
          ELSE process_buffered_request(buf, t)

append_request_bytes(data) ==
    LET buf == request_buffer_ \o data
        t == IF request_buffer_ = <<>>
               THEN [started |-> 0, body |-> Unset, waiting |-> FALSE]
               ELSE [started |-> request_started_at_, body |-> body_started_at_,
                     waiting |-> waiting_for_body_]
    IN  IF http1_body_stream_ # NoStream
          THEN process_http1_body_stream(http1_body_stream_, buf, t)
          ELSE process_buffered_request(buf, t)

\* One turn of read_plain_request.
Recv ==
    /\ phase_ = "reading" /\ ~tls /\ wire # <<>>
    /\ LET take == Min({ReadSize, Len(wire)})
       IN  wire' = Rest(wire, take) /\ append_request_bytes(SubSeq(wire, 1, take))
    /\ last_activity_' = 0
    /\ UNCHANGED <<owed, sent, requests, upgraded, eof, tls, input, due>>
    /\ Observe

\* One turn of read_tls_request: SSL_read takes a record off the socket when it
\* has none, and returns as much of it as fits the chunk.
SslRead ==
    /\ phase_ = "reading" /\ tls
    /\ in_read_loop \/ wire # <<>> \/ eof
    /\ \E size \in IF pending # <<>> THEN {0} ELSE 1 .. Min({RecordSize, Len(wire)}) :
         LET record == pending \o SubSeq(wire, 1, size)
             take == Min({ReadSize, Len(record)})
         IN  /\ wire' = Rest(wire, size)
             /\ pending' = Rest(record, take)
             /\ append_request_bytes(SubSeq(record, 1, take))
    /\ in_read_loop' = (phase_' = "reading")
    /\ last_activity_' = 0
    /\ UNCHANGED <<owed, sent, requests, upgraded, eof, tls, due>>
    /\ Observe

\* SSL_ERROR_WANT_READ
WantRead ==
    /\ in_read_loop /\ pending = <<>> /\ wire = <<>> /\ ~eof
    /\ in_read_loop' = FALSE
    /\ UNCHANGED <<client, tls, pending, outcome, buffers, last_activity_, timers, due>>
    /\ Observe

close_now == phase_' = "closed" /\ in_read_loop' = FALSE

\* Faulty variant: a WebSocket peer that shuts its sending side down is still active.
ReadEndHalfClose ==
    /\ phase_ \in {"reading", "websocket", "websocket_proxy"}
    /\ eof /\ wire = <<>> /\ pending = <<>>
    /\ IF phase_ = "reading"
         THEN close_now /\ UNCHANGED last_activity_
         ELSE last_activity_' = 0 /\ UNCHANGED <<phase_, in_read_loop>>
    /\ UNCHANGED <<client, tls, pending, after_response, reverse_proxy_keep_alive_,
                   requests_served_, dispatched, buffers, timers, due>>
    /\ Observe

\* The end of the stream, read as 0 bytes.
ReadEnd ==
    /\ phase_ \in {"reading", "websocket", "websocket_proxy"}
    /\ eof /\ wire = <<>> /\ pending = <<>>
    /\ close_now
    /\ UNCHANGED <<client, tls, pending, after_response, reverse_proxy_keep_alive_,
                   requests_served_, dispatched, buffers, last_activity_, timers, due>>
    /\ Observe

\* recv, send or SSL fails, or an event without EPOLLIN and EPOLLOUT is reported.
ConnectionFails ==
    /\ phase_ \notin {"reverse_proxy", "closed"}
    /\ close_now
    /\ UNCHANGED <<client, tls, pending, after_response, reverse_proxy_keep_alive_,
                   requests_served_, dispatched, buffers, last_activity_, timers, due>>
    /\ Observe

----------------------------------------------------------------------------
(* The other phases.                                                       *)

\* do_tls_handshake succeeds.
TlsAccepted ==
    /\ phase_ = "tls_handshake"
    /\ phase_' = "reading"
    /\ UNCHANGED <<client, tls, input, after_response, reverse_proxy_keep_alive_,
                   requests_served_, dispatched, buffers, last_activity_, timers, due>>
    /\ Observe

\* Faulty variant: the next pipelined request waits for the next byte of the client.
FinishKeepAliveIdle ==
    /\ phase_ = "writing" /\ after_response = "keep_alive"
    /\ phase_' = "reading"
    /\ last_activity_' = 0
    /\ SetTimers(Restarted(request_buffer_))
    /\ UNCHANGED <<client, tls, input, due, buffers, after_response, reverse_proxy_keep_alive_,
                   requests_served_, dispatched>>
    /\ Observe

\* write_response has sent everything; finish_response, in three cases.
FinishKeepAlive ==
    /\ phase_ = "writing" /\ after_response = "keep_alive"
    /\ last_activity_' = 0
    /\ process_buffered_request(request_buffer_, Restarted(request_buffer_))
    /\ UNCHANGED <<client, tls, input, due>>
    /\ Observe

\* Early bytes of the client are the peer's frames from here on.
FinishUpgrade ==
    /\ phase_ = "writing" /\ after_response \in {"websocket", "websocket_proxy"}
    /\ phase_' = after_response
    /\ after_response' = "close"
    /\ last_activity_' = 0
    /\ request_buffer_' = <<>>
    /\ UNCHANGED <<client, tls, input, http1_body_stream_, reverse_proxy_keep_alive_,
                   requests_served_, dispatched, timers, due>>
    /\ Observe

\* do_tls_shutdown may have to be repeated.
FinishClose ==
    /\ phase_ = "writing" /\ after_response = "close"
    /\ phase_' \in IF tls THEN {"tls_shutdown", "closed"} ELSE {"closed"}
    /\ UNCHANGED <<client, tls, input, after_response, reverse_proxy_keep_alive_,
                   requests_served_, dispatched, buffers, last_activity_, timers, due>>
    /\ Observe

TlsShutdownEnds ==
    /\ phase_ = "tls_shutdown"
    /\ phase_' = "closed"
    /\ UNCHANGED <<client, tls, input, after_response, reverse_proxy_keep_alive_,
                   requests_served_, dispatched, buffers, last_activity_, timers, due>>
    /\ Observe

\* An upstream answers, or the last attempt fails: 502 or 503.
ReverseProxyEnds ==
    /\ phase_ = "reverse_proxy"
    /\ Respond(IF reverse_proxy_keep_alive_ THEN "keep_alive" ELSE "close")
    /\ UNCHANGED <<client, tls, input, requests_served_, dispatched, buffers,
                   last_activity_, timers, due>>
    /\ Observe

\* handle_upstream: the upstream hangs up and no byte of it is readable.
UpstreamHangsUp ==
    /\ phase_ \in {"reverse_proxy", "websocket_proxy"}
    /\ phase_' = "closed"
    /\ UNCHANGED <<client, tls, input, after_response, reverse_proxy_keep_alive_,
                   requests_served_, dispatched, buffers, last_activity_, timers, due>>
    /\ Observe

\* Frames of the peer, or of a WebSocket upstream, pass through.
WebSocketTraffic ==
    /\ phase_ \in {"websocket", "websocket_proxy"}
    /\ wire' = <<>> /\ pending' = <<>>
    /\ last_activity_' = 0
    /\ UNCHANGED <<owed, sent, requests, upgraded, eof, tls, in_read_loop, outcome, buffers,
                   timers, due>>
    /\ Observe

----------------------------------------------------------------------------
(* Time: enforce_client_timeouts runs at least once a second.              *)

Older(age) == IF age = Unset THEN Unset ELSE Min({age + 1, MaxAge})

Tick ==
    /\ ~due /\ ~in_read_loop /\ phase_ # "closed"
    /\ due' = TRUE
    /\ last_activity_' = Older(last_activity_)
    /\ request_started_at_' = Older(request_started_at_)
    /\ body_started_at_' = Older(body_started_at_)
    /\ header_age' = Older(header_age) /\ body_age' = Older(body_age)
    /\ UNCHANGED <<client, tls, input, outcome, buffers, waiting_for_body_>>

body_timed_out ==
    waiting_for_body_ /\ body_started_at_ # Unset /\ body_started_at_ >= body_timeout_seconds

between_requests == requests_served_ > 0 /\ request_buffer_ = <<>>

request_timed_out ==
    /\ request_buffer_ # <<>> /\ request_started_at_ # Unset
    /\ \/ request_started_at_ >= request_timeout_seconds
       \/ ~waiting_for_body_ /\ request_started_at_ >= header_timeout_seconds

Silenced ==
    \/ phase_ = "tls_handshake" /\ last_activity_ >= request_timeout_seconds
    \/ phase_ \in {"websocket", "websocket_proxy"} /\ last_activity_ >= idle_timeout_seconds
    \/ /\ phase_ = "reading" /\ ~body_timed_out /\ between_requests
       /\ last_activity_ >= idle_timeout_seconds

Late == /\ phase_ = "reading"
        /\ body_timed_out \/ (~between_requests /\ request_timed_out)

\* expire_if_timed_out: 408 ...
TimeoutResponds ==
    /\ due /\ ~in_read_loop /\ Late
    /\ due' = FALSE
    /\ Respond("close")
    /\ UNCHANGED <<client, tls, input, requests_served_, dispatched, buffers,
                   last_activity_, timers>>
    /\ Observe

\* ... or no word (a reload may have disabled keep-alive as well) ...
TimeoutCloses ==
    /\ due /\ ~in_read_loop
    /\ Silenced \/ (phase_ = "reading" /\ ~body_timed_out /\ between_requests)
    /\ due' = FALSE
    /\ phase_' = "closed"
    /\ UNCHANGED <<client, tls, input, after_response, reverse_proxy_keep_alive_,
                   requests_served_, dispatched, buffers, last_activity_, timers>>
    /\ Observe

\* ... or nothing.
NoTimeout ==
    /\ due /\ ~in_read_loop /\ ~Silenced /\ ~Late
    /\ due' = FALSE
    /\ UNCHANGED <<client, tls, input, outcome, buffers, last_activity_, timers>>
    /\ Observe

----------------------------------------------------------------------------
Client ==
    \/ SendHeaderPart
    \/ \E framing \in Framings, n \in 0 .. MaxBody : SendHeaderEnd(framing, n)
    \/ \E t \in {"data", "junk"} : SendBody(t)
    \/ SendFrame \/ ShutDownSending

\* The steps of the worker that only the socket and the upstream can hold up.
Progress ==
    \/ Recv \/ SslRead \/ WantRead \/ ReadEnd
    \/ FinishKeepAlive \/ FinishUpgrade \/ FinishClose \/ TlsShutdownEnds
    \/ ReverseProxyEnds

\* When Progress is enabled.
CanProgress ==
    \/ phase_ \in {"writing", "tls_shutdown", "reverse_proxy"}
    \/ phase_ = "reading" /\ wire # <<>>
    \/ phase_ = "reading" /\ tls /\ pending # <<>> /\ (in_read_loop \/ eof)
    \/ in_read_loop /\ pending = <<>> /\ wire = <<>> /\ ~eof
    \/ /\ phase_ \in {"reading", "websocket", "websocket_proxy"}
       /\ eof /\ wire = <<>> /\ pending = <<>>

Expiry == TimeoutResponds \/ TimeoutCloses \/ NoTimeout

Closed == phase_ = "closed" /\ UNCHANGED vars

Next ==
    \/ Client \/ Progress \/ Tick \/ Expiry
    \/ TlsAccepted \/ ConnectionFails \/ UpstreamHangsUp \/ WebSocketTraffic
    \/ Closed

Safety == Init /\ [][Next]_vars

(***************************************************************************)
(* Fairness: the worker handles what epoll reports, the client does not    *)
(* stop reading for ever, an upstream attempt ends by its own timeout, and *)
(* the clock and enforce_client_timeouts go on.  Nothing is assumed of     *)
(* what the client sends.  The first conjunct is WF_vars(Progress) with    *)
(* ENABLED <<Progress>>_vars written out, which TLC evaluates far faster.  *)
(***************************************************************************)
Fairness ==
    /\ []<>~CanProgress \/ []<><<Progress>>_vars
    /\ WF_vars(Tick)
    /\ WF_vars(Expiry)

Spec == Safety /\ Fairness

----------------------------------------------------------------------------
(* Properties.                                                             *)

(***************************************************************************)
(* Pipelined requests are dispatched one after the other, each one once    *)
(* and made of its own units only, however they are cut into chunks,       *)
(* records, headers and streamed bodies: no byte of a body is ever parsed  *)
(* as a header, and after a framing error nothing is parsed at all.        *)
(***************************************************************************)
RequestsWholeAndInOrder == \A k \in DOMAIN dispatched : dispatched[k] = k

(***************************************************************************)
(* A connection serves at most http_keep_alive_max_requests requests (one, *)
(* when that is 0), local, forwarded and upgraded ones together.           *)
(***************************************************************************)
RequestCapRespected ==
    requests_served_ <= Max({1, http_keep_alive_max_requests})

(***************************************************************************)
(* A client that drips a header cannot hold the connection: an incomplete  *)
(* header is cut off at header_timeout_seconds, whatever was pipelined     *)
(* before it and however often the client sends another piece.             *)
(***************************************************************************)
HeaderTimeoutEnforced == header_age <= header_timeout_seconds

(***************************************************************************)
(* A connection that waits for bytes needs them: no complete header is     *)
(* left in the buffer of a connection that reads, and a body stream has    *)
(* taken everything there is.                                              *)
(***************************************************************************)
NothingLeftToParse ==
    phase_ = "reading" =>
      IF http1_body_stream_ # NoStream THEN request_buffer_ = <<>>
      ELSE \A k \in DOMAIN request_buffer_ : request_buffer_[k].t # "end"

(***************************************************************************)
(* max_request_bytes bounds what a connection buffers: at most that much   *)
(* while it waits for more, and one chunk beyond it while it answers.      *)
(***************************************************************************)
RequestBufferBounded ==
    Len(request_buffer_) <= max_request_bytes + (IF phase_ = "reading" THEN 0 ELSE ReadSize)

(***************************************************************************)
(* A client that has hung up is let go, in whatever phase it leaves the    *)
(* connection: in the middle of a header, of a body, of a response, of a   *)
(* handshake or of a forwarded request.                                    *)
(***************************************************************************)
HungUpClientReleased == eof ~> phase_ = "closed"

(***************************************************************************)
(* docs/PROGRESS.md:1342: "Body timeout enforcement now still applies      *)
(* after buffered bytes have been consumed into the accumulator/spool      *)
(* file."  A body that is still incomplete body_timeout_seconds after its  *)
(* header is cut off.                                                      *)
(***************************************************************************)
BodyTimeoutEnforced == body_age <= body_timeout_seconds

(***************************************************************************)
(* docs/ARCHITECTURE.md:629: "Basic request pipelining: pipelined bytes    *)
(* remain buffered and the next request is processed after the previous    *)
(* response is written."  A connection that has gone back to waiting for   *)
(* EPOLLIN holds no received byte that no event will announce.             *)
(***************************************************************************)
PipelinedBytesProcessed ==
    (phase_ = "reading" /\ ~in_read_loop) => (pending = <<>> \/ wire # <<>> \/ eof)
============================================================================
