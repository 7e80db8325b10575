---------------------------- MODULE Http2Session ----------------------------
(***************************************************************************)
(* An HTTP/2 connection: ServerSession (http2_session.cpp) with the part   *)
(* of ClientConnection (server.cpp) that drives it, and a client.  The     *)
(* object is pooled: several connections use it one after the other.       *)
(*                                                                         *)
(* Frames are whole: a frame that is cut waits in request_buffer_ until    *)
(* its rest arrives.  Each frame the session handles is one step.  The     *)
(* client sends frames before it has seen what the server made of earlier  *)
(* ones.                                                                   *)
(***************************************************************************)
EXTENDS Hpack, SequencesExt

CONSTANTS
    Streams,                        \* the stream ids the client uses
    BadFields,                      \* fields build_request refuses
    max_request_bytes,              \* in units of header instructions and body
    InitialWindow,                  \* 65535 octets
    http_keep_alive_max_requests,
    http2_enabled,
    Tls,                            \* HTTP/2 may have been agreed on in a TLS handshake
    DataSizes, PaddingSizes,        \* the DATA frames of the client
    TableSizes,                     \* the table sizes it may announce or choose
    Strays,                         \* other sequences of frames it may send
    MaxSends                        \* bound of what a client sends

ASSUME SessionAssumption ==
    /\ Streams \subseteq {n \in Nat : n % 2 = 1} /\ BadFields \subseteq Fields
    /\ max_request_bytes \in Nat /\ InitialWindow \in Nat
    /\ http_keep_alive_max_requests \in Nat /\ http2_enabled \in BOOLEAN
    /\ Tls \in BOOLEAN
    /\ DataSizes \subseteq Nat /\ PaddingSizes \subseteq Nat /\ TableSizes \subseteq Nat
    /\ MaxSends \in Nat

VARIABLES
    phase_,
    busy,                           \* process_buffered_request runs
    request_buffer_,                \* the whole frames in it
    output,                         \* the frames that are being written
    keep_alive_after_response_,
    http2_active_,
    last_client_stream_id_,
    connection_inbound_window_,
    decoder_,
    pending_headers_,               \* << >> or the one header block that is not complete
    streams_,                       \* streams_[id] of every open stream
    requests_served_,
    goaway,                         \* history: why the connection was given up
    dispatched,                     \* history: the requests given to a handler
    unsynced,                       \* history: the client's table is no longer the decoder's
    flying,                         \* the frames on their way to the server
    sends,
    asked,                          \* asked[id]: what the client has sent on a stream
    encoder,                        \* the client's table
    window,                         \* the client's view of the connection window
    answered                        \* answered[id]: how often a stream has been answered, and
                                    \* how often reset

session_data == <<last_client_stream_id_, connection_inbound_window_, decoder_,
                  pending_headers_, streams_>>
session == <<http2_active_, session_data>>
connection == <<phase_, busy, output, keep_alive_after_response_, requests_served_, goaway>>
history == <<dispatched, unsynced>>
client == <<flying, sends, asked, encoder, window, answered>>
vars == <<connection, request_buffer_, session, history, client>>

ClientPhase == {"reading", "writing", "closed"}

(***************************************************************************)
(* Frames.  Those of a client's requests have the id of one of its         *)
(* streams; an even id belongs to the connection or is an error.           *)
(***************************************************************************)
Ignored == {"window_update", "priority", "ack"}
HandledTypes == {"settings", "ping", "goaway", "rst_stream", "headers", "data", "push_promise"} \cup Ignored
FrameTypes == HandledTypes \cup {"preface", "http1", "continuation", "malformed"}

\* A SETTINGS frame without SETTINGS_HEADER_TABLE_SIZE.
Unset == -1

Frames ==
    [type : FrameTypes, id : Streams \cup {n \in Nat : n % 2 = 0}, end_stream : BOOLEAN,
     end_headers : BOOLEAN, block : Seq(Instructions), data : Nat, padding : Nat,
     bad_padding : BOOLEAN, value : Nat \cup {Unset}]

ASSUME StraysAssumption == Strays \subseteq Seq(Frames)

\* Stray frames with which a client asks nothing: they complete no header block, and
\* their DATA is refused.
StraysSayNothing ==
    \A frames \in Strays : \A i \in DOMAIN frames :
       /\ frames[i].type = "headers" =>
            frames[i].id % 2 = 0 \/ frames[i].bad_padding \/ ~frames[i].end_headers
       /\ frames[i].type = "continuation" /\ frames[i].end_headers =>
            \A j \in 1 .. i - 1 : frames[j].type # "headers"
       /\ frames[i].type = "data" => frames[i].bad_padding \/ frames[i].data > InitialWindow

Frame(type, id) ==
    [type |-> type, id |-> id, end_stream |-> FALSE, end_headers |-> TRUE,
     block |-> <<>>, data |-> 0, padding |-> 0, bad_padding |-> FALSE, value |-> 0]

\* A reference to a table is shorter than the rest.
block_size(block) == Total([i \in DOMAIN block |-> IF block[i].op = "index" THEN 1 ELSE 2])

frame_size(frame) == block_size(frame.block) + frame.data + frame.padding

\* What request_buffer_ holds.
buffered(frames) == Total([i \in DOMAIN frames |-> frame_size(frames[i])])

\* The payload of DATA frames, padding left out.
payload(frames) == Total([i \in DOMAIN frames |-> frames[i].data])

\* What the server writes.
Written(type, id, n) == [type |-> type, id |-> id, n |-> n]
Update(id, n) == Written("window_update", id, n)
Reset(id, why) == Written("rst_stream", id, why)
Response(id) == Written("response", id, 0)
Timeout == Written("408", 0, 0)
Goaway == Written("goaway", 0, 0)
Notice == Written("settings or ping", 0, 0)

(***************************************************************************)
(* What a client may open with.  Over TLS HTTP/2 has been agreed on before *)
(* (http2_tls_selected_), and may yet not follow; what opens a plain       *)
(* connection without a preface is HTTP/1.1 and left to ClientConnection.  *)
(***************************************************************************)
ProperOpening == <<Frame("preface", 0), Frame("settings", 0)>>

Openings ==
    {ProperOpening, <<Frame("preface", 0), Frame("ping", 0)>>}
      \cup (IF Tls THEN {<<Frame("http1", 0)>>} ELSE {})

\* Another opening is refused, whatever follows it.
SendsAfter(opening) == IF opening = ProperOpening THEN 0 ELSE MaxSends

NothingAsked == [fields |-> <<>>, data |-> 0, begun |-> FALSE, ended |-> FALSE, dropped |-> FALSE]

Unanswered == [response |-> 0, rst_stream |-> 0]

(***************************************************************************)
(* The types of the session and of its client.  The dynamic table is never *)
(* larger than its limit (evict_dynamic), bodies and windows keep to       *)
(* theirs (handle_data_frame).                                             *)
(***************************************************************************)
SessionTypeOK ==
    /\ phase_ \in ClientPhase /\ busy \in BOOLEAN
    /\ keep_alive_after_response_ \in BOOLEAN /\ http2_active_ \in BOOLEAN
    /\ last_client_stream_id_ \in {0} \cup Streams
    /\ connection_inbound_window_ \in 0 .. InitialWindow
    /\ decoder_ \in Tables /\ encoder \in Tables
    /\ table_size(decoder_.entries, Len(decoder_.entries)) <= decoder_.max
    /\ Len(pending_headers_) <= 1
    /\ DOMAIN streams_ \subseteq Streams
    /\ \A id \in DOMAIN streams_ :
         streams_[id] \in [fields : Seq(Fields), body : 0 .. max_request_bytes,
                           inbound_window : 0 .. InitialWindow]
    /\ requests_served_ \in Nat /\ window <= InitialWindow
    /\ unsynced \in BOOLEAN /\ goaway \in {"none", "protocol", "flow_control", "calm", "preface", "timeout"}

Init ==
    /\ phase_ = "reading" /\ busy = FALSE /\ output = <<>>
    /\ keep_alive_after_response_ = FALSE /\ requests_served_ = 0 /\ goaway = "none"
    /\ request_buffer_ = <<>> /\ http2_active_ = FALSE
    /\ last_client_stream_id_ = 0 /\ connection_inbound_window_ = InitialWindow
    /\ decoder_ = NewTable /\ pending_headers_ = <<>> /\ streams_ = <<>>
    /\ dispatched = <<>> /\ unsynced = FALSE
    /\ flying \in Openings /\ sends = SendsAfter(flying)
    /\ asked = [id \in Streams |-> NothingAsked] /\ encoder = NewTable
    /\ window = InitialWindow /\ answered = [id \in Streams |-> Unanswered]

(***************************************************************************)
(* close_now, and prepare_for_pool when the worker releases the object:    *)
(* all is as at first, but for the limit of the decoder.                   *)
(***************************************************************************)
close_now ==
    /\ phase_' = "closed" /\ busy' = FALSE /\ output' = <<>>
    /\ keep_alive_after_response_' = FALSE /\ requests_served_' = 0 /\ goaway' = "none"
    /\ request_buffer_' = <<>> /\ http2_active_' = FALSE
    /\ last_client_stream_id_' = 0 /\ connection_inbound_window_' = InitialWindow
    /\ decoder_' = reset_decoder(decoder_) /\ pending_headers_' = <<>> /\ streams_' = <<>>
    /\ dispatched' = <<>> /\ unsynced' = (decoder_.max < DefaultTableSize)
    /\ flying' = <<>> /\ sends' = 0
    /\ asked' = [id \in Streams |-> NothingAsked] /\ encoder' = NewTable
    /\ window' = InitialWindow /\ answered' = [id \in Streams |-> Unanswered]

----------------------------------------------------------------------------
(***************************************************************************)
(* The client.  It follows the protocol but for its opening, maybe, and    *)
(* the Strays.  What it sends while the worker is busy is as good as sent  *)
(* just after, and what it sends once the server is about to close has no  *)
(* effect.                                                                 *)
(***************************************************************************)
Send(frames) ==
    /\ (phase_ = "reading" /\ ~busy) \/ (phase_ = "writing" /\ keep_alive_after_response_)
    /\ sends < MaxSends
    /\ flying' = flying \o frames
    /\ UNCHANGED <<connection, request_buffer_, session, history, answered>>

Sends(frames) == Send(frames) /\ sends' = sends + 1

\* The newest entries that fit.
Fitting(entries, max) ==
    CHOOSE kept \in Prefixes(entries) :
      /\ table_size(kept, Len(kept)) <= max
      /\ \A other \in Prefixes(entries) :
           table_size(other, Len(other)) <= max => Len(other) <= Len(kept)

Encoded(table, field) ==
    [table EXCEPT !.entries = Fitting(<<field>> \o table.entries, table.max)]

Shrunk(table, n) == [entries |-> Fitting(table.entries, n), max |-> n]

\* The ways to encode a field: the block and the table after it.
Encodings(table, field) ==
    {<<<<Plain(field)>>, table>>, <<<<Insert(field)>>, Encoded(table, field)>>}
      \cup {<<<<Index(n)>>, table>> : n \in {k \in DOMAIN table.entries : table.entries[k] = field}}
      \cup {<<<<Resize(n), Insert(field)>>, Encoded(Shrunk(table, n), field)>> :
              n \in {k \in TableSizes : k < table.max}}

\* A header block in one frame, or its end in a second one.
HeaderFrames(id, block, end_stream) ==
    LET frame == [Frame("headers", id) EXCEPT !.end_stream = end_stream]
    IN  {<<[frame EXCEPT !.block = block]>>}
          \cup {<<[frame EXCEPT !.block = Front(block), !.end_headers = FALSE],
                  [Frame("continuation", id) EXCEPT !.block = <<Last(block)>>]>>}

\* Stream ids grow.
ClientRequests(id, field, end_stream) ==
    /\ \A other \in Streams : asked[other].begun <=> other < id
    /\ \E e \in Encodings(encoder, field) : \E frames \in HeaderFrames(id, e[1], end_stream) :
         Sends(frames) /\ encoder' = e[2]
    /\ asked' = [asked EXCEPT ![id] = [NothingAsked EXCEPT !.fields = <<field>>, !.begun = TRUE,
                                                           !.ended = end_stream]]
    /\ UNCHANGED window

Sending(id) == asked[id].begun /\ ~asked[id].ended /\ ~asked[id].dropped

ClientSendsData(id, n, padding, end_stream) ==
    /\ Sending(id) /\ n + padding <= window
    /\ Sends(<<[Frame("data", id) EXCEPT !.data = n, !.padding = padding, !.end_stream = end_stream]>>)
    /\ window' = window - (n + padding)
    /\ asked' = [asked EXCEPT ![id].data = asked[id].data + n, ![id].ended = end_stream]
    /\ UNCHANGED encoder

\* Trailers have no pseudo-headers: as a request they are refused.  A client in
\* error sends them after the end of its stream.
ClientSendsTrailers(id, field) ==
    /\ asked[id].begun /\ ~asked[id].dropped
    /\ \E e \in Encodings(encoder, field) :
         Sends(<<[Frame("headers", id) EXCEPT !.block = e[1], !.end_stream = TRUE]>>) /\ encoder' = e[2]
    /\ asked' = [asked EXCEPT ![id].ended = TRUE]
    /\ UNCHANGED window

ClientResets(id) ==
    /\ asked[id].begun /\ ~asked[id].dropped
    /\ Sends(<<Frame("rst_stream", id)>>)
    /\ asked' = [asked EXCEPT ![id].dropped = TRUE]
    /\ UNCHANGED <<encoder, window>>

\* SETTINGS_HEADER_TABLE_SIZE, or another setting: the table the server may use for
\* its responses.
ClientSettles(n) ==
    /\ Sends(<<[Frame("settings", 0) EXCEPT !.value = n]>>)
    /\ UNCHANGED <<asked, encoder, window>>

\* To bound the model stray frames count as two, and nothing follows them.
ClientStrays(frames) ==
    /\ sends + 2 <= MaxSends
    /\ Send(frames) /\ sends' = MaxSends
    /\ window' = window - payload(frames)
    /\ UNCHANGED <<asked, encoder>>

ClientLeaves == phase_ # "closed" /\ ~busy /\ close_now

ClientStep ==
    \/ \E id \in Streams, field \in Fields \ BadFields, end_stream \in BOOLEAN :
         ClientRequests(id, field, end_stream)
    \/ \E id \in Streams, n \in DataSizes, padding \in PaddingSizes, end_stream \in BOOLEAN :
         ClientSendsData(id, n, padding, end_stream)
    \/ \E id \in Streams, field \in BadFields : ClientSendsTrailers(id, field)
    \/ \E id \in Streams : ClientResets(id)
    \/ \E n \in TableSizes \cup {Unset} : ClientSettles(n)
    \/ \E frames \in Strays : ClientStrays(frames)
    \/ ClientLeaves

----------------------------------------------------------------------------
(***************************************************************************)
(* Reading.  The beginning of a frame waits in request_buffer_ for the     *)
(* rest.  A read that ends between two frames the client has sent one      *)
(* after the other is the same as one before the second was sent: the      *)
(* client has learned nothing in between.                                  *)
(***************************************************************************)
Receive(n) ==
    /\ phase_ = "reading" /\ ~busy
    /\ n < Len(flying) => flying[n].type = "preface" \/ flying[n + 1].type = "continuation"
    /\ request_buffer_' = request_buffer_ \o SubSeq(flying, 1, n)
    /\ flying' = SubSeq(flying, n + 1, Len(flying))
    /\ busy' = TRUE
    /\ UNCHANGED <<phase_, output, keep_alive_after_response_, requests_served_, goaway,
                   session, history, sends, asked, encoder, window, answered>>

Running == phase_ = "reading" /\ busy

\* A preface waits for the SETTINGS.
need_more ==
    /\ Running /\ ~http2_active_
    /\ Len(request_buffer_) = 1 /\ request_buffer_[1].type = "preface"
    /\ busy' = FALSE
    /\ UNCHANGED <<phase_, output, keep_alive_after_response_, requests_served_, goaway,
                   request_buffer_, session, history, client>>

\* The rest of the buffer waits until the answer is written.
set_serialized_response(frames, keep_alive) ==
    /\ output' = frames /\ keep_alive_after_response_' = keep_alive
    /\ phase_' = "writing" /\ busy' = FALSE

(***************************************************************************)
(* The preface.                                                            *)
(***************************************************************************)
Rejected ==
    /\ set_serialized_response(<<Goaway>>, FALSE) /\ goaway' = "preface"
    /\ UNCHANGED http2_active_

Opening == Running /\ ~http2_active_ /\ request_buffer_ # <<>>

\* Faulty variant: what came with the preface is lost.
after_preface_nothing(buffer) == <<>>

\* Frames may follow in the same read.
after_preface(buffer) == SubSeq(buffer, 3, Len(buffer))

accept_preface(request_allowed) ==
    /\ Opening /\ request_buffer_[1].type = "preface"
    /\ LET too_large == buffered(request_buffer_) > max_request_bytes
       IN  /\ too_large \/ Len(request_buffer_) > 1
           /\ \/ /\ too_large \/ request_buffer_[2].type # "settings"
                 /\ request_buffer_' = <<>> /\ Rejected
              \/ /\ ~too_large /\ request_buffer_[2].type = "settings"
                 /\ request_buffer_' = after_preface(request_buffer_)
                 /\ IF http2_enabled /\ request_allowed
                    THEN /\ set_serialized_response(<<Notice, Notice>>, TRUE)
                         /\ http2_active_' = TRUE /\ UNCHANGED goaway
                    ELSE Rejected
    /\ UNCHANGED <<requests_served_, session_data, history, client>>

ExpectedPreface ==
    /\ Opening /\ request_buffer_[1].type # "preface"
    /\ request_buffer_' = <<>> /\ Rejected
    /\ UNCHANGED <<requests_served_, session_data, history, client>>

(***************************************************************************)
(* Results of the session.                                                 *)
(***************************************************************************)
fail_connection(why) ==
    /\ set_serialized_response(<<Goaway>>, FALSE) /\ goaway' = why
    /\ streams_' = <<>> /\ pending_headers_' = <<>>
    /\ UNCHANGED <<requests_served_, last_client_stream_id_, connection_inbound_window_, decoder_,
                   dispatched>>

without(id) == Restrict(streams_, DOMAIN streams_ \ {id})

opened(id, stream) ==
    [open \in DOMAIN streams_ \cup {id} |-> IF open = id THEN stream ELSE streams_[open]]

reset_stream_result(id, why) ==
    /\ set_serialized_response(<<Reset(id, why)>>, TRUE)
    /\ streams_' = without(id)
    /\ UNCHANGED <<requests_served_, goaway, dispatched>>

\* No output: the next frame follows, if there is one.
Quiet ==
    /\ busy' = (request_buffer_' # <<>>)
    /\ UNCHANGED <<phase_, output, keep_alive_after_response_, requests_served_, goaway, dispatched>>

build_request(stream) == \A i \in DOMAIN stream.fields : stream.fields[i] \notin BadFields

(***************************************************************************)
(* build_request refuses some fields, and a content-length that is not the *)
(* body's.  A rate limit or the firewall may refuse a request, a handler   *)
(* may leave it without an answer (500), and the last request of the       *)
(* connection is answered with a GOAWAY behind it.                         *)
(***************************************************************************)
Refused(id, prefix) ==
    /\ set_serialized_response(prefix \o <<Response(id)>>, TRUE)
    /\ UNCHANGED <<requests_served_, goaway, dispatched>>

Served(id, stream, prefix, sent) ==
    LET last == /\ sent /\ http_keep_alive_max_requests > 0
                /\ requests_served_ + 1 >= http_keep_alive_max_requests
    IN  /\ requests_served_' = requests_served_ + 1
        /\ dispatched' = Append(dispatched, [id |-> id, fields |-> stream.fields, body |-> stream.body])
        /\ set_serialized_response(prefix \o <<Response(id)>> \o (IF last THEN <<Goaway>> ELSE <<>>), ~last)
        /\ UNCHANGED goaway

complete_stream(id, stream, prefix) ==
    /\ streams_' = without(id)
    /\ \/ Refused(id, prefix)
       \/ build_request(stream) /\ \E sent \in BOOLEAN : Served(id, stream, prefix, sent)

(***************************************************************************)
(* process_input and handle_frame.                                         *)
(***************************************************************************)
Processing == Running /\ http2_active_ /\ request_buffer_ # <<>>

frame_buffer_exceeded ==
    /\ Processing /\ buffered(request_buffer_) > max_request_bytes
    /\ request_buffer_' = <<>> /\ fail_connection("calm")
    /\ UNCHANGED <<unsynced, http2_active_, client>>

invalid_frame ==
    /\ Processing /\ buffered(request_buffer_) <= max_request_bytes
    /\ Head(request_buffer_).type = "malformed"
    /\ request_buffer_' = <<>> /\ fail_connection("protocol")
    /\ UNCHANGED <<unsynced, http2_active_, client>>

\* The frame at hand, and whether it may come in the middle of a header block.
Taking(types) ==
    /\ Processing /\ buffered(request_buffer_) <= max_request_bytes
    /\ Head(request_buffer_).type \in types
    /\ request_buffer_' = Tail(request_buffer_)
    /\ UNCHANGED <<http2_active_, client>>

AtFrameBoundary(types) == pending_headers_ = <<>> /\ Taking(types)

expected_continuation ==
    /\ pending_headers_ # <<>> /\ Taking(HandledTypes)
    /\ fail_connection("protocol")
    /\ UNCHANGED unsynced

handle_push_promise ==
    /\ AtFrameBoundary({"push_promise"})
    /\ fail_connection("protocol")
    /\ UNCHANGED unsynced

\* The limit the client sets for the other direction is given to the decoder.
handle_settings ==
    /\ AtFrameBoundary({"settings"})
    /\ LET n == Head(request_buffer_).value
       IN  \/ n = Unset /\ UNCHANGED <<decoder_, unsynced>>
           \/ /\ n # Unset
              /\ decoder_' = set_max_table_size(decoder_, n)
              /\ unsynced' = (unsynced \/ n < DefaultTableSize)
    /\ set_serialized_response(<<Notice>>, TRUE)
    /\ UNCHANGED <<requests_served_, goaway, last_client_stream_id_, connection_inbound_window_,
                   pending_headers_, streams_, dispatched>>

handle_ping ==
    /\ AtFrameBoundary({"ping"})
    /\ set_serialized_response(<<Notice>>, TRUE)
    /\ UNCHANGED <<requests_served_, goaway, session, history>>

handle_goaway ==
    /\ Processing /\ buffered(request_buffer_) <= max_request_bytes
    /\ pending_headers_ = <<>> /\ Head(request_buffer_).type = "goaway"
    /\ close_now

handle_rst_stream ==
    /\ AtFrameBoundary({"rst_stream"})
    /\ streams_' = without(Head(request_buffer_).id)
    /\ Quiet
    /\ UNCHANGED <<last_client_stream_id_, connection_inbound_window_, decoder_, pending_headers_,
                   unsynced>>

handle_ignored ==
    /\ AtFrameBoundary(Ignored)
    /\ Quiet
    /\ UNCHANGED <<session, unsynced>>

(***************************************************************************)
(* Header blocks.  One that is dropped is not decoded, so that the         *)
(* client's table has entries the decoder's lacks.  A single frame is      *)
(* never larger than max_request_bytes: the buffer it came in is not.      *)
(***************************************************************************)
Touches(block) == \E i \in DOMAIN block : block[i].op \in {"insert", "resize"}

drop_block(id, block, why) ==
    /\ reset_stream_result(id, why)
    /\ unsynced' = (unsynced \/ Touches(block))
    /\ UNCHANGED <<last_client_stream_id_, decoder_>>

decode_headers(id, end_stream, block) ==
    LET decoded == decode_header_block(decoder_, block)
        stream == [fields |-> decoded.fields, body |-> 0, inbound_window |-> InitialWindow]
        known == id \in DOMAIN streams_
    IN  /\ decoder_' = decoded.table
        /\ UNCHANGED unsynced
        /\ \/ /\ ~decoded.ok /\ reset_stream_result(id, "compression")
              /\ UNCHANGED last_client_stream_id_
           \/ /\ decoded.ok /\ known /\ reset_stream_result(id, "protocol")
              /\ UNCHANGED last_client_stream_id_
           \/ /\ decoded.ok /\ ~known
              /\ last_client_stream_id_' = Max({id, last_client_stream_id_})
              /\ IF end_stream THEN complete_stream(id, stream, <<>>)
                 ELSE Quiet /\ streams_' = opened(id, stream)

\* Faulty variant: only open streams are remembered.
stream_closed_forgotten(id) == FALSE

stream_closed(id) == id \notin DOMAIN streams_ /\ id <= last_client_stream_id_

handle_headers_frame ==
    LET frame == Head(request_buffer_)
    IN  /\ AtFrameBoundary({"headers"})
        /\ UNCHANGED connection_inbound_window_
        /\ \/ /\ frame.id % 2 = 0 /\ fail_connection("protocol")
              /\ UNCHANGED unsynced
           \/ /\ frame.id % 2 = 1
              /\ stream_closed(frame.id)
              /\ drop_block(frame.id, frame.block, "closed") /\ UNCHANGED pending_headers_
           \/ /\ frame.id % 2 = 1 /\ ~stream_closed(frame.id)
              /\ \/ /\ frame.bad_padding
                    /\ drop_block(frame.id, frame.block, "protocol") /\ UNCHANGED pending_headers_
                 \/ /\ ~frame.bad_padding /\ ~frame.end_headers
                    /\ pending_headers_' = <<[id |-> frame.id, end_stream |-> frame.end_stream,
                                              block |-> frame.block]>>
                    /\ Quiet
                    /\ UNCHANGED <<last_client_stream_id_, decoder_, streams_, unsynced>>
                 \/ /\ ~frame.bad_padding /\ frame.end_headers
                    /\ decode_headers(frame.id, frame.end_stream, frame.block)
                    /\ UNCHANGED pending_headers_

handle_continuation_frame ==
    LET frame == Head(request_buffer_)
        pending == pending_headers_[1]
        block == pending.block \o frame.block
        matches == pending_headers_ # <<>> /\ pending.id = frame.id
    IN  /\ Taking({"continuation"})
        /\ UNCHANGED connection_inbound_window_
        /\ \/ /\ ~matches /\ fail_connection("protocol")
              /\ UNCHANGED unsynced
           \/ /\ matches /\ block_size(block) > max_request_bytes
              /\ pending_headers_' = <<>> /\ drop_block(frame.id, block, "calm")
           \/ /\ matches /\ block_size(block) <= max_request_bytes /\ ~frame.end_headers
              /\ pending_headers_' = <<[pending EXCEPT !.block = block]>>
              /\ Quiet
              /\ UNCHANGED <<last_client_stream_id_, decoder_, streams_, unsynced>>
           \/ /\ matches /\ block_size(block) <= max_request_bytes /\ frame.end_headers
              /\ pending_headers_' = <<>>
              /\ decode_headers(pending.id, pending.end_stream, block)

(***************************************************************************)
(* DATA.  The windows are restored by what the payload holds, padding left *)
(* out, and only when the payload is kept.  A stream in streams_ has not   *)
(* ended: complete_stream erases it.                                       *)
(***************************************************************************)
\* Faulty variant: the window is announced to the client and not restored.
restored_announced(window_left, n) == window_left - n

restored(window_left, n) == window_left - n + n

\* Faulty variant: the last DATA frame is the body.
received_last(stream, n) == [stream EXCEPT !.body = n]

received(stream, n) ==
    [stream EXCEPT !.body = stream.body + n, !.inbound_window = restored(stream.inbound_window, n)]

handle_data_frame ==
    LET frame == Head(request_buffer_)
        n == frame.data
        stream == streams_[frame.id]
        longer == received(stream, n)
        updates == IF n = 0 THEN <<>> ELSE <<Update(0, n), Update(frame.id, n)>>
        known == frame.id \in DOMAIN streams_
        kept == known /\ ~frame.bad_padding
        overflow == n > connection_inbound_window_ \/ n > stream.inbound_window
    IN  /\ AtFrameBoundary({"data"})
        /\ UNCHANGED <<last_client_stream_id_, decoder_, unsynced>>
        /\ \/ /\ ~known /\ reset_stream_result(frame.id, "closed")
              /\ UNCHANGED <<connection_inbound_window_, pending_headers_>>
           \/ /\ known /\ frame.bad_padding /\ reset_stream_result(frame.id, "protocol")
              /\ UNCHANGED <<connection_inbound_window_, pending_headers_>>
           \/ /\ kept /\ overflow /\ fail_connection("flow_control")
           \/ /\ kept /\ ~overflow /\ longer.body > max_request_bytes
              /\ reset_stream_result(frame.id, "calm")
              /\ UNCHANGED <<connection_inbound_window_, pending_headers_>>
           \/ /\ kept /\ ~overflow /\ longer.body <= max_request_bytes
              /\ connection_inbound_window_' = restored(connection_inbound_window_, n)
              /\ UNCHANGED pending_headers_
              /\ \/ frame.end_stream /\ complete_stream(frame.id, longer, updates)
                 \/ /\ ~frame.end_stream /\ streams_' = [streams_ EXCEPT ![frame.id] = longer]
                    /\ IF n = 0 THEN Quiet
                       ELSE /\ set_serialized_response(updates, TRUE)
                            /\ UNCHANGED <<requests_served_, goaway, dispatched>>

ServerStep ==
    \/ need_more
    \/ \E request_allowed \in BOOLEAN : accept_preface(request_allowed)
    \/ ExpectedPreface
    \/ frame_buffer_exceeded \/ invalid_frame \/ expected_continuation
    \/ handle_push_promise \/ handle_settings \/ handle_ping \/ handle_goaway
    \/ handle_rst_stream \/ handle_ignored
    \/ handle_headers_frame \/ handle_continuation_frame \/ handle_data_frame

(***************************************************************************)
(* Writing.  The client learns what became of its streams and windows;     *)
(* the server goes on with what is in its buffer, or closes.               *)
(***************************************************************************)
Credit(frames) ==
    Total([i \in DOMAIN frames |->
             IF frames[i].type = "window_update" /\ frames[i].id = 0 THEN frames[i].n ELSE 0])

Answers(id, type) == Cardinality({i \in DOMAIN output : output[i].id = id /\ output[i].type = type})

Answered(id) == [type \in DOMAIN Unanswered |-> answered[id][type] + Answers(id, type)]

\* Faulty variant: the server waits for the socket.
finish_response_waiting == phase_' = "reading" /\ busy' = FALSE

finish_response == phase_' = "reading" /\ busy' = (request_buffer_ # <<>>)

write_response ==
    /\ phase_ = "writing" /\ keep_alive_after_response_
    /\ output' = <<>> /\ keep_alive_after_response_' = FALSE
    /\ window' = window + Credit(output)
    /\ answered' = [id \in Streams |-> Answered(id)]
    /\ asked' = [id \in Streams |->
                   [asked[id] EXCEPT !.dropped = asked[id].dropped \/ Answered(id) # answered[id]]]
    /\ finish_response
    /\ UNCHANGED <<requests_served_, goaway, request_buffer_, session, history, flying,
                   sends, encoder>>

write_last_response == phase_ = "writing" /\ ~keep_alive_after_response_ /\ close_now

(***************************************************************************)
(* expire_idle: an idle connection is closed; one that has got the         *)
(* beginning of a frame, and not the rest in time, is told.                *)
(***************************************************************************)
expire_idle == phase_ = "reading" /\ ~busy /\ http2_active_ /\ close_now

expire_cut_frame ==
    /\ phase_ = "reading" /\ ~busy
    /\ flying # <<>> \/ request_buffer_ # <<>>
    /\ set_serialized_response(<<IF http2_active_ THEN Goaway ELSE Timeout>>, FALSE)
    /\ goaway' = "timeout"
    /\ UNCHANGED <<requests_served_, request_buffer_, session, history, client>>

\* The pooled object serves another client.
acquire ==
    /\ phase_ = "closed"
    /\ phase_' = "reading" /\ flying' \in Openings /\ sends' = SendsAfter(flying')
    /\ UNCHANGED <<busy, output, keep_alive_after_response_, requests_served_, goaway,
                   request_buffer_, session, history, asked, encoder, window, answered>>

Next ==
    \/ ClientStep \/ ServerStep \/ write_response \/ write_last_response
    \/ expire_idle \/ expire_cut_frame \/ acquire
    \/ \E n \in DOMAIN flying : Receive(n)

(***************************************************************************)
(* The worker serves a connection that is ready, and epoll reports the     *)
(* frames that have arrived and the room to write.  Nothing makes the      *)
(* client act.                                                             *)
(***************************************************************************)
Work ==
    \/ ServerStep \/ write_response \/ write_last_response
    \/ \E n \in DOMAIN flying : Receive(n)

Fairness == WF_vars(Work)

Safety == Init /\ [][Next]_vars

Spec == Safety /\ Fairness

----------------------------------------------------------------------------
(***************************************************************************)
(* Header compression: as long as the client's table is the decoder's, a   *)
(* handler gets the fields the client encoded (decode_headers), and no     *)
(* block is refused.  CONTINUATION, resizing and eviction, trailers that   *)
(* are decoded and dropped, and blocks of refused requests come between.   *)
(***************************************************************************)
HeadersAsEncoded ==
    ~unsynced =>
      /\ \A i \in DOMAIN dispatched : dispatched[i].fields = asked[dispatched[i].id].fields
      /\ \A i \in DOMAIN output : output[i].type = "rst_stream" => output[i].n # "compression"

(***************************************************************************)
(* complete_stream: a handler gets a request when its stream has ended,    *)
(* with everything the client sent on it, however DATA frames of other     *)
(* streams, padding, reads and answers come between.  Only as long as the  *)
(* tables agree: a stream whose header block does not decode is reset and  *)
(* not remembered (decode_headers leaves last_client_stream_id_ alone), so *)
(* that trailers which are then decoded to a good request open it again,   *)
(* without the DATA that was refused in between.                           *)
(***************************************************************************)
BodiesWhole ==
    ~unsynced =>
      \A i \in DOMAIN dispatched :
        LET stream == asked[dispatched[i].id]
        IN  stream.ended /\ dispatched[i].body = stream.data

(***************************************************************************)
(* A stream is given to a handler once and answered once, whatever frames  *)
(* the client still sends on it (handle_headers_frame).                    *)
(***************************************************************************)
AnsweredOnce ==
    /\ \A i, j \in DOMAIN dispatched : dispatched[i].id = dispatched[j].id => i = j
    /\ \A id \in Streams : Answered(id).response <= 1

(***************************************************************************)
(* A connection that waits for its client holds no whole frame: the frames *)
(* left when an answer was written are processed after it                  *)
(* (finish_response).  A preface may wait for its SETTINGS.                *)
(***************************************************************************)
FramesNotForgotten ==
    phase_ = "reading" /\ ~busy =>
      \/ request_buffer_ = <<>>
      \/ ~http2_active_ /\ Len(request_buffer_) = 1

(***************************************************************************)
(* handle_data_frame never takes a client that keeps to the windows it was *)
(* told for one that overruns them.                                        *)
(***************************************************************************)
FlowControlSpares == goaway = "flow_control" => window < 0

(***************************************************************************)
(* Every stream the client ends is answered or reset, unless the client    *)
(* gives it up or the connection ends (finish_response goes on with the    *)
(* frames in the buffer).  The connection is a plain one: over TLS frames  *)
(* that OpenSSL has read ahead may wait, as in ClientConnection.           *)
(***************************************************************************)
StreamsAnswered ==
    \A id \in Streams :
      asked[id].ended ~> (answered[id] # Unanswered \/ asked[id].dropped \/ phase_ = "closed")

(***************************************************************************)
(* docs/plans/021-ordered-update-checklist.md, line 121: "Inbound DATA     *)
(* consumes and restores connection/stream windows with WINDOW_UPDATE      *)
(* output".  Once the server has handled all the client sent and written   *)
(* its answers, the client's window of an open connection is what it was   *)
(* at first.                                                               *)
(***************************************************************************)
WindowRestored ==
    (phase_ = "reading" /\ ~busy /\ flying = <<>>) => window = InitialWindow
=============================================================================
