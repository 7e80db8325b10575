------------------------- MODULE WebSocketEndpoint -------------------------
(***************************************************************************)
(* The local WebSocket endpoint: phase websocket of ClientConnection       *)
(* (server.cpp), which echoes data frames, answers pings and closes.       *)
(*                                                                         *)
(* A frame on the wire is a header unit, a second one if its length is     *)
(* extended, a mask unit and its payload units; <<i,k>> is the k-th unit   *)
(* of the client's i-th frame, so that a frame may be cut anywhere.  Every *)
(* recv, send and turn of process_websocket_frames is one step.  Units of  *)
(* a TLS client that OpenSSL reads ahead with the upgrade request are the  *)
(* matter of ClientConnection.                                             *)
(***************************************************************************)
EXTENDS WebSocketSettings, Sequences, SequencesExt

CONSTANTS
    websocket_max_frame_bytes,  \* in units
    ExtendedLength,             \* the least payload whose length is extended (126 bytes)
    Frames,                     \* the frames the client may send
    MaxFrames,                  \* bound: how many of them
    EndpointRoom                \* bound: answers the kernel holds for a client that does not read

Kinds == {"data", "ping", "pong", "close", "reserved", "fragment"}

ASSUME EndpointAssumption ==
    /\ websocket_max_frame_bytes \in Nat /\ ExtendedLength \in Nat
    /\ Frames \subseteq [kind : Kinds, length : Nat]
    /\ MaxFrames \in Nat \ {0} /\ EndpointRoom \in Nat \ {0}

VARIABLES
    endpoint_phase,
    request_buffer_,                \* the units received and not consumed
    response_buffer_,               \* the answers that are not sent yet
    websocket_close_after_write_,
    events_,
    step,                           \* the loop the handler is in
    endpoint_quiet,                 \* seconds since last_activity_, up to the idle timeout
    frames,                         \* what the client sends
    units_sent, units_received,
    hung_up,                        \* the client has closed or reset its connection
    answers,                        \* the answers handed to the kernel
    answers_read                    \* how many of them the client has read

peer_vars == <<frames, units_sent, hung_up, answers_read>>
endpoint_vars == <<endpoint_phase, request_buffer_, response_buffer_,
                   websocket_close_after_write_, events_, step, endpoint_quiet,
                   units_received, answers, peer_vars>>

(***************************************************************************)
(* read           the loop of read_plain_websocket or read_tls_websocket   *)
(* process        process_websocket_frames, called by that loop            *)
(* process_early  process_websocket_frames, called by finish_response      *)
(* flush          flush_websocket_writes                                   *)
(***************************************************************************)
Steps == {"idle", "read", "process", "process_early", "flush"}

header_units(frame) == IF frame.length >= ExtendedLength THEN 2 ELSE 1

frame_units(frame) == header_units(frame) + 1 + frame.length

UnitsOf(i) == [k \in 1 .. frame_units(frames[i]) |-> <<i, k>>]

\* All the units of the frames the client has begun to send.
Stream == FlattenSeq([i \in DOMAIN frames |-> UnitsOf(i)])

(***************************************************************************)
(* The types of the endpoint's state.  Every answer is an echo, a pong or  *)
(* a Close to one of the client's frames.                                  *)
(***************************************************************************)
EndpointTypeOK ==
    /\ endpoint_phase \in {"writing", "websocket", "closed"}
    /\ request_buffer_ \in Seq(Nat \X Nat)
    /\ response_buffer_ \in Seq([op : {"data", "pong", "close"}, to : 1 .. MaxFrames])
    /\ answers \in Seq([op : {"data", "pong", "close"}, to : 1 .. MaxFrames])
    /\ websocket_close_after_write_ \in BOOLEAN
    /\ events_ \in SUBSET Events /\ step \in Steps
    /\ endpoint_quiet \in 0 .. idle_timeout_seconds
    /\ frames \in Seq(Frames) /\ units_sent \in Nat /\ units_received \in Nat
    /\ hung_up \in BOOLEAN /\ answers_read \in Nat

\* No connection of the kind.
EndpointAbsent ==
    /\ endpoint_phase = "closed" /\ events_ = {}
    /\ frames = <<>> /\ units_sent = 0

\* The 101 is being written; request_buffer_ holds what followed the request: any
\* number of frames, of which the last one may be cut.
EndpointBegins ==
    /\ endpoint_phase = "writing" /\ events_ = {"OUT"}
    /\ \/ frames = <<>> /\ units_sent = 0
       \/ /\ \E n \in 1 .. MaxFrames : frames \in [1 .. n -> Frames]
          /\ units_sent \in Len(Stream) - frame_units(Last(frames)) + 1 .. Len(Stream)

EndpointInit ==
    /\ EndpointAbsent \/ EndpointBegins
    /\ step = "idle"
    /\ units_received = units_sent
    /\ request_buffer_ = SubSeq(Stream, 1, units_received)
    /\ response_buffer_ = <<>> /\ websocket_close_after_write_ = FALSE
    /\ endpoint_quiet = 0 /\ hung_up = FALSE
    /\ answers = <<>> /\ answers_read = 0

----------------------------------------------------------------------------
(* The client and the clock.                                               *)

endpoint_only == UNCHANGED <<endpoint_phase, request_buffer_, response_buffer_,
                             websocket_close_after_write_, events_, step, units_received,
                             answers>>

ClientSendsUnit ==
    /\ ~hung_up /\ units_sent < Len(Stream)
    /\ units_sent' = units_sent + 1
    /\ endpoint_only /\ UNCHANGED <<frames, hung_up, answers_read, endpoint_quiet>>

ClientBeginsFrame(frame) ==
    /\ ~hung_up /\ units_sent = Len(Stream) /\ Len(frames) < MaxFrames
    /\ frames' = Append(frames, frame) /\ units_sent' = units_sent + 1
    /\ endpoint_only /\ UNCHANGED <<hung_up, answers_read, endpoint_quiet>>

ClientReadsAnswer ==
    /\ answers_read < Len(answers)
    /\ answers_read' = answers_read + 1
    /\ endpoint_only /\ UNCHANGED <<frames, units_sent, hung_up, endpoint_quiet>>

ClientHangsUp ==
    /\ ~hung_up /\ hung_up' = TRUE
    /\ endpoint_only /\ UNCHANGED <<frames, units_sent, answers_read, endpoint_quiet>>

EndpointTick ==
    /\ endpoint_phase = "websocket" /\ step = "idle" /\ endpoint_quiet < idle_timeout_seconds
    /\ endpoint_quiet' = endpoint_quiet + 1
    /\ endpoint_only /\ UNCHANGED peer_vars

----------------------------------------------------------------------------
EndpointCloses ==
    /\ endpoint_phase' = "closed" /\ step' = "idle" /\ events_' = {}
    /\ UNCHANGED <<request_buffer_, response_buffer_, websocket_close_after_write_,
                   endpoint_quiet, units_received, answers, peer_vars>>

\* Faulty variant: what the client sent early waits for its next byte.
HandshakeWrittenIdle ==
    /\ endpoint_phase = "writing"
    /\ endpoint_phase' = "websocket" /\ step' = "flush" /\ events_' = {"IN"}
    /\ endpoint_quiet' = 0
    /\ UNCHANGED <<request_buffer_, response_buffer_, websocket_close_after_write_,
                   units_received, answers, peer_vars>>

\* finish_response: what the client sent early is processed at once.
HandshakeWritten ==
    /\ endpoint_phase = "writing"
    /\ endpoint_phase' = "websocket" /\ step' = "process_early" /\ events_' = {"IN"}
    /\ endpoint_quiet' = 0
    /\ UNCHANGED <<request_buffer_, response_buffer_, websocket_close_after_write_,
                   units_received, answers, peer_vars>>

\* A write of the 101 fails, or handle sees an error and nothing to read or write.
EndpointHangUp ==
    /\ endpoint_phase # "closed" /\ step = "idle" /\ hung_up
    /\ EndpointCloses

EndpointExpires ==
    /\ endpoint_phase = "websocket" /\ step = "idle" /\ endpoint_quiet >= idle_timeout_seconds
    /\ EndpointCloses

In(name) == endpoint_phase = "websocket" /\ step = name

EndpointReadable == "IN" \in events_ /\ (units_sent > units_received \/ hung_up)
EndpointWritable == "OUT" \in events_ /\ Len(answers) - answers_read < EndpointRoom

\* handle_websocket
EndpointWakesUp ==
    /\ In("idle")
    /\ \/ EndpointReadable /\ step' = "read"
       \/ ~EndpointReadable /\ EndpointWritable /\ step' = "flush"
    /\ UNCHANGED <<endpoint_phase, request_buffer_, response_buffer_, endpoint_quiet,
                   websocket_close_after_write_, events_, units_received, answers, peer_vars>>

EndpointReceives(n) ==
    /\ In("read") /\ n \in 1 .. units_sent - units_received
    /\ units_received' = units_received + n
    /\ request_buffer_' = request_buffer_ \o SubSeq(Stream, units_received + 1, units_received + n)
    /\ step' = "process" /\ endpoint_quiet' = 0
    /\ UNCHANGED <<endpoint_phase, response_buffer_, websocket_close_after_write_, events_,
                   answers, peer_vars>>

\* The socket is empty.  The handler flushes if there is something to send, or if
\* EPOLLOUT was reported as well.
EndpointReadBlocks ==
    /\ In("read") /\ units_sent = units_received /\ ~hung_up
    /\ \E wants \in Wants(client_tls) :
         events_' = (IF client_tls THEN wants ELSE {"IN"})
                       \cup (IF response_buffer_ = <<>> THEN {} ELSE {"OUT"})
    /\ step' \in IF response_buffer_ # <<>> THEN {"flush"}
                 ELSE IF EndpointWritable THEN {"idle", "flush"} ELSE {"idle"}
    /\ UNCHANGED <<endpoint_phase, request_buffer_, response_buffer_, endpoint_quiet,
                   websocket_close_after_write_, units_received, answers, peer_vars>>

\* recv returns 0 or an error.
EndpointReadEnds == In("read") /\ hung_up /\ EndpointCloses

----------------------------------------------------------------------------
(* process_websocket_frames, one frame a step.                             *)

Processing == endpoint_phase = "websocket" /\ step \in {"process", "process_early"}

\* The frame the first unit of the buffer belongs to.
FrameAt == Head(request_buffer_)[1]
FirstFrame == frames[FrameAt]

length_known == Len(request_buffer_) >= header_units(FirstFrame)
too_long == length_known /\ FirstFrame.length > websocket_max_frame_bytes
refused == request_buffer_ # <<>> /\ (FirstFrame.kind = "fragment" \/ too_long)
complete ==
    request_buffer_ # <<>> /\ length_known /\ Len(request_buffer_) >= frame_units(FirstFrame)

queue_websocket_frame(op) ==
    /\ response_buffer_' = Append(response_buffer_, [op |-> op, to |-> FrameAt])
    /\ events_' = {"IN", "OUT"}

after_processing == IF step = "process" THEN "read" ELSE "flush"

\* Nothing to do before more bytes arrive.
FrameIncomplete ==
    /\ Processing /\ ~refused /\ ~complete
    /\ step' = after_processing
    /\ UNCHANGED <<endpoint_phase, request_buffer_, response_buffer_, endpoint_quiet,
                   websocket_close_after_write_, events_, units_received, answers, peer_vars>>

\* A fragment, an unmasked frame or one that is too long: it stays in the buffer
\* and is refused again when more bytes arrive before the Close is written.
FrameRefused ==
    /\ Processing /\ refused
    /\ queue_websocket_frame("close")
    /\ websocket_close_after_write_' = TRUE
    /\ step' = after_processing
    /\ UNCHANGED <<endpoint_phase, request_buffer_, endpoint_quiet, units_received, answers,
                   peer_vars>>

\* Faulty variant: the mask is not counted.
consumed_units_without_mask(frame) == frame_units(frame) - 1

consumed_units(frame) == frame_units(frame)

reply_op(kind) ==
    CASE kind = "ping" -> "pong" [] kind \in {"close", "reserved"} -> "close" [] OTHER -> kind

FrameHandled ==
    /\ Processing /\ ~refused /\ complete
    /\ request_buffer_' = SubSeq(request_buffer_, consumed_units(FirstFrame) + 1, Len(request_buffer_))
    /\ \/ /\ FirstFrame.kind \in {"data", "ping"} /\ queue_websocket_frame(reply_op(FirstFrame.kind))
          /\ UNCHANGED <<step, websocket_close_after_write_>>
       \/ /\ FirstFrame.kind = "pong"
          /\ UNCHANGED <<step, websocket_close_after_write_, response_buffer_, events_>>
       \/ /\ FirstFrame.kind \in {"close", "reserved"}
          /\ queue_websocket_frame(reply_op(FirstFrame.kind))
          /\ websocket_close_after_write_' = TRUE /\ step' = after_processing
    /\ UNCHANGED <<endpoint_phase, endpoint_quiet, units_received, answers, peer_vars>>

----------------------------------------------------------------------------
(* flush_websocket_writes.                                                 *)

AnswerSent ==
    /\ In("flush") /\ response_buffer_ # <<>> /\ Len(answers) - answers_read < EndpointRoom
    /\ answers' = Append(answers, Head(response_buffer_))
    /\ response_buffer_' = Tail(response_buffer_)
    /\ UNCHANGED <<endpoint_phase, request_buffer_, websocket_close_after_write_, events_, step,
                   endpoint_quiet, units_received, peer_vars>>

\* Faulty variant: a full socket is taken for a finished one.
AnswerBlockedForgets ==
    /\ In("flush") /\ response_buffer_ # <<>> /\ Len(answers) - answers_read >= EndpointRoom
    /\ events_' = {"IN"} /\ step' = "idle"
    /\ UNCHANGED <<endpoint_phase, request_buffer_, response_buffer_, endpoint_quiet,
                   websocket_close_after_write_, units_received, answers, peer_vars>>

AnswerBlocked ==
    /\ In("flush") /\ response_buffer_ # <<>> /\ Len(answers) - answers_read >= EndpointRoom
    /\ \E wants \in Wants(client_tls) :
         events_' = {"IN"} \cup (IF client_tls THEN wants ELSE {"OUT"})
    /\ step' = "idle"
    /\ UNCHANGED <<endpoint_phase, request_buffer_, response_buffer_, endpoint_quiet,
                   websocket_close_after_write_, units_received, answers, peer_vars>>

AllAnswersSent ==
    /\ In("flush") /\ response_buffer_ = <<>>
    /\ \/ websocket_close_after_write_ /\ EndpointCloses
       \/ /\ ~websocket_close_after_write_
          /\ events_' = {"IN"} /\ step' = "idle"
          /\ UNCHANGED <<endpoint_phase, request_buffer_, response_buffer_, endpoint_quiet,
                         websocket_close_after_write_, units_received, answers, peer_vars>>

AnswerFails == In("flush") /\ response_buffer_ # <<>> /\ hung_up /\ EndpointCloses

----------------------------------------------------------------------------
EndpointHandler ==
    \/ \E n \in 1 .. Len(Stream) : EndpointReceives(n)
    \/ EndpointReadBlocks \/ EndpointReadEnds
    \/ FrameIncomplete \/ FrameRefused \/ FrameHandled
    \/ AnswerSent \/ AnswerBlocked \/ AllAnswersSent \/ AnswerFails

EndpointNext ==
    \/ ClientSendsUnit \/ (\E frame \in Frames : ClientBeginsFrame(frame))
    \/ ClientReadsAnswer \/ ClientHangsUp \/ EndpointTick
    \/ HandshakeWritten \/ EndpointHangUp \/ EndpointExpires
    \/ EndpointWakesUp \/ EndpointHandler

EndpointSafety == EndpointInit /\ [][EndpointNext]_endpoint_vars

EndpointFairness ==
    /\ WF_endpoint_vars(HandshakeWritten)
    /\ WF_endpoint_vars(EndpointWakesUp)
    /\ WF_endpoint_vars(EndpointHandler)

----------------------------------------------------------------------------
\* What process_websocket_frames owes the client for its i-th frame.
Reply(i) ==
    LET kind == frames[i].kind
        op   == IF kind = "ping" THEN "pong" ELSE IF kind = "data" THEN "data" ELSE "close"
    IN  IF kind = "pong" THEN <<>> ELSE <<[op |-> op, to |-> i]>>

RepliesUpTo(n) == FlattenSeq([i \in 1 .. n |-> Reply(i)])

UnitsUpTo(n) == FlattenSeq([i \in 1 .. n |-> UnitsOf(i)])

Acceptable(frame) == frame.kind # "fragment" /\ frame.length <= websocket_max_frame_bytes

(***************************************************************************)
(* Wherever the client's bytes are cut, and whether they came before or    *)
(* after the 101 was written: what process_websocket_frames (server.cpp:   *)
(* 4363) has consumed are the first n frames, all acceptable, and each was *)
(* answered once, in order, queued or sent.  Only the Close frames that    *)
(* refuse frame n + 1 may follow.                                          *)
(***************************************************************************)
AnswersFaithful ==
    \E n \in 0 .. Len(frames) :
      LET given == answers \o response_buffer_
          owed  == RepliesUpTo(n)
      IN  /\ request_buffer_ = SubSeq(Stream, Len(UnitsUpTo(n)) + 1, units_received)
          /\ \A i \in 1 .. n : Acceptable(frames[i])
          /\ IsPrefix(owed, given)
          /\ \A k \in Len(owed) + 1 .. Len(given) :
               given[k] = [op |-> "close", to |-> n + 1] /\ ~Acceptable(frames[n + 1])

(***************************************************************************)
(* Between two events no frame that could be answered or refused waits in  *)
(* request_buffer_, frames the client sent before it had the 101 included: *)
(* epoll will not report those bytes again.  Once a Close is queued what   *)
(* follows may stay.                                                       *)
(***************************************************************************)
NoFrameForgotten ==
    In("idle") =>
      websocket_close_after_write_ \/ (~refused /\ ~complete)

(***************************************************************************)
(* As long as the client makes room for them, all answers are sent and a   *)
(* connection with a Close in its answers is closed, however many frames   *)
(* were processed after it.                                                *)
(***************************************************************************)
AnswersDelivered ==
    []<>(Len(answers) - answers_read < EndpointRoom)
      => []<>(endpoint_phase = "websocket" =>
                response_buffer_ = <<>> /\ ~websocket_close_after_write_)
============================================================================
