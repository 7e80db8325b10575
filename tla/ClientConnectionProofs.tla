----------------------- MODULE ClientConnectionProofs -----------------------
(***************************************************************************)
(* Proofs about ClientConnection: the cap on the requests of a connection, *)
(* the bound on its buffer, the header timeout and the integrity of        *)
(* pipelined requests, for every limit, timeout, chunk and record size.    *)
(***************************************************************************)
EXTENDS ClientConnection, CommonLemmas

Timers == [started : Ages, body : Ages, waiting : BOOLEAN]

----------------------------------------------------------------------------
(* The operators the actions are built from.                               *)

\* The constants are numbers, and no timeout reaches MaxAge.
LEMMA Constants ==
    /\ max_request_bytes \in Nat /\ http_keep_alive_max_requests \in Nat
    /\ MaxBody \in Nat /\ MaxUnits \in Nat
    /\ ReadSize \in Nat /\ ReadSize >= 1 /\ RecordSize \in Nat /\ RecordSize >= 1
    /\ header_timeout_seconds \in Nat /\ header_timeout_seconds >= 1
    /\ MaxAge \in Nat /\ header_timeout_seconds < MaxAge
  <1> DEFINE T == {request_timeout_seconds, header_timeout_seconds, body_timeout_seconds,
                   idle_timeout_seconds}
  <1>1. T \subseteq Nat \ {0}
    BY ConnectionAssumption
  <1>2. \E x \in T : \A y \in T : x >= y
    BY <1>1
  <1>3. Max(T) \in T /\ \A y \in T : Max(T) >= y
    <2> HIDE DEF T
    <2>1. QED
      BY <1>2, Zenon DEF Max
  <1>4. MaxAge = Max(T) + 1
    BY Zenon DEF MaxAge
  <1> HIDE DEF MaxAge
  <1>5. Max(T) \in Nat /\ header_timeout_seconds <= Max(T)
    BY <1>1, <1>3
  <1>6. QED
    BY <1>4, <1>5, ConnectionAssumption

LEMMA AgesAre ==
    /\ Unset \in Ages /\ 0 \in Ages /\ Ages \subseteq Int
    /\ \A a \in Ages : a = Unset \/ a \in 0 .. MaxAge
  BY Constants DEF Ages, Unset

LEMMA OlderAge ==
    ASSUME NEW a \in Ages
    PROVE  /\ Older(a) \in Ages
           /\ a = Unset <=> Older(a) = Unset
           /\ a # Unset => Older(a) <= a + 1
           /\ a # Unset /\ a < MaxAge => Older(a) = a + 1
  <1>1. CASE a = Unset
    BY <1>1, AgesAre DEF Older
  <1>2. CASE a # Unset
    <2>1. a \in 0 .. MaxAge /\ MaxAge \in Nat
      BY <1>2, AgesAre, Constants
    <2>2. Older(a) = Min({a + 1, MaxAge})
      BY <1>2, Zenon DEF Older
    <2>3. /\ Min({a + 1, MaxAge}) \in {a + 1, MaxAge}
          /\ Min({a + 1, MaxAge}) <= a + 1 /\ Min({a + 1, MaxAge}) <= MaxAge
      BY <2>1, MinOfTwo
    <2> HIDE DEF Older
    <2>4. QED
      BY <1>2, <2>1, <2>2, <2>3 DEF Ages, Unset
  <1>3. QED
    BY <1>1, <1>2

LEMMA UnitAt ==
    ASSUME NEW s \in Seq(Unit), NEW i \in 1 .. Len(s)
    PROVE  /\ s[i] \in Unit
           /\ s[i].t \in {"part", "end", "data", "junk"} /\ s[i].id \in Nat
           /\ s[i].framing \in Framings /\ s[i].n \in Nat
  <1>1. s[i] \in Unit
    OBVIOUS
  <1>2. QED
    BY <1>1, Constants DEF Unit

LEMMA RestOf ==
    ASSUME NEW s \in Seq(Unit), NEW n \in 0 .. Len(s)
    PROVE  /\ Rest(s, n) \in Seq(Unit)
           /\ Len(Rest(s, n)) = Len(s) - n
           /\ \A i \in 1 .. Len(s) - n : Rest(s, n)[i] = s[n + i]
           /\ n = Len(s) => Rest(s, n) = <<>>
  BY DEF Rest

LEMMA HeadOf ==
    ASSUME NEW s \in Seq(Unit), NEW n \in 0 .. Len(s)
    PROVE  /\ SubSeq(s, 1, n) \in Seq(Unit)
           /\ Len(SubSeq(s, 1, n)) = n
           /\ \A i \in 1 .. n : SubSeq(s, 1, n)[i] = s[i]
  OBVIOUS

\* header_end finds the first end of a header there is.
LEMMA HeaderEnd ==
    ASSUME NEW buf \in Seq(Unit)
    PROVE  /\ header_end(buf) \in 0 .. Len(buf)
           /\ \A i \in 1 .. Len(buf) : i < header_end(buf) => buf[i].t # "end"
           /\ header_end(buf) = 0 => \A i \in 1 .. Len(buf) : buf[i].t # "end"
           /\ header_end(buf) # 0 => buf[header_end(buf)].t = "end"
  <1> DEFINE I == {i \in 1 .. Len(buf) : buf[i].t = "end"}
  <1>1. header_end(buf) = IF I # {} THEN Min(I) ELSE 0
    BY Zenon DEF header_end, SelectInSeq
  <1>2. I \in SUBSET Nat
    OBVIOUS
  <1>3. CASE I = {}
    BY <1>1, <1>3
  <1>4. CASE I # {}
    <2>1. header_end(buf) \in I /\ \A y \in I : header_end(buf) <= y
      <3> HIDE DEF I
      <3>1. QED
        BY <1>1, <1>2, <1>4, Least
    <2>2. QED
      BY <2>1
  <1>5. QED
    BY <1>3, <1>4

(***************************************************************************)
(* What next_http1_request_frame may answer: it takes no more than there   *)
(* is, waits only below max_request_bytes and only for the end of a        *)
(* header, and takes the header, or the header and its body, exactly.      *)
(***************************************************************************)
LEMMA RequestFrame ==
    ASSUME NEW buf \in Seq(Unit)
    PROVE  LET frame == next_http1_request_frame(buf)
               h == header_end(buf)
           IN  /\ frame.state \in {"incomplete", "error", "header_complete", "complete"}
               /\ frame.consumed \in 0 .. Len(buf)
               /\ frame.state = "incomplete" => h = 0 /\ Len(buf) <= max_request_bytes
               /\ frame.state = "header_complete" =>
                    h > 0 /\ frame.consumed = h /\ Len(buf) < h + buf[h].n
               /\ frame.state = "complete" =>
                    h > 0 /\ frame.consumed = h + buf[h].n
  <1> DEFINE h == header_end(buf)
             end == buf[h]
             total == h + end.n
             malformed == /\ end.framing = "chunked"
                          /\ LET body == SubSeq(buf, h + 1, Min({total, Len(buf)}))
                             IN  \E k \in DOMAIN body : body[k].t = "junk"
             size == IF end.framing = "chunked" THEN Min({Len(buf), total}) ELSE total
             frame == next_http1_request_frame(buf)
             F(state, consumed) == [state |-> state, consumed |-> consumed]
  <1>1. frame = CASE header_too_large(buf, h)           -> F("error", h)
                  [] h = 0 /\ ~header_too_large(buf, 0) -> F("incomplete", 0)
                  [] OTHER ->
                       IF end.framing = "bad" \/ malformed THEN F("error", h)
                       ELSE IF size > max_request_bytes     THEN F("error", Len(buf))
                       ELSE IF Len(buf) < total             THEN F("header_complete", h)
                       ELSE F("complete", total)
    BY Zenon DEF next_http1_request_frame
  <1>2. h \in 0 .. Len(buf) /\ Len(buf) \in Nat
    BY HeaderEnd
  <1>3. h > 0 => end.n \in Nat
    <2> HIDE DEF h
    <2>1. QED
      BY <1>2, UnitAt
  <1>4. \A x : header_too_large(buf, x) <=>
                 (IF x = 0 THEN Len(buf) ELSE x) > max_request_bytes
    BY DEF header_too_large
  <1> HIDE DEF h, end, malformed, size
  <1>5. \/ header_too_large(buf, h) /\ frame = F("error", h)
        \/ h = 0 /\ Len(buf) <= max_request_bytes /\ frame = F("incomplete", 0)
        \/ /\ h > 0
           /\ \/ frame = F("error", h)
              \/ frame = F("error", Len(buf))
              \/ Len(buf) < total /\ frame = F("header_complete", h)
              \/ ~(Len(buf) < total) /\ frame = F("complete", total)
    <2> HIDE DEF frame
    <2>1. QED
      BY <1>1, <1>2, <1>4, Constants
  <1>6. QED
    <2> HIDE DEF frame
    <2>1. /\ frame.state \in {"incomplete", "error", "header_complete", "complete"}
          /\ frame.consumed \in 0 .. Len(buf)
          /\ frame.state = "incomplete" => h = 0 /\ Len(buf) <= max_request_bytes
          /\ frame.state = "header_complete" =>
               h > 0 /\ frame.consumed = h /\ Len(buf) < total
          /\ frame.state = "complete" => h > 0 /\ frame.consumed = total
      BY <1>2, <1>3, <1>5
    <2>2. QED
      BY <2>1, Zenon DEF frame, h, end

----------------------------------------------------------------------------
(***************************************************************************)
(* What reading comes to.  Every path through process_http1_body_stream    *)
(* and process_buffered_request is one of: the header is not complete, the *)
(* body is not complete, the request is dispatched, upgraded or refused.   *)
(***************************************************************************)

\* The stream waits for more; it has taken everything there was.
StreamGoesOn(stream, t) ==
    /\ http1_body_stream_' = stream /\ request_buffer_' = <<>>
    /\ SetTimers(t)
    /\ phase_' = "reading"
    /\ UNCHANGED <<after_response, reverse_proxy_keep_alive_, requests_served_, dispatched>>

Dispatches(id, rest) ==
    /\ http1_body_stream_' = NoStream /\ request_buffer_' = rest
    /\ SetTimers(Restarted(rest))
    /\ dispatch_request(id)

Refuses(left, t) ==
    /\ http1_body_stream_' = NoStream /\ request_buffer_' = left
    /\ SetTimers(t)
    /\ Respond("close")
    /\ UNCHANGED <<requests_served_, dispatched>>

\* The stream once it has taken the first k units of buf.
Fed(stream, buf, k) ==
    [stream EXCEPT !.received = stream.received + k,
                   !.id = IF \A i \in 1 .. k : buf[i].id = stream.id THEN stream.id ELSE 0]

LEMMA BodyStream ==
    ASSUME NEW stream \in Streams, stream.received <= stream.content_length,
           NEW buf \in Seq(Unit), NEW t \in Timers,
           process_http1_body_stream(stream, buf, t)
    PROVE  LET wanted == stream.content_length - stream.received
           IN  \/ \E u \in Timers : Refuses(<<>>, u)
               \/ Len(buf) < wanted /\ StreamGoesOn(Fed(stream, buf, Len(buf)), t)
               \/ wanted <= Len(buf) /\ Dispatches(Fed(stream, buf, wanted).id, Rest(buf, wanted))
  <1> DEFINE wanted == stream.content_length - stream.received
             take == Min({wanted, Len(buf)})
             got == stream.received + take
             malformed == /\ stream.chunked
                          /\ \/ \E k \in 1 .. take : buf[k].t = "junk"
                             \/ Min({got, stream.content_length - 1}) > stream.max_body_bytes
             id == IF \A k \in 1 .. take : buf[k].id = stream.id THEN stream.id ELSE 0
  <1>1. /\ stream.received \in Nat /\ stream.content_length \in Nat /\ Len(buf) \in Nat
        /\ wanted \in Nat
    BY DEF Streams
  <1>2. take \in {wanted, Len(buf)} /\ take <= wanted /\ take <= Len(buf)
    <2> HIDE DEF wanted
    <2>1. wanted \in Int /\ Len(buf) \in Int
      BY <1>1
    <2>2. QED
      BY <2>1, MinOfTwo, Zenon
  <1>3. Fed(stream, buf, take) = [stream EXCEPT !.received = got, !.id = id]
    BY Zenon DEF Fed
  <1>4. Fed(stream, buf, take).id = id
    BY <1>3 DEF Streams
  <1> HIDE DEF take, wanted, id, malformed, got
  <1>5. \/ malformed /\ fail_http1_body_stream(t)
        \/ /\ take > 0
           /\ http1_body_stream_' = NoStream /\ request_buffer_' = <<>>
           /\ SetTimers(t)
           /\ Respond("close")
           /\ UNCHANGED <<requests_served_, dispatched>>
        \/ /\ ~malformed /\ got < stream.content_length
           /\ http1_body_stream_' = [stream EXCEPT !.received = got, !.id = id]
           /\ request_buffer_' = Rest(buf, take)
           /\ SetTimers(t)
           /\ phase_' = "reading"
           /\ UNCHANGED <<after_response, reverse_proxy_keep_alive_, requests_served_,
                          dispatched>>
        \/ /\ ~malformed /\ got = stream.content_length
           /\ http1_body_stream_' = NoStream
           /\ request_buffer_' = Rest(buf, take)
           /\ SetTimers(Restarted(Rest(buf, take)))
           /\ dispatch_request(id)
    BY Zenon DEF process_http1_body_stream, take, wanted, id, malformed, got
  <1>6. CASE malformed /\ fail_http1_body_stream(t)
    <2> DEFINE u == [t EXCEPT !.body = Unset, !.waiting = FALSE]
    <2>1. u \in Timers
      BY AgesAre DEF Timers
    <2>2. Refuses(<<>>, u)
      BY <1>6, Zenon DEF fail_http1_body_stream, Refuses
    <2>3. QED
      BY <2>1, <2>2, Zenon
  <1>7. CASE /\ http1_body_stream_' = NoStream /\ request_buffer_' = <<>>
             /\ SetTimers(t)
             /\ Respond("close")
             /\ UNCHANGED <<requests_served_, dispatched>>
    <2>1. Refuses(<<>>, t)
      BY <1>7, Zenon DEF Refuses
    <2>2. QED
      BY <2>1, Zenon
  <1>8. CASE /\ got < stream.content_length
             /\ http1_body_stream_' = [stream EXCEPT !.received = got, !.id = id]
             /\ request_buffer_' = Rest(buf, take)
             /\ SetTimers(t)
             /\ phase_' = "reading"
             /\ UNCHANGED <<after_response, reverse_proxy_keep_alive_, requests_served_,
                            dispatched>>
    <2>1. take = Len(buf) /\ Len(buf) < wanted
      BY <1>1, <1>2, <1>8 DEF got, wanted
    <2>2. Rest(buf, take) = <<>>
      BY <2>1, <1>1, RestOf
    <2>3. StreamGoesOn(Fed(stream, buf, Len(buf)), t)
      BY <1>3, <1>8, <2>1, <2>2, Zenon DEF StreamGoesOn
    <2>4. QED
      BY <2>1, <2>3, Zenon DEF wanted
  <1>9. CASE /\ got = stream.content_length
             /\ http1_body_stream_' = NoStream
             /\ request_buffer_' = Rest(buf, take)
             /\ SetTimers(Restarted(Rest(buf, take)))
             /\ dispatch_request(id)
    <2>1. take = wanted /\ wanted <= Len(buf)
      BY <1>1, <1>2, <1>9 DEF got, wanted
    <2>2. Dispatches(Fed(stream, buf, wanted).id, Rest(buf, wanted))
      BY <1>4, <1>9, <2>1, Zenon DEF Dispatches
    <2>3. QED
      BY <2>1, <2>2, Zenon DEF wanted
  <1>10. QED
    BY <1>5, <1>6, <1>7, <1>8, <1>9, Zenon

\* The stream of a body whose header, of length h, is at the head of buf.
Opened(buf, h) ==
    [id |-> IdOf(SubSeq(buf, 1, h)), received |-> 0, content_length |-> buf[h].n,
     max_body_bytes |-> IF max_request_bytes > h THEN max_request_bytes - h ELSE 0,
     chunked |-> buf[h].framing = "chunked"]

LEMMA IdOfHead ==
    ASSUME NEW buf \in Seq(Unit), NEW n \in 1 .. Len(buf)
    PROVE  IdOf(SubSeq(buf, 1, n)) \in Nat
  <1>1. SubSeq(buf, 1, n)[1] = buf[1] /\ 1 \in 1 .. Len(buf)
    BY HeadOf
  <1>2. SubSeq(buf, 1, n)[1].id \in Nat
    BY <1>1, UnitAt
  <1>3. QED
    BY <1>2 DEF IdOf

LEMMA OpenedTyped ==
    ASSUME NEW buf \in Seq(Unit), NEW h \in 1 .. Len(buf)
    PROVE  Opened(buf, h) \in Streams
  <1>1. IdOf(SubSeq(buf, 1, h)) \in Nat
    BY IdOfHead
  <1>2. buf[h].n \in Nat
    BY UnitAt
  <1>3. (IF max_request_bytes > h THEN max_request_bytes - h ELSE 0) \in Nat
    BY Constants
  <1>4. (buf[h].framing = "chunked") \in BOOLEAN
    BY Zenon
  <1>5. QED
    BY <1>1, <1>2, <1>3, <1>4 DEF Opened, Streams

LEMMA BufferedRequest ==
    ASSUME NEW buf \in Seq(Unit), NEW t \in Timers,
           http1_body_stream_ = NoStream,
           process_buffered_request(buf, t)
    PROVE  LET h == header_end(buf)
               n == h + buf[h].n
           IN  \/ h = 0 /\ Len(buf) <= max_request_bytes /\ frame_incomplete(buf, t)
               \/ \E k \in 0 .. Len(buf), u \in Timers : Refuses(Rest(buf, k), u)
               \/ /\ h > 0 /\ n <= Len(buf) /\ buf[h].framing = "upgrade"
                  /\ try_handle_websocket_upgrade(buf, n, t)
               \/ /\ h > 0 /\ Len(buf) < n
                  /\ \E u \in Timers :
                       StreamGoesOn(Fed(Opened(buf, h), Rest(buf, h), Len(buf) - h), u)
               \/ /\ h > 0 /\ n <= Len(buf) /\ buf[h].framing # "upgrade"
                  /\ Dispatches(IdOf(SubSeq(buf, 1, n)), Rest(buf, n))
  <1> DEFINE frame == next_http1_request_frame(buf)
             h == header_end(buf)
             n == h + buf[h].n
  <1>1. /\ frame.state \in {"incomplete", "error", "header_complete", "complete"}
        /\ frame.consumed \in 0 .. Len(buf)
        /\ frame.state = "incomplete" => h = 0 /\ Len(buf) <= max_request_bytes
        /\ frame.state = "header_complete" =>
             h > 0 /\ frame.consumed = h /\ Len(buf) < n
        /\ frame.state = "complete" => h > 0 /\ frame.consumed = n
    BY RequestFrame, Zenon
  <1>2. \/ frame.state = "incomplete" /\ frame_incomplete(buf, t)
        \/ frame.state = "error" /\ frame_error(Rest(buf, frame.consumed), t)
        \/ /\ frame.state = "complete" /\ buf[h].framing = "upgrade"
           /\ try_handle_websocket_upgrade(buf, frame.consumed, t)
        \/ /\ frame.state = "header_complete"
           /\ start_http1_body_stream(buf, frame.consumed, t)
        \/ /\ frame.state = "complete" /\ buf[h].framing # "upgrade"
           /\ frame_complete(buf, frame.consumed)
    BY Zenon DEF process_buffered_request
  <1>3. h \in 0 .. Len(buf) /\ Len(buf) \in Nat
    BY HeaderEnd
  <1>4. h > 0 => buf[h].n \in Nat
    <2> HIDE DEF h
    <2>1. QED
      BY <1>3, UnitAt
  <1> HIDE DEF frame, h, n
  <1>5. CASE frame.state = "incomplete" /\ frame_incomplete(buf, t)
    BY <1>1, <1>5, Zenon DEF h
  <1>6. CASE frame.state = "error" /\ frame_error(Rest(buf, frame.consumed), t)
    <2>1. Refuses(Rest(buf, frame.consumed), t)
      BY <1>6, Zenon DEF frame_error, Refuses
    <2>2. QED
      BY <1>1, <2>1, Zenon
  <1>7. CASE /\ frame.state = "complete" /\ buf[h].framing = "upgrade"
             /\ try_handle_websocket_upgrade(buf, frame.consumed, t)
    <2>1. n <= Len(buf)
      BY <1>1, <1>7
    <2>2. QED
      BY <1>1, <1>7, <2>1, Zenon DEF h, n
  <1>8. CASE /\ frame.state = "complete" /\ buf[h].framing # "upgrade"
             /\ frame_complete(buf, frame.consumed)
    <2>1. n <= Len(buf)
      BY <1>1, <1>8
    <2>2. Dispatches(IdOf(SubSeq(buf, 1, n)), Rest(buf, n))
      BY <1>1, <1>8, Zenon DEF Dispatches, frame_complete
    <2>3. QED
      BY <1>1, <1>8, <2>1, <2>2, Zenon DEF h, n
  <1>9. CASE /\ frame.state = "header_complete"
             /\ start_http1_body_stream(buf, frame.consumed, t)
    <2> DEFINE u == [t EXCEPT !.waiting = TRUE, !.body = IF t.body = Unset THEN 0 ELSE t.body]
               data == Rest(buf, h)
    <2>1. u \in Timers
      BY AgesAre DEF Timers
    <2>2. h > 0 /\ Len(buf) < n /\ h \in 1 .. Len(buf)
      BY <1>1, <1>3, <1>9
    <2>3. process_http1_body_stream(Opened(buf, h), data, u)
      BY <1>1, <1>9, Zenon DEF start_http1_body_stream, Opened
    <2>4. data \in Seq(Unit) /\ Len(data) = Len(buf) - h
      BY <2>2, RestOf
    <2>5. Opened(buf, h) \in Streams
      BY <2>2, OpenedTyped
    <2>6. Opened(buf, h).received = 0 /\ Opened(buf, h).content_length = buf[h].n
      BY DEF Opened
    <2> HIDE DEF u, data
    <2> DEFINE wanted == Opened(buf, h).content_length - Opened(buf, h).received
    <2>7. Opened(buf, h).received <= Opened(buf, h).content_length
      BY <1>4, <2>2, <2>6
    <2>8. \/ \E v \in Timers : Refuses(<<>>, v)
          \/ Len(data) < wanted /\ StreamGoesOn(Fed(Opened(buf, h), data, Len(data)), u)
          \/ wanted <= Len(data) /\ Dispatches(Fed(Opened(buf, h), data, wanted).id, Rest(data, wanted))
      BY <2>1, <2>3, <2>4, <2>5, <2>7, BodyStream, Zenon
    <2>9. Len(data) < wanted /\ ~(wanted <= Len(data))
      <3>1. buf[h].n \in Nat /\ h \in Nat
        BY <1>3, <1>4, <2>2
      <3> QED
        BY <1>3, <3>1, <2>2, <2>4, <2>6 DEF n
    <2>10. CASE \E v \in Timers : Refuses(<<>>, v)
      <3>1. <<>> = Rest(buf, Len(buf)) /\ Len(buf) \in 0 .. Len(buf)
        BY <1>3, RestOf
      <3>2. QED
        BY <2>10, <3>1, Zenon
    <2>11. CASE StreamGoesOn(Fed(Opened(buf, h), data, Len(data)), u)
      BY <2>1, <2>2, <2>4, <2>11, Zenon DEF data, h, n
    <2>12. QED
      BY <2>8, <2>9, <2>10, <2>11, Zenon
  <1>10. QED
    BY <1>2, <1>5, <1>6, <1>7, <1>8, <1>9, Zenon

Outcome(buf, t) ==
    \/ /\ header_end(buf) = 0 /\ Len(buf) <= max_request_bytes
       /\ frame_incomplete(buf, t) /\ http1_body_stream_' = NoStream
    \/ \E k \in 0 .. Len(buf), u \in Timers : Refuses(Rest(buf, k), u)
    \/ /\ http1_body_stream_' = NoStream
       /\ \E k \in 1 .. Len(buf) : try_handle_websocket_upgrade(buf, k, t)
    \/ \E s \in Streams, u \in Timers :
         s.received < s.content_length /\ StreamGoesOn(s, u)
    \/ \E k \in 0 .. Len(buf), id \in Nat : Dispatches(id, Rest(buf, k))

LEMMA FedTyped ==
    ASSUME NEW stream \in Streams, NEW buf, NEW k \in Nat
    PROVE  /\ Fed(stream, buf, k) \in Streams
           /\ Fed(stream, buf, k).received = stream.received + k
           /\ Fed(stream, buf, k).content_length = stream.content_length
           /\ Fed(stream, buf, k).id \in Nat
  <1> DEFINE id == IF \A i \in 1 .. k : buf[i].id = stream.id THEN stream.id ELSE 0
  <1>1. Fed(stream, buf, k) = [stream EXCEPT !.received = stream.received + k, !.id = id]
    BY Zenon DEF Fed
  <1>2. id \in Nat /\ stream.received + k \in Nat
    BY DEF Streams
  <1> HIDE DEF id, Fed
  <1>3. QED
    BY <1>1, <1>2 DEF Streams

LEMMA BufferedOutcome ==
    ASSUME NEW buf \in Seq(Unit), NEW t \in Timers, http1_body_stream_ = NoStream,
           process_buffered_request(buf, t)
    PROVE  Outcome(buf, t)
  <1> DEFINE h == header_end(buf)
             n == h + buf[h].n
             body == Fed(Opened(buf, h), Rest(buf, h), Len(buf) - h)
  <1>1. \/ h = 0 /\ Len(buf) <= max_request_bytes /\ frame_incomplete(buf, t)
        \/ \E k \in 0 .. Len(buf), u \in Timers : Refuses(Rest(buf, k), u)
        \/ h > 0 /\ n <= Len(buf) /\ try_handle_websocket_upgrade(buf, n, t)
        \/ h > 0 /\ Len(buf) < n /\ \E u \in Timers : StreamGoesOn(body, u)
        \/ /\ h > 0 /\ n <= Len(buf)
           /\ Dispatches(IdOf(SubSeq(buf, 1, n)), Rest(buf, n))
    BY BufferedRequest, Zenon
  <1>2. h \in 0 .. Len(buf) /\ Len(buf) \in Nat
    BY HeaderEnd
  <1>3. h > 0 => buf[h].n \in Nat
    <2> HIDE DEF h
    <2>1. QED
      BY <1>2, UnitAt
  <1>4. CASE h = 0 /\ Len(buf) <= max_request_bytes /\ frame_incomplete(buf, t)
    <2>1. http1_body_stream_' = NoStream
      BY <1>4 DEF frame_incomplete
    <2>2. QED
      BY <1>4, <2>1, Zenon DEF Outcome
  <1>5. CASE h > 0 /\ n <= Len(buf) /\ try_handle_websocket_upgrade(buf, n, t)
    <2>1. http1_body_stream_' = NoStream
      BY <1>5 DEF try_handle_websocket_upgrade
    <2> HIDE DEF h
    <2>2. n \in 1 .. Len(buf)
      BY <1>2, <1>3, <1>5
    <2>3. QED
      BY <1>5, <2>1, <2>2, Zenon DEF Outcome
  <1>6. CASE h > 0 /\ Len(buf) < n /\ \E u \in Timers : StreamGoesOn(body, u)
    <2>1. PICK u \in Timers : StreamGoesOn(body, u)
      BY <1>6
    <2>2. Opened(buf, h) \in Streams
      BY <1>2, <1>6, OpenedTyped
    <2>3. Opened(buf, h).received = 0 /\ Opened(buf, h).content_length = buf[h].n
      BY DEF Opened
    <2> HIDE DEF h
    <2>4. Len(buf) - h \in Nat
      BY <1>2
    <2>5. body \in Streams /\ body.received = 0 + (Len(buf) - h) /\ body.content_length = buf[h].n
      BY <2>2, <2>3, <2>4, FedTyped, Zenon
    <2> HIDE DEF body
    <2>6. body.received < body.content_length
      BY <1>2, <1>3, <1>6, <2>5
    <2>7. QED
      BY <2>1, <2>5, <2>6, Zenon DEF Outcome
  <1>7. CASE /\ h > 0 /\ n <= Len(buf)
             /\ Dispatches(IdOf(SubSeq(buf, 1, n)), Rest(buf, n))
    <2> HIDE DEF h
    <2>1. n \in 1 .. Len(buf)
      BY <1>2, <1>3, <1>7
    <2> HIDE DEF n
    <2>2. IdOf(SubSeq(buf, 1, n)) \in Nat
      BY <2>1, IdOfHead, Zenon
    <2>3. n \in 0 .. Len(buf)
      BY <2>1
    <2>4. QED
      BY <1>7, <2>2, <2>3, Zenon DEF Outcome
  <1>8. QED
    BY <1>1, <1>4, <1>5, <1>6, <1>7, Zenon DEF Outcome

LEMMA AppendOutcome ==
    ASSUME TypeOK, http1_body_stream_ # NoStream =>
                     http1_body_stream_.received < http1_body_stream_.content_length,
           NEW data \in Seq(Unit), append_request_bytes(data)
    PROVE  \E t \in Timers :
             /\ t.started = IF request_buffer_ = <<>> THEN 0 ELSE request_started_at_
             /\ Outcome(request_buffer_ \o data, t)
  <1> DEFINE buf == request_buffer_ \o data
             t == IF request_buffer_ = <<>>
                    THEN [started |-> 0, body |-> Unset, waiting |-> FALSE]
                    ELSE [started |-> request_started_at_, body |-> body_started_at_,
                          waiting |-> waiting_for_body_]
             s == http1_body_stream_
  <1>1. /\ buf \in Seq(Unit) /\ s \in Streams /\ waiting_for_body_ \in BOOLEAN
        /\ request_started_at_ \in Ages /\ body_started_at_ \in Ages
    BY DEF TypeOK
  <1>2. /\ t \in Timers
        /\ t.started = IF request_buffer_ = <<>> THEN 0 ELSE request_started_at_
    BY <1>1, AgesAre DEF Timers
  <1>3. IF s # NoStream THEN process_http1_body_stream(s, buf, t)
                        ELSE process_buffered_request(buf, t)
    BY Zenon DEF append_request_bytes
  <1> HIDE DEF buf, t
  <1>4. CASE s = NoStream
    BY <1>1, <1>2, <1>3, <1>4, BufferedOutcome, Zenon DEF buf
  <1>5. CASE s # NoStream
    <2> DEFINE wanted == s.content_length - s.received
    <2>1. /\ s.received \in Nat /\ s.content_length \in Nat
          /\ s.received <= s.content_length /\ wanted \in Nat /\ Len(buf) \in Nat
      BY <1>1, <1>5 DEF Streams
    <2>2. \/ \E u \in Timers : Refuses(<<>>, u)
          \/ Len(buf) < wanted /\ StreamGoesOn(Fed(s, buf, Len(buf)), t)
          \/ wanted <= Len(buf) /\ Dispatches(Fed(s, buf, wanted).id, Rest(buf, wanted))
      BY <1>1, <1>2, <1>3, <1>5, <2>1, BodyStream, Zenon
    <2>3. CASE \E u \in Timers : Refuses(<<>>, u)
      <3>1. <<>> = Rest(buf, Len(buf)) /\ Len(buf) \in 0 .. Len(buf)
        BY <1>1, <2>1, RestOf
      <3>2. QED
        BY <1>2, <2>3, <3>1, Zenon DEF Outcome, buf
    <2>4. CASE Len(buf) < wanted /\ StreamGoesOn(Fed(s, buf, Len(buf)), t)
      <3>1. /\ Fed(s, buf, Len(buf)) \in Streams
            /\ Fed(s, buf, Len(buf)).received = s.received + Len(buf)
            /\ Fed(s, buf, Len(buf)).content_length = s.content_length
        BY <1>1, <2>1, FedTyped, Zenon
      <3>2. Fed(s, buf, Len(buf)).received < Fed(s, buf, Len(buf)).content_length
        BY <2>1, <2>4, <3>1
      <3>3. QED
        BY <1>2, <2>4, <3>1, <3>2, Zenon DEF Outcome, buf
    <2>5. CASE wanted <= Len(buf) /\ Dispatches(Fed(s, buf, wanted).id, Rest(buf, wanted))
      <3>1. wanted \in 0 .. Len(buf)
        BY <2>1, <2>5
      <3>2. Fed(s, buf, wanted).id \in Nat
        BY <1>1, <2>1, FedTyped, Zenon
      <3>3. QED
        BY <1>2, <2>5, <3>1, <3>2, Zenon DEF Outcome, buf
    <2>6. QED
      BY <2>2, <2>3, <2>4, <2>5, Zenon
  <1>6. QED
    BY <1>4, <1>5

----------------------------------------------------------------------------
(***************************************************************************)
(* Types.  A stream wants at least one more unit, and exists only while    *)
(* the connection reads or is on its way out: what the stream takes is     *)
(* typed only because of it.                                               *)
(***************************************************************************)
Streaming ==
    http1_body_stream_ # NoStream =>
      /\ http1_body_stream_.received < http1_body_stream_.content_length
      /\ \/ phase_ \in {"reading", "tls_shutdown", "closed"}
         \/ phase_ = "writing" /\ after_response = "close"

\* Every request of the client has cost it a unit.
Counted == requests <= sent

\* Only TLS has records.
Plain == ~tls => pending = <<>>

Typed == TypeOK /\ Counted /\ Plain /\ Streaming

\* The part of it that reading may change.
ReadTyped ==
    /\ phase_ \in ClientPhase
    /\ request_buffer_ \in Seq(Unit)
    /\ http1_body_stream_ \in Streams
    /\ after_response \in {"close", "keep_alive", "websocket", "websocket_proxy"}
    /\ reverse_proxy_keep_alive_ \in BOOLEAN
    /\ requests_served_ \in Nat
    /\ request_started_at_ \in Ages /\ body_started_at_ \in Ages
    /\ waiting_for_body_ \in BOOLEAN
    /\ dispatched \in Seq(Nat)
    /\ Streaming

LEMMA NoStreamTyped == NoStream \in Streams
  BY DEF NoStream, Streams

LEMMA TimersTyped ==
    ASSUME NEW t \in Timers, SetTimers(t)
    PROVE  /\ request_started_at_' \in Ages /\ body_started_at_' \in Ages
           /\ waiting_for_body_' \in BOOLEAN
  BY DEF SetTimers, Timers

LEMMA RestartedTyped == \A rest : Restarted(rest) \in Timers
  BY AgesAre DEF Restarted, Timers

LEMMA DispatchTyped ==
    ASSUME TypeOK, NEW id \in Nat, dispatch_request(id)
    PROVE  /\ phase_' \in {"writing", "reverse_proxy"}
           /\ after_response' \in {"close", "keep_alive", "websocket", "websocket_proxy"}
           /\ reverse_proxy_keep_alive_' \in BOOLEAN
           /\ requests_served_' \in Nat
           /\ dispatched' = Append(dispatched, id)
           /\ dispatched' \in Seq(Nat)
  <1>1. requests_served_ + 1 \in Nat
    BY DEF TypeOK
  <1> DEFINE keep(wanted) == keep_alive_allowed(requests_served_ + 1, wanted)
  <1>2. /\ dispatched' = Append(dispatched, id)
        /\ \/ Respond("close") /\ UNCHANGED requests_served_
           \/ /\ requests_served_' = requests_served_ + 1
              /\ \E wanted \in BOOLEAN :
                   \/ Respond(IF keep(wanted) THEN "keep_alive" ELSE "close")
                   \/ Respond("close")
                   \/ /\ phase_' = "reverse_proxy"
                      /\ reverse_proxy_keep_alive_' = keep(wanted)
                      /\ UNCHANGED after_response
    BY Zenon DEF dispatch_request
  <1>3. \A wanted \in BOOLEAN : keep(wanted) \in BOOLEAN
    BY Zenon DEF keep_alive_allowed
  <1> HIDE DEF keep
  <1>4. dispatched' \in Seq(Nat)
    BY <1>2 DEF TypeOK
  <1>5. QED
    BY <1>1, <1>2, <1>3, <1>4 DEF TypeOK, Respond

LEMMA OutcomeTyped ==
    ASSUME TypeOK, NEW buf \in Seq(Unit), NEW t \in Timers, Outcome(buf, t)
    PROVE  ReadTyped'
  <1>1. CASE frame_incomplete(buf, t) /\ http1_body_stream_' = NoStream
    <2>1. [t EXCEPT !.waiting = FALSE] \in Timers
      BY DEF Timers
    <2>2. SetTimers([t EXCEPT !.waiting = FALSE])
      BY <1>1, Zenon DEF frame_incomplete
    <2>3. QED
      BY <1>1, <2>1, <2>2, TimersTyped, NoStreamTyped
      DEF frame_incomplete, ReadTyped, TypeOK, Streaming, ClientPhase
  <1>2. CASE \E k \in 0 .. Len(buf), u \in Timers : Refuses(Rest(buf, k), u)
    <2>1. PICK k \in 0 .. Len(buf), u \in Timers : Refuses(Rest(buf, k), u)
      BY <1>2
    <2>2. Rest(buf, k) \in Seq(Unit)
      BY RestOf
    <2>3. SetTimers(u)
      BY <2>1 DEF Refuses
    <2>4. QED
      BY <2>1, <2>2, <2>3, TimersTyped, NoStreamTyped
      DEF Refuses, Respond, ReadTyped, TypeOK, Streaming, ClientPhase
  <1>3. CASE /\ http1_body_stream_' = NoStream
             /\ \E k \in 1 .. Len(buf) : try_handle_websocket_upgrade(buf, k, t)
    <2>1. PICK k \in 1 .. Len(buf) : try_handle_websocket_upgrade(buf, k, t)
      BY <1>3
    <2> DEFINE id == IdOf(SubSeq(buf, 1, k))
               u == [t EXCEPT !.started = IF Rest(buf, k) = <<>> THEN Unset ELSE 0]
    <2>2. Rest(buf, k) \in Seq(Unit) /\ <<>> \in Seq(Unit)
      BY RestOf
    <2>3. u \in Timers
      BY AgesAre DEF Timers
    <2>4. id \in Nat
      BY IdOfHead
    <2>5. SetTimers(u) /\ dispatched' = Append(dispatched, id)
      BY <2>1, Zenon DEF try_handle_websocket_upgrade
    <2>6. dispatched' \in Seq(Nat)
      BY <2>4, <2>5 DEF TypeOK
    <2> HIDE DEF u, id
    <2>7. /\ phase_' \in {"writing", "closed"}
          /\ after_response' \in {"close", "keep_alive", "websocket", "websocket_proxy"}
          /\ reverse_proxy_keep_alive_' = reverse_proxy_keep_alive_
          /\ request_buffer_' \in {Rest(buf, k), <<>>}
          /\ requests_served_' \in {requests_served_, requests_served_ + 1}
      BY <2>1 DEF try_handle_websocket_upgrade, Respond, TypeOK
    <2>8. /\ request_started_at_' \in Ages /\ body_started_at_' \in Ages
          /\ waiting_for_body_' \in BOOLEAN
      BY <2>3, <2>5, TimersTyped, Zenon
    <2>9. requests_served_' \in Nat /\ request_buffer_' \in Seq(Unit)
      <3>1. requests_served_ \in Nat /\ requests_served_ + 1 \in Nat
        BY DEF TypeOK
      <3>2. QED
        BY <2>2, <2>7, <3>1, Zenon
    <2>10. QED
      BY <1>3, <2>6, <2>7, <2>8, <2>9, NoStreamTyped
      DEF ReadTyped, TypeOK, Streaming, ClientPhase
  <1>4. CASE \E s \in Streams, u \in Timers :
               s.received < s.content_length /\ StreamGoesOn(s, u)
    <2>1. PICK s \in Streams, u \in Timers :
               s.received < s.content_length /\ StreamGoesOn(s, u)
      BY <1>4
    <2>2. SetTimers(u)
      BY <2>1 DEF StreamGoesOn
    <2>3. QED
      BY <2>1, <2>2, TimersTyped
      DEF StreamGoesOn, ReadTyped, TypeOK, Streaming, ClientPhase
  <1>5. CASE \E k \in 0 .. Len(buf), id \in Nat : Dispatches(id, Rest(buf, k))
    <2>1. PICK k \in 0 .. Len(buf), id \in Nat : Dispatches(id, Rest(buf, k))
      BY <1>5
    <2>2. Rest(buf, k) \in Seq(Unit)
      BY RestOf
    <2>3. /\ SetTimers(Restarted(Rest(buf, k))) /\ dispatch_request(id)
          /\ http1_body_stream_' = NoStream /\ request_buffer_' = Rest(buf, k)
      BY <2>1, Zenon DEF Dispatches
    <2>4. /\ request_started_at_' \in Ages /\ body_started_at_' \in Ages
          /\ waiting_for_body_' \in BOOLEAN
      BY <2>3, TimersTyped, RestartedTyped, Zenon
    <2>5. QED
      BY <2>2, <2>3, <2>4, DispatchTyped, NoStreamTyped DEF ReadTyped, Streaming, ClientPhase
  <1>6. QED
    BY <1>1, <1>2, <1>3, <1>4, <1>5, Zenon DEF Outcome

LEMMA ObserveTyped ==
    ASSUME header_age \in Ages, body_age \in Ages, Observe
    PROVE  header_age' \in Ages /\ body_age' \in Ages
  BY AgesAre DEF Observe

LEMMA InitTyped == Init => Typed
  <1> SUFFICES ASSUME Init PROVE Typed
    OBVIOUS
  <1>1. /\ <<>> \in Seq(Unit) /\ <<>> \in Seq(Nat)
        /\ 0 \in 0 .. MaxUnits /\ 0 \in 0 .. MaxBody
    BY Constants
  <1>2. {last_activity_, request_started_at_, body_started_at_, header_age, body_age}
          \subseteq Ages
    BY AgesAre DEF Init
  <1>3. Counted /\ Plain /\ Streaming
    BY DEF Init, Counted, Plain, Streaming
  <1>4. TypeOK
    BY <1>1, <1>2, NoStreamTyped DEF Init, TypeOK, ClientPhase
  <1>5. QED
    BY <1>3, <1>4 DEF Typed

\* What the client and a client's hang-up may change.
LEMMA ClientTyped == Typed /\ Client => Typed'
  <1> SUFFICES ASSUME Typed, Client PROVE Typed'
    OBVIOUS
  <1> USE DEF Typed
  <1>1. ASSUME NEW u \in Unit, Put(u)
        PROVE  /\ wire' \in Seq(Unit) /\ sent' \in 0 .. MaxUnits /\ sent' = sent + 1
               /\ header_age' \in Ages /\ body_age' \in Ages
    <2>1. Observe
      BY <1>1 DEF Put
    <2>2. QED
      BY <1>1, <2>1, ObserveTyped, Constants DEF TypeOK, Put
  <1>2. ASSUME NEW u, Put(u)
        PROVE  UNCHANGED <<eof, tls, input, outcome, buffers, last_activity_, timers, due>>
    BY <1>2, Zenon DEF Put
  <1>3. ASSUME NEW t \in {"part", "data", "junk"}, NEW id \in Nat
        PROVE  Piece(t, id) \in Unit
    BY Constants DEF Piece, Unit, Framings
  <1>4. /\ requests \in Nat /\ requests + 1 \in Nat /\ sent \in Nat
        /\ requests <= sent /\ MaxUnits \in Nat
    BY Constants DEF TypeOK, Counted
  <1>5. CASE SendHeaderPart
    <2>1. Put(Piece("part", requests + 1)) /\ UNCHANGED <<owed, requests, upgraded>>
      BY <1>5, Zenon DEF SendHeaderPart
    <2>2. Piece("part", requests + 1) \in Unit
      BY <1>3, <1>4
    <2>3. QED
      BY <1>1, <1>2, <2>1, <2>2
      DEF TypeOK, Counted, Plain, Streaming, input, outcome, buffers, timers
  <1>6. ASSUME NEW framing \in Framings, NEW n \in 0 .. MaxBody, SendHeaderEnd(framing, n)
        PROVE  Typed'
    <2>1. Put(End(framing, n, requests + 1))
      BY <1>6, Zenon DEF SendHeaderEnd
    <2>2. owed' = n /\ requests' = requests + 1 /\ upgraded' \in BOOLEAN
      BY <1>6 DEF SendHeaderEnd
    <2>3. End(framing, n, requests + 1) \in Unit
      BY <1>4 DEF End, Unit
    <2>4. /\ wire' \in Seq(Unit) /\ sent' \in 0 .. MaxUnits /\ sent' = sent + 1
          /\ header_age' \in Ages /\ body_age' \in Ages
          /\ UNCHANGED <<eof, tls, input, outcome, buffers, last_activity_, timers, due>>
      BY <1>1, <1>2, <2>1, <2>3, Zenon
    <2>5. requests' \in 0 .. MaxUnits /\ Counted'
      BY <1>4, <2>2, <2>4 DEF Counted
    <2>6. QED
      BY <2>2, <2>4, <2>5
      DEF TypeOK, Plain, Streaming, input, outcome, buffers, timers
  <1>7. ASSUME NEW t \in {"data", "junk"}, SendBody(t)
        PROVE  Typed'
    <2>1. Put(Piece(t, requests))
      BY <1>7, Zenon DEF SendBody
    <2>2. owed' \in 0 .. MaxBody /\ UNCHANGED <<requests, upgraded>>
      BY <1>7, Constants DEF SendBody, TypeOK
    <2>3. Piece(t, requests) \in Unit
      BY <1>3, <1>4
    <2>4. QED
      BY <1>1, <1>2, <2>1, <2>2, <2>3
      DEF TypeOK, Counted, Plain, Streaming, input, outcome, buffers, timers
  <1>8. CASE SendFrame
    <2>1. Put(Piece("data", requests)) /\ UNCHANGED <<owed, requests, upgraded>>
      BY <1>8, Zenon DEF SendFrame
    <2>2. Piece("data", requests) \in Unit
      BY <1>3, <1>4
    <2>3. QED
      BY <1>1, <1>2, <2>1, <2>2
      DEF TypeOK, Counted, Plain, Streaming, input, outcome, buffers, timers
  <1>9. CASE ShutDownSending
    <2>1. header_age' \in Ages /\ body_age' \in Ages
      BY <1>9, ObserveTyped DEF ShutDownSending, TypeOK
    <2>2. QED
      BY <1>9, <2>1
      DEF TypeOK, Counted, Plain, Streaming, input, outcome, buffers, timers, ShutDownSending
  <1>10. QED
    BY <1>5, <1>6, <1>7, <1>8, <1>9, Zenon DEF Client

----------------------------------------------------------------------------
(***************************************************************************)
(* Reading in order: a turn of read_plain_request or read_tls_request      *)
(* takes between one and ReadSize units off the front of what is pending   *)
(* and on the wire, wherever the records are cut.                          *)
(***************************************************************************)
LEMMA Split ==
    ASSUME NEW s \in Seq(Unit), NEW n \in 0 .. Len(s)
    PROVE  SubSeq(s, 1, n) \o Rest(s, n) = s
  <1>1. SubSeq(s, 1, n) \o SubSeq(s, n + 1, Len(s)) = SubSeq(s, 1, Len(s))
    <2>1. 1 \in 1 .. Len(s) + 1 /\ n \in 1 - 1 .. Len(s) /\ Len(s) \in n .. Len(s)
      OBVIOUS
    <2>2. QED
      BY <2>1, ConcatAdjacentSubSeq
  <1>2. QED
    BY <1>1, SubSeqFull DEF Rest

LEMMA Concat ==
    ASSUME NEW s \in Seq(Unit), NEW t \in Seq(Unit)
    PROVE  /\ s \o t \in Seq(Unit) /\ Len(s \o t) = Len(s) + Len(t)
           /\ s \o <<>> = s /\ <<>> \o s = s
  BY ConcatProperties, ConcatEmptySeq

LEMMA Regroup ==
    ASSUME NEW s \in Seq(Unit), NEW t \in Seq(Unit), NEW u \in Seq(Unit)
    PROVE  (s \o t) \o u = s \o (t \o u)
  BY ConcatAssociative

LEMMA ChunkTaken ==
    ASSUME NEW s \in Seq(Unit), NEW m \in Nat
    PROVE  LET take == Min({m, Len(s)})
           IN  /\ take \in 0 .. Len(s) /\ take <= m
               /\ s # <<>> /\ m > 0 => take > 0
               /\ SubSeq(s, 1, take) \in Seq(Unit) /\ Len(SubSeq(s, 1, take)) = take
               /\ Rest(s, take) \in Seq(Unit)
               /\ SubSeq(s, 1, take) \o Rest(s, take) = s
  <1> DEFINE take == Min({m, Len(s)})
  <1>1. m \in Int /\ Len(s) \in Int /\ Len(s) \in Nat
    OBVIOUS
  <1>2. take \in {m, Len(s)} /\ take <= m /\ take <= Len(s)
    BY <1>1, MinOfTwo, Zenon
  <1> HIDE DEF take
  <1>3. take \in 0 .. Len(s) /\ (s # <<>> /\ m > 0 => take > 0)
    BY <1>1, <1>2
  <1>4. SubSeq(s, 1, take) \in Seq(Unit) /\ Len(SubSeq(s, 1, take)) = take
    BY <1>3, HeadOf, Zenon
  <1>5. Rest(s, take) \in Seq(Unit)
    BY <1>3, RestOf, Zenon
  <1>6. SubSeq(s, 1, take) \o Rest(s, take) = s
    BY <1>3, Split, Zenon
  <1>7. QED
    BY <1>2, <1>3, <1>4, <1>5, <1>6, Zenon DEF take

LEMMA ReadsInOrder ==
    ASSUME Typed, Recv \/ SslRead
    PROVE  /\ phase_ = "reading"
           /\ wire' \in Seq(Unit) /\ pending' \in Seq(Unit) /\ in_read_loop' \in BOOLEAN
           /\ ~tls => pending' = <<>>
           /\ \E data \in Seq(Unit) :
                /\ Len(data) \in 1 .. ReadSize
                /\ append_request_bytes(data)
                /\ data \o (pending' \o wire') = pending \o wire
           /\ last_activity_' = 0
           /\ UNCHANGED <<owed, sent, requests, upgraded, eof, tls, due>>
           /\ Observe
  <1>1. /\ wire \in Seq(Unit) /\ pending \in Seq(Unit) /\ in_read_loop \in BOOLEAN
        /\ ~tls => pending = <<>>
    BY DEF Typed, TypeOK, Plain
  <1>2. ReadSize \in Nat /\ ReadSize > 0 /\ RecordSize \in Nat /\ RecordSize > 0
    BY Constants
  <1>3. CASE Recv
    <2> DEFINE take == Min({ReadSize, Len(wire)})
               data == SubSeq(wire, 1, take)
    <2>1. /\ phase_ = "reading" /\ ~tls /\ wire # <<>> /\ wire' = Rest(wire, take)
          /\ append_request_bytes(data)
          /\ last_activity_' = 0
          /\ UNCHANGED <<owed, sent, requests, upgraded, eof, tls, due>>
          /\ UNCHANGED <<pending, in_read_loop>>
          /\ Observe
      BY <1>3 DEF Recv, input
    <2>2. /\ take \in 0 .. Len(wire) /\ take <= ReadSize
          /\ wire # <<>> /\ ReadSize > 0 => take > 0
          /\ data \in Seq(Unit) /\ Len(data) = take
          /\ Rest(wire, take) \in Seq(Unit)
          /\ data \o Rest(wire, take) = wire
      BY <1>1, <1>2, ChunkTaken, Zenon
    <2> HIDE DEF take, data
    <2>3. Len(data) \in 1 .. ReadSize
      BY <1>2, <2>1, <2>2
    <2>4. pending = <<>> /\ pending' = <<>>
      BY <1>1, <2>1
    <2>5. data \o (pending' \o wire') = pending \o wire
      BY <1>1, <2>1, <2>2, <2>4, Concat
    <2>6. QED
      BY <1>1, <2>1, <2>2, <2>3, <2>4, <2>5, Zenon
  <1>4. CASE SslRead
    <2> DEFINE record(size) == pending \o SubSeq(wire, 1, size)
               take(size) == Min({ReadSize, Len(record(size))})
    <2>1. PICK size \in IF pending # <<>> THEN {0} ELSE 1 .. Min({RecordSize, Len(wire)}) :
            /\ wire' = Rest(wire, size)
            /\ pending' = Rest(record(size), take(size))
            /\ append_request_bytes(SubSeq(record(size), 1, take(size)))
      BY <1>4, Zenon DEF SslRead
    <2>2. /\ phase_ = "reading" /\ tls /\ in_read_loop' \in BOOLEAN
          /\ last_activity_' = 0
          /\ UNCHANGED <<owed, sent, requests, upgraded, eof, tls, due>>
          /\ Observe
      BY <1>4 DEF SslRead
    <2>3. Min({RecordSize, Len(wire)}) \in 0 .. Len(wire)
      BY <1>1, <1>2, ChunkTaken, Zenon
    <2>4. size \in 0 .. Len(wire) /\ (pending = <<>> => size > 0)
      <3>1. CASE pending = <<>>
        BY <2>1, <2>3, <3>1
      <3>2. CASE pending # <<>>
        BY <1>1, <2>1, <3>2
      <3>3. QED
        BY <3>1, <3>2
    <2> DEFINE r == record(size)
               k == take(size)
               data == SubSeq(r, 1, k)
    <2>5. /\ SubSeq(wire, 1, size) \in Seq(Unit) /\ Len(SubSeq(wire, 1, size)) = size
          /\ Rest(wire, size) \in Seq(Unit)
      BY <1>1, <2>4, HeadOf, RestOf, Zenon
    <2>6. SubSeq(wire, 1, size) \o Rest(wire, size) = wire
      BY <1>1, <2>4, Split, Zenon
    <2>7. /\ r \in Seq(Unit) /\ Len(r) = Len(pending) + Len(SubSeq(wire, 1, size))
          /\ r \o Rest(wire, size) = pending \o wire
      <3> HIDE DEF record
      <3>1. r = pending \o SubSeq(wire, 1, size)
        BY Zenon DEF record
      <3>2. r \in Seq(Unit) /\ Len(r) = Len(pending) + Len(SubSeq(wire, 1, size))
        BY <1>1, <2>5, <3>1, Concat, Zenon
      <3>3. (pending \o SubSeq(wire, 1, size)) \o Rest(wire, size)
              = pending \o (SubSeq(wire, 1, size) \o Rest(wire, size))
        BY <1>1, <2>5, Regroup, Zenon
      <3>4. QED
        BY <2>6, <3>1, <3>2, <3>3, Zenon
    <2>8. r # <<>>
      <3> HIDE DEF record
      <3>1. Len(r) > 0
        BY <1>1, <2>4, <2>5, <2>7
      <3>2. QED
        BY <3>1, <2>7
    <2>9. /\ k \in 0 .. Len(r) /\ k <= ReadSize
          /\ r # <<>> /\ ReadSize > 0 => k > 0
          /\ data \in Seq(Unit) /\ Len(data) = k
          /\ Rest(r, k) \in Seq(Unit)
          /\ data \o Rest(r, k) = r
      <3>1. k = Min({ReadSize, Len(r)})
        OBVIOUS
      <3> HIDE DEF r, take
      <3>2. QED
        BY <1>2, <2>7, <3>1, ChunkTaken, Zenon
    <2>10. /\ wire' = Rest(wire, size) /\ pending' = Rest(r, k)
           /\ append_request_bytes(data)
      BY <2>1, Zenon
    <2> HIDE DEF r, k, data
    <2>11. Len(data) \in 1 .. ReadSize
      BY <1>2, <2>8, <2>9
    <2>12. data \o (pending' \o wire') = pending \o wire
      <3>1. data \o (Rest(r, k) \o Rest(wire, size)) = (data \o Rest(r, k)) \o Rest(wire, size)
        BY <2>5, <2>9, Regroup, ZenonT(60)
      <3>2. QED
        BY <2>7, <2>9, <2>10, <3>1, Zenon
    <2>13. QED
      BY <2>2, <2>5, <2>9, <2>10, <2>11, <2>12, Zenon
  <1>5. QED
    BY <1>3, <1>4

----------------------------------------------------------------------------
LEMMA ReadingTyped ==
    ASSUME Typed, Recv \/ SslRead \/ FinishKeepAlive
    PROVE  Typed'
  <1>1. /\ header_age \in Ages /\ body_age \in Ages
        /\ request_buffer_ \in Seq(Unit)
        /\ TypeOK /\ Streaming
    BY DEF Typed, TypeOK
  <1>2. CASE Recv \/ SslRead
    <2>1. PICK data \in Seq(Unit) : append_request_bytes(data)
      BY <1>2, ReadsInOrder
    <2>2. \E t \in Timers : Outcome(request_buffer_ \o data, t)
      BY <1>1, <2>1, AppendOutcome, Zenon DEF Streaming
    <2>3. request_buffer_ \o data \in Seq(Unit)
      BY <1>1, Concat, Zenon
    <2>4. ReadTyped'
      BY <1>1, <2>2, <2>3, OutcomeTyped, Zenon
    <2>5. header_age' \in Ages /\ body_age' \in Ages
      BY <1>1, <1>2, ReadsInOrder, ObserveTyped, Zenon
    <2>6. /\ wire' \in Seq(Unit) /\ pending' \in Seq(Unit) /\ in_read_loop' \in BOOLEAN
          /\ ~tls => pending' = <<>>
          /\ last_activity_' = 0
          /\ UNCHANGED <<owed, sent, requests, upgraded, eof, tls, due>>
      BY <1>2, ReadsInOrder, Zenon
    <2>7. QED
      BY <2>4, <2>5, <2>6, AgesAre DEF Typed, TypeOK, ReadTyped, Counted, Plain
  <1>3. CASE FinishKeepAlive
    <2>1. http1_body_stream_ = NoStream
      BY <1>1, <1>3 DEF FinishKeepAlive, Streaming
    <2>2. Outcome(request_buffer_, Restarted(request_buffer_))
      BY <1>1, <1>3, <2>1, RestartedTyped, BufferedOutcome, Zenon DEF FinishKeepAlive
    <2>3. ReadTyped'
      BY <1>1, <2>2, RestartedTyped, OutcomeTyped, Zenon
    <2>4. header_age' \in Ages /\ body_age' \in Ages
      BY <1>1, <1>3, ObserveTyped, Zenon DEF FinishKeepAlive
    <2>5. last_activity_' = 0 /\ UNCHANGED <<client, tls, input, due>>
      BY <1>3, Zenon DEF FinishKeepAlive
    <2>6. QED
      BY <2>3, <2>4, <2>5, AgesAre
      DEF Typed, TypeOK, ReadTyped, Counted, Plain, client, input
  <1>4. QED
    BY <1>2, <1>3

\* The steps that parse nothing.
Quiet ==
    \/ WantRead \/ ReadEnd \/ ConnectionFails \/ TlsAccepted
    \/ FinishUpgrade \/ FinishClose \/ TlsShutdownEnds
    \/ ReverseProxyEnds \/ UpstreamHangsUp \/ WebSocketTraffic
    \/ Tick \/ Expiry

LEMMA QuietTyped == Typed /\ Quiet => Typed'
  <1> SUFFICES ASSUME Typed, Quiet PROVE Typed'
    OBVIOUS
  <1>1. /\ Observe \/ Tick
        /\ Observe /\ TypeOK => header_age' \in Ages /\ body_age' \in Ages
    <2>1. Observe /\ TypeOK => header_age' \in Ages /\ body_age' \in Ages
      BY ObserveTyped DEF TypeOK
    <2>2. Observe \/ Tick
      BY DEF Quiet, WantRead, ReadEnd, ConnectionFails, TlsAccepted, FinishUpgrade, FinishClose,
             TlsShutdownEnds, ReverseProxyEnds, UpstreamHangsUp, WebSocketTraffic, Expiry,
             TimeoutResponds, TimeoutCloses, NoTimeout
    <2>3. QED
      BY <2>1, <2>2
  <1>2. CASE Tick
    <2>1. /\ {last_activity_, request_started_at_, body_started_at_, header_age, body_age}'
               \subseteq Ages
      BY <1>2, OlderAge DEF Tick, Typed, TypeOK
    <2>2. QED
      BY <1>2, <2>1 DEF Typed, TypeOK, Counted, Plain, Streaming, Tick,
                        client, input, outcome, buffers
  <1>3. CASE Observe
    <2> USE DEF Typed, TypeOK, Counted, Plain, Streaming, ClientPhase
    <2>1. header_age' \in Ages /\ body_age' \in Ages
      BY <1>1, <1>3
    <2> HIDE DEF Observe
    <2>2. CASE WantRead
      BY <2>1, <2>2, ZenonT(60) DEF WantRead, client, outcome, buffers, timers
    <2>3. CASE ReadEnd \/ ConnectionFails
      BY <2>1, <2>3, ZenonT(60) DEF ReadEnd, ConnectionFails, close_now, client, buffers, timers
    <2>4. CASE TlsAccepted \/ TlsShutdownEnds \/ UpstreamHangsUp \/ FinishClose
      BY <2>1, <2>4 DEF TlsAccepted, TlsShutdownEnds, UpstreamHangsUp, FinishClose,
                        client, input, buffers, timers
    <2>5. CASE FinishUpgrade
      BY <2>1, <2>5, AgesAre, SMTT(60) DEF FinishUpgrade, client, input, timers
    <2>6. CASE ReverseProxyEnds
      BY <2>1, <2>6 DEF ReverseProxyEnds, Respond, client, input, buffers, timers
    <2>7. CASE WebSocketTraffic
      BY <2>1, <2>7, AgesAre DEF WebSocketTraffic, outcome, buffers, timers
    <2>8. CASE TimeoutResponds
      BY <2>1, <2>8 DEF TimeoutResponds, Late, Respond, client, input, buffers, timers
    <2>9. CASE TimeoutCloses
      BY <2>1, <2>9 DEF TimeoutCloses, client, input, buffers, timers
    <2>10. CASE NoTimeout
      BY <2>1, <2>10, ZenonT(60) DEF NoTimeout, client, input, outcome, buffers, timers
    <2>11. QED
      BY <1>2, <2>2, <2>3, <2>4, <2>5, <2>6, <2>7, <2>8, <2>9, <2>10, Zenon DEF Quiet, Expiry
  <1>4. QED
    BY <1>1, <1>2, <1>3, Zenon

LEMMA NextSteps ==
    [Next]_vars => \/ Client \/ Recv \/ SslRead \/ FinishKeepAlive \/ Quiet \/ UNCHANGED vars
  BY Zenon DEF Next, Progress, Closed, Quiet

LEMMA NextTyped == Typed /\ [Next]_vars => Typed'
  <1> SUFFICES ASSUME Typed, [Next]_vars PROVE Typed'
    OBVIOUS
  <1>1. CASE UNCHANGED vars
    BY <1>1 DEF Typed, TypeOK, Counted, Plain, Streaming,
                vars, client, input, outcome, buffers, timers
  <1>2. QED
    BY <1>1, NextSteps, ClientTyped, ReadingTyped, QuietTyped, Zenon

\* The variables of a connection keep their types, whatever the client sends
\* and however the reads cut it.
THEOREM ConnectionTypeOK == Safety => []TypeOK
  <1>1. Typed => TypeOK
    BY DEF Typed
  <1>2. QED
    BY <1>1, InitTyped, NextTyped, PTL DEF Safety

----------------------------------------------------------------------------
(***************************************************************************)
(* The cap on requests.  RequestCapRespected is not inductive: nothing in  *)
(* it stops a connection that has used up its requests from reading on.    *)
(* The stronger invariant says which connections will read again, and that *)
(* each of them may serve at least one request more.                       *)
(***************************************************************************)
MayServe == requests_served_ = 0 \/ requests_served_ < http_keep_alive_max_requests

Capped ==
    /\ RequestCapRespected
    /\ phase_ \in {"tls_handshake", "reading"} => MayServe
    /\ phase_ = "writing" /\ after_response = "keep_alive" => MayServe
    /\ phase_ = "reverse_proxy" /\ reverse_proxy_keep_alive_ => MayServe

LEMMA CapBounds ==
    LET cap == Max({1, http_keep_alive_max_requests})
    IN  cap \in Nat /\ cap >= 1 /\ cap >= http_keep_alive_max_requests
  <1>1. 1 \in Int /\ http_keep_alive_max_requests \in Int
    BY Constants
  <1> DEFINE cap == Max({1, http_keep_alive_max_requests})
  <1>2. cap \in {1, http_keep_alive_max_requests} /\ cap >= 1 /\ cap >= http_keep_alive_max_requests
    BY <1>1, MaxOfTwo, Zenon
  <1> HIDE DEF cap
  <1>3. cap \in Nat
    BY <1>2, Constants
  <1>4. QED
    BY <1>2, <1>3, Zenon DEF cap

LEMMA DispatchCapped ==
    ASSUME Typed, RequestCapRespected, MayServe, NEW id, dispatch_request(id)
    PROVE  Capped'
  <1> DEFINE keep(wanted) == keep_alive_allowed(requests_served_ + 1, wanted)
             cap == Max({1, http_keep_alive_max_requests})
  <1>1. \/ Respond("close") /\ UNCHANGED requests_served_
        \/ /\ requests_served_' = requests_served_ + 1
           /\ \E wanted \in BOOLEAN :
                \/ Respond(IF keep(wanted) THEN "keep_alive" ELSE "close")
                \/ Respond("close")
                \/ /\ phase_' = "reverse_proxy"
                   /\ reverse_proxy_keep_alive_' = keep(wanted)
                   /\ UNCHANGED after_response
    BY Zenon DEF dispatch_request
  <1>2. /\ \A wanted \in BOOLEAN :
             keep(wanted) => requests_served_ + 1 < http_keep_alive_max_requests
    BY DEF keep_alive_allowed
  <1>3. requests_served_ \in Nat
    BY DEF Typed, TypeOK
  <1>4. requests_served_ <= cap /\ requests_served_ + 1 <= cap
    BY <1>3, CapBounds, Constants DEF RequestCapRespected, MayServe
  <1>5. RequestCapRespected'
    <2>1. requests_served_' \in {requests_served_, requests_served_ + 1}
      BY <1>1
    <2> HIDE DEF cap
    <2>2. requests_served_' <= cap
      BY <1>3, <1>4, <2>1
    <2>3. QED
      BY <2>2 DEF cap, RequestCapRespected
  <1>6. CASE Respond("close") /\ UNCHANGED requests_served_
    BY <1>5, <1>6 DEF Capped, Respond
  <1>7. ASSUME requests_served_' = requests_served_ + 1, NEW wanted \in BOOLEAN,
               \/ Respond(IF keep(wanted) THEN "keep_alive" ELSE "close")
               \/ Respond("close")
               \/ /\ phase_' = "reverse_proxy"
                  /\ reverse_proxy_keep_alive_' = keep(wanted)
                  /\ UNCHANGED after_response
        PROVE  Capped'
    <2>1. keep(wanted) => MayServe'
      BY <1>2, <1>7 DEF MayServe
    <2> HIDE DEF keep
    <2>2. QED
      BY <1>5, <1>7, <2>1 DEF Capped, Respond
  <1>8. QED
    BY <1>1, <1>6, <1>7, Zenon

LEMMA OutcomeCapped ==
    ASSUME Typed, RequestCapRespected, MayServe, NEW buf, NEW t, Outcome(buf, t)
    PROVE  Capped'
  <1> DEFINE cap == Max({1, http_keep_alive_max_requests})
  <1>1. requests_served_ \in Nat
    BY DEF Typed, TypeOK
  <1>2. requests_served_ <= cap /\ requests_served_ + 1 <= cap
    BY <1>1, CapBounds, Constants DEF RequestCapRespected, MayServe
  <1>3. requests_served_' \in {requests_served_, requests_served_ + 1} => RequestCapRespected'
    <2> HIDE DEF cap
    <2>1. requests_served_' \in {requests_served_, requests_served_ + 1} =>
            requests_served_' <= cap
      BY <1>1, <1>2
    <2>2. QED
      BY <2>1 DEF cap, RequestCapRespected
  <1>4. CASE frame_incomplete(buf, t)
    BY <1>3, <1>4 DEF frame_incomplete, Capped, MayServe
  <1>5. ASSUME NEW k, NEW u, Refuses(Rest(buf, k), u)
        PROVE  Capped'
    BY <1>3, <1>5 DEF Refuses, Respond, Capped
  <1>6. ASSUME NEW k, try_handle_websocket_upgrade(buf, k, t)
        PROVE  Capped'
    <2>1. /\ requests_served_' \in {requests_served_, requests_served_ + 1}
          /\ phase_' \in {"writing", "closed"}
          /\ phase_' = "writing" => after_response' # "keep_alive"
      BY <1>6 DEF try_handle_websocket_upgrade, Respond
    <2>2. QED
      BY <1>3, <2>1 DEF Capped
  <1>7. ASSUME NEW s, NEW u, StreamGoesOn(s, u)
        PROVE  Capped'
    BY <1>3, <1>7 DEF StreamGoesOn, Capped, MayServe
  <1>8. ASSUME NEW id, NEW k, Dispatches(id, Rest(buf, k))
        PROVE  Capped'
    BY <1>8, DispatchCapped, Zenon DEF Dispatches
  <1>9. QED
    BY <1>4, <1>5, <1>6, <1>7, <1>8, Zenon DEF Outcome

\* Reading, as the later invariants use it: where it starts and what it comes to.
LEMMA ReadingOutcome ==
    ASSUME Typed, Recv \/ SslRead \/ FinishKeepAlive
    PROVE  \/ /\ phase_ = "reading"
              /\ \E data \in Seq(Unit), t \in Timers :
                   /\ Len(data) <= ReadSize
                   /\ t.started = IF request_buffer_ = <<>> THEN 0 ELSE request_started_at_
                   /\ Outcome(request_buffer_ \o data, t)
           \/ /\ phase_ = "writing" /\ after_response = "keep_alive"
              /\ http1_body_stream_ = NoStream
              /\ Outcome(request_buffer_, Restarted(request_buffer_))
  <1>1. request_buffer_ \in Seq(Unit) /\ TypeOK /\ Streaming
    BY DEF Typed, TypeOK
  <1>2. CASE Recv \/ SslRead
    <2>1. /\ phase_ = "reading"
          /\ \E data \in Seq(Unit) : Len(data) \in 1 .. ReadSize /\ append_request_bytes(data)
      BY <1>2, ReadsInOrder, Zenon
    <2>2. PICK data \in Seq(Unit) : Len(data) \in 1 .. ReadSize /\ append_request_bytes(data)
      BY <2>1, Zenon
    <2>3. Len(data) <= ReadSize
      BY <2>2, Constants
    <2>4. QED
      BY <1>1, <2>1, <2>2, <2>3, AppendOutcome, Zenon DEF Streaming
  <1>3. CASE FinishKeepAlive
    <2>1. /\ phase_ = "writing" /\ after_response = "keep_alive"
          /\ http1_body_stream_ = NoStream
      BY <1>1, <1>3 DEF FinishKeepAlive, Streaming
    <2>2. Outcome(request_buffer_, Restarted(request_buffer_))
      BY <1>1, <1>3, <2>1, RestartedTyped, BufferedOutcome, Zenon DEF FinishKeepAlive
    <2>3. QED
      BY <2>1, <2>2, Zenon
  <1>4. QED
    BY <1>2, <1>3

LEMMA NextCapped == Typed /\ Capped /\ [Next]_vars => Capped'
  <1> SUFFICES ASSUME Typed, Capped, [Next]_vars PROVE Capped'
    OBVIOUS
  <1>1. CASE UNCHANGED outcome
    BY <1>1 DEF outcome, Capped, MayServe, RequestCapRespected
  <1>2. Client \/ UNCHANGED vars => UNCHANGED outcome
    BY DEF Client, SendHeaderPart, SendHeaderEnd, SendBody, SendFrame, ShutDownSending, Put, vars
  <1>3. CASE Recv \/ SslRead \/ FinishKeepAlive
    <2>1. RequestCapRespected /\ MayServe
      BY <1>3, ReadingOutcome DEF Capped
    <2>2. QED
      BY <1>3, <2>1, ReadingOutcome, OutcomeCapped, Zenon
  <1>4. CASE Quiet
    <2>1. UNCHANGED requests_served_
      BY <1>4 DEF Quiet, WantRead, ReadEnd, ConnectionFails, TlsAccepted, FinishUpgrade,
             FinishClose, TlsShutdownEnds, ReverseProxyEnds, UpstreamHangsUp, WebSocketTraffic,
             Tick, Expiry, TimeoutResponds, TimeoutCloses, NoTimeout, outcome
    <2>2. MayServe' = MayServe /\ RequestCapRespected'
      BY <2>1 DEF MayServe, RequestCapRespected, Capped
    <2>3. CASE WantRead \/ WebSocketTraffic \/ Tick \/ NoTimeout
      BY <1>1, <2>3 DEF WantRead, WebSocketTraffic, Tick, NoTimeout
    <2>4. CASE ReadEnd \/ ConnectionFails \/ TlsAccepted \/ FinishClose \/ TlsShutdownEnds
                 \/ UpstreamHangsUp \/ TimeoutCloses
      BY <2>2, <2>4 DEF ReadEnd, ConnectionFails, close_now, TlsAccepted, FinishClose,
                        TlsShutdownEnds, UpstreamHangsUp, TimeoutCloses, Capped
    <2>5. CASE FinishUpgrade \/ ReverseProxyEnds \/ TimeoutResponds
      BY <2>2, <2>5 DEF FinishUpgrade, ReverseProxyEnds, TimeoutResponds, Respond, Capped
    <2>6. QED
      BY <1>4, <2>3, <2>4, <2>5, Zenon DEF Quiet, Expiry
  <1>5. QED
    BY <1>1, <1>2, <1>3, <1>4, NextSteps, Zenon

LEMMA InitCapped == Init => Capped
  BY CapBounds DEF Init, Capped, MayServe, RequestCapRespected

(***************************************************************************)
(* No connection serves more than http_keep_alive_max_requests requests    *)
(* (one, when that is 0), however its requests are pipelined, forwarded,   *)
(* upgraded or refused.                                                    *)
(***************************************************************************)
THEOREM RequestCapHolds == Safety => []RequestCapRespected
  <1>1. Capped => RequestCapRespected
    BY DEF Capped
  <1>2. QED
    BY <1>1, InitTyped, NextTyped, InitCapped, NextCapped, PTL DEF Safety

----------------------------------------------------------------------------
(***************************************************************************)
(* What is buffered.  A connection that will read again holds no stream    *)
(* and at most max_request_bytes and a chunk; one that reads has parsed    *)
(* everything it could.                                                    *)
(***************************************************************************)
Bounded ==
    /\ NothingLeftToParse
    /\ RequestBufferBounded
    /\ phase_ = "tls_handshake" => request_buffer_ = <<>>

LEMMA OutcomeBounded ==
    ASSUME NEW buf \in Seq(Unit), NEW t, Outcome(buf, t),
           Len(buf) <= max_request_bytes + ReadSize
    PROVE  Bounded'
  <1>1. max_request_bytes \in Nat /\ ReadSize \in Nat /\ Len(buf) \in Nat
    BY Constants
  <1>2. ASSUME NEW k \in 0 .. Len(buf)
        PROVE  Len(Rest(buf, k)) <= max_request_bytes + ReadSize
    <2>1. Len(Rest(buf, k)) = Len(buf) - k
      BY RestOf
    <2>2. QED
      BY <1>1, <2>1
  <1>3. Len(<<>>) <= max_request_bytes /\ Len(<<>>) <= max_request_bytes + ReadSize
    BY <1>1
  <1>4. CASE /\ header_end(buf) = 0 /\ Len(buf) <= max_request_bytes
             /\ frame_incomplete(buf, t) /\ http1_body_stream_' = NoStream
    <2>1. \A i \in 1 .. Len(buf) : buf[i].t # "end"
      BY <1>4, HeaderEnd
    <2>2. request_buffer_' = buf /\ phase_' = "reading" /\ DOMAIN buf = 1 .. Len(buf)
      BY <1>4 DEF frame_incomplete
    <2>3. NothingLeftToParse'
      BY <1>4, <2>1, <2>2 DEF NothingLeftToParse
    <2>4. RequestBufferBounded'
      BY <1>1, <1>4, <2>2 DEF RequestBufferBounded
    <2>5. QED
      BY <2>2, <2>3, <2>4 DEF Bounded
  <1>5. ASSUME NEW k \in 0 .. Len(buf), NEW u, Refuses(Rest(buf, k), u)
        PROVE  Bounded'
    BY <1>2, <1>5 DEF Refuses, Respond, Bounded, NothingLeftToParse, RequestBufferBounded
  <1>6. ASSUME NEW k \in 1 .. Len(buf), try_handle_websocket_upgrade(buf, k, t)
        PROVE  Bounded'
    <2>1. phase_' \in {"writing", "closed"} /\ request_buffer_' \in {Rest(buf, k), <<>>}
      BY <1>6 DEF try_handle_websocket_upgrade, Respond
    <2>2. Len(request_buffer_') <= max_request_bytes + ReadSize
      <3>1. Len(Rest(buf, k)) <= max_request_bytes + ReadSize
        BY <1>2
      <3>2. QED
        BY <1>3, <2>1, <3>1, Zenon
    <2>3. QED
      BY <2>1, <2>2 DEF Bounded, NothingLeftToParse, RequestBufferBounded
  <1>7. ASSUME NEW s \in Streams, NEW u, s.received < s.content_length, StreamGoesOn(s, u)
        PROVE  Bounded'
    <2>1. http1_body_stream_' # NoStream
      <3>1. s # NoStream
        BY <1>7 DEF NoStream, Streams
      <3>2. QED
        BY <1>7, <3>1 DEF StreamGoesOn
    <2>2. request_buffer_' = <<>> /\ phase_' = "reading"
      BY <1>7 DEF StreamGoesOn
    <2>3. QED
      BY <1>1, <1>3, <2>1, <2>2 DEF Bounded, NothingLeftToParse, RequestBufferBounded
  <1>8. ASSUME NEW id \in Nat, NEW k \in 0 .. Len(buf), Dispatches(id, Rest(buf, k))
        PROVE  Bounded'
    <2>1. phase_' \in {"writing", "reverse_proxy"} /\ request_buffer_' = Rest(buf, k)
      BY <1>8 DEF Dispatches, dispatch_request, Respond
    <2>2. QED
      BY <1>2, <2>1 DEF Bounded, NothingLeftToParse, RequestBufferBounded
  <1>9. QED
    BY <1>4, <1>5, <1>6, <1>7, <1>8, Zenon DEF Outcome

LEMMA NextBounded == Typed /\ Bounded /\ [Next]_vars => Bounded'
  <1> SUFFICES ASSUME Typed, Bounded, [Next]_vars PROVE Bounded'
    OBVIOUS
  <1>1. /\ max_request_bytes \in Nat /\ ReadSize \in Nat
        /\ request_buffer_ \in Seq(Unit) /\ Len(request_buffer_) \in Nat
    BY Constants DEF Typed, TypeOK
  <1>2. /\ Len(request_buffer_) <= max_request_bytes + ReadSize
        /\ phase_ = "reading" => Len(request_buffer_) <= max_request_bytes
    BY <1>1 DEF Bounded, RequestBufferBounded
  <1>3. CASE UNCHANGED <<phase_, buffers>>
    BY <1>3 DEF Bounded, NothingLeftToParse, RequestBufferBounded, buffers
  <1>4. CASE Client \/ UNCHANGED vars
    <2>1. UNCHANGED <<phase_, buffers>>
      BY <1>4 DEF Client, SendHeaderPart, SendHeaderEnd, SendBody, SendFrame, ShutDownSending,
                  Put, vars, outcome
    <2>2. QED
      BY <1>3, <2>1
  <1>5. CASE Recv \/ SslRead \/ FinishKeepAlive
    <2>1. \E buf \in Seq(Unit) : \E t : Len(buf) <= max_request_bytes + ReadSize /\ Outcome(buf, t)
      <3>1. CASE phase_ = "writing" /\ Outcome(request_buffer_, Restarted(request_buffer_))
        BY <1>1, <1>2, <3>1, Zenon
      <3>2. ASSUME phase_ = "reading", NEW data \in Seq(Unit), NEW t, Len(data) <= ReadSize,
                   Outcome(request_buffer_ \o data, t)
            PROVE  \E buf \in Seq(Unit) : \E v :
                     Len(buf) <= max_request_bytes + ReadSize /\ Outcome(buf, v)
        <4>1. /\ request_buffer_ \o data \in Seq(Unit)
              /\ Len(request_buffer_ \o data) = Len(request_buffer_) + Len(data)
          BY <1>1, Concat, Zenon
        <4>2. Len(request_buffer_ \o data) <= max_request_bytes + ReadSize
          BY <1>1, <1>2, <3>2, <4>1
        <4>3. QED
          BY <3>2, <4>1, <4>2, Zenon
      <3>3. QED
        BY <1>5, <3>1, <3>2, ReadingOutcome, Zenon
    <2>2. QED
      BY <2>1, OutcomeBounded, Zenon
  <1>6. CASE Quiet
    <2>1. CASE WantRead \/ WebSocketTraffic \/ Tick \/ NoTimeout
      BY <1>3, <2>1 DEF WantRead, WebSocketTraffic, Tick, NoTimeout, outcome
    <2>2. CASE TlsAccepted
      <3>1. request_buffer_ = <<>> /\ http1_body_stream_ = NoStream
        BY <2>2 DEF TlsAccepted, Bounded, Typed, Streaming
      <3>2. QED
        BY <1>1, <2>2, <3>1
        DEF TlsAccepted, buffers, Bounded, NothingLeftToParse, RequestBufferBounded
    <2>3. CASE FinishUpgrade
      <3>1. phase_' \in {"websocket", "websocket_proxy"} /\ request_buffer_' = <<>>
        BY <2>3 DEF FinishUpgrade
      <3>2. QED
        BY <1>1, <3>1 DEF Bounded, NothingLeftToParse, RequestBufferBounded
    <2>4. ASSUME phase_' \in {"writing", "tls_shutdown", "closed"},
                 request_buffer_' = request_buffer_
          PROVE  Bounded'
      BY <1>2, <2>4 DEF Bounded, NothingLeftToParse, RequestBufferBounded
    <2>5. CASE ReadEnd \/ ConnectionFails \/ FinishClose \/ TlsShutdownEnds
                 \/ ReverseProxyEnds \/ UpstreamHangsUp \/ TimeoutCloses \/ TimeoutResponds
      BY <2>4, <2>5 DEF ReadEnd, ConnectionFails, close_now, FinishClose, TlsShutdownEnds,
           ReverseProxyEnds, UpstreamHangsUp, TimeoutCloses, TimeoutResponds, Respond, buffers
    <2>6. QED
      BY <1>6, <2>1, <2>2, <2>3, <2>5, Zenon DEF Quiet, Expiry
  <1>7. QED
    BY <1>4, <1>5, <1>6, NextSteps, Zenon

LEMMA InitBounded == Init => Bounded
  <1> SUFFICES ASSUME Init PROVE Bounded
    OBVIOUS
  <1>1. /\ request_buffer_ = <<>> /\ http1_body_stream_ = NoStream
        /\ max_request_bytes \in Nat /\ ReadSize \in Nat
    BY Constants DEF Init
  <1>2. QED
    BY <1>1 DEF Bounded, NothingLeftToParse, RequestBufferBounded

(***************************************************************************)
(* A connection that waits for bytes has parsed every header it holds and  *)
(* given every byte of a body to the stream.                               *)
(***************************************************************************)
THEOREM NothingWaitsToBeParsed == Safety => []NothingLeftToParse
  <1>1. Bounded => NothingLeftToParse
    BY DEF Bounded
  <1>2. QED
    BY <1>1, InitTyped, NextTyped, InitBounded, NextBounded, PTL DEF Safety

(***************************************************************************)
(* max_request_bytes bounds the request buffer of every connection, and a  *)
(* chunk more while it answers, for every sequence of requests.            *)
(***************************************************************************)
THEOREM RequestBufferIsBounded == Safety => []RequestBufferBounded
  <1>1. Bounded => RequestBufferBounded
    BY DEF Bounded
  <1>2. QED
    BY <1>1, InitTyped, NextTyped, InitBounded, NextBounded, PTL DEF Safety

----------------------------------------------------------------------------
(***************************************************************************)
(* The header timeout.  The age of an incomplete header is the age the     *)
(* server measures, it is measured at every tick, and it reaches           *)
(* header_timeout_seconds only until enforce_client_timeouts runs.         *)
(***************************************************************************)
HeaderAtHand == phase_ = "reading" /\ request_buffer_ # <<>>

Timed ==
    IF HeaderAtHand
      THEN /\ request_started_at_ # Unset /\ header_age = request_started_at_
           /\ ~waiting_for_body_
           /\ request_started_at_ <= header_timeout_seconds
           /\ ~due => request_started_at_ < header_timeout_seconds
      ELSE header_age = Unset

LEMMA NoHeaderTimed ==
    ASSUME Observe, ~HeaderAtHand'
    PROVE  Timed'
  <1>1. header_age' = Unset
    BY DEF Observe, HeaderAtHand
  <1>2. QED
    BY <1>1 DEF Timed

\* A header that was at hand stays at hand.
LEMMA SameHeaderTimed ==
    ASSUME Timed, Observe, HeaderAtHand, HeaderAtHand', due' = due,
           request_started_at_' = request_started_at_, ~waiting_for_body_'
    PROVE  Timed'
  <1>1. header_age' = header_age
    BY DEF Timed, Observe, HeaderAtHand
  <1>2. QED
    BY <1>1 DEF Timed

LEMMA NewHeaderTimed ==
    ASSUME Timed, Observe, ~HeaderAtHand, HeaderAtHand',
           request_started_at_' = 0, ~waiting_for_body_'
    PROVE  Timed'
  <1>1. header_age' = 0
    BY DEF Timed, Observe, HeaderAtHand
  <1>2. 0 # Unset /\ 0 < header_timeout_seconds /\ 0 <= header_timeout_seconds
    BY Constants DEF Unset
  <1>3. QED
    BY <1>1, <1>2 DEF Timed

\* Reading leaves either no header at hand, or all of buf as one.
LEMMA OutcomeHeader ==
    ASSUME NEW buf, NEW t \in Timers, Outcome(buf, t)
    PROVE  \/ ~HeaderAtHand'
           \/ /\ request_buffer_' = buf /\ request_started_at_' = t.started
              /\ ~waiting_for_body_'
  <1>1. CASE frame_incomplete(buf, t)
    BY <1>1 DEF frame_incomplete, SetTimers, Timers
  <1>2. ASSUME NEW k, NEW u, Refuses(Rest(buf, k), u)
        PROVE  ~HeaderAtHand'
    BY <1>2 DEF Refuses, Respond, HeaderAtHand
  <1>3. ASSUME NEW k, try_handle_websocket_upgrade(buf, k, t)
        PROVE  ~HeaderAtHand'
    BY <1>3 DEF try_handle_websocket_upgrade, Respond, HeaderAtHand
  <1>4. ASSUME NEW s, NEW u, StreamGoesOn(s, u)
        PROVE  ~HeaderAtHand'
    BY <1>4 DEF StreamGoesOn, HeaderAtHand
  <1>5. ASSUME NEW k, NEW id, Dispatches(id, Rest(buf, k))
        PROVE  ~HeaderAtHand'
    BY <1>5 DEF Dispatches, dispatch_request, Respond, HeaderAtHand
  <1>6. QED
    BY <1>1, <1>2, <1>3, <1>4, <1>5, Zenon DEF Outcome

LEMMA ReadingTimed ==
    ASSUME Typed, Timed, Recv \/ SslRead \/ FinishKeepAlive
    PROVE  Timed'
  <1>1. Observe /\ due' = due
    <2>1. CASE Recv \/ SslRead
      BY <2>1, ReadsInOrder
    <2>2. CASE FinishKeepAlive
      BY <2>2 DEF FinishKeepAlive
    <2>3. QED
      BY <2>1, <2>2
  <1>2. CASE ~HeaderAtHand'
    BY <1>1, <1>2, NoHeaderTimed
  <1>3. ASSUME HeaderAtHand', phase_ = "reading",
               NEW data \in Seq(Unit), NEW t \in Timers,
               t.started = IF request_buffer_ = <<>> THEN 0 ELSE request_started_at_,
               Outcome(request_buffer_ \o data, t)
        PROVE  Timed'
    <2>1. request_started_at_' = t.started /\ ~waiting_for_body_'
      BY <1>3, OutcomeHeader, Zenon
    <2>2. CASE request_buffer_ = <<>>
      <3>1. ~HeaderAtHand /\ request_started_at_' = 0
        BY <1>3, <2>1, <2>2 DEF HeaderAtHand
      <3>2. QED
        BY <1>1, <1>3, <2>1, <3>1, NewHeaderTimed, Zenon
    <2>3. CASE request_buffer_ # <<>>
      <3>1. HeaderAtHand /\ request_started_at_' = request_started_at_
        BY <1>3, <2>1, <2>3 DEF HeaderAtHand
      <3>2. QED
        BY <1>1, <1>3, <2>1, <3>1, SameHeaderTimed, Zenon
    <2>4. QED
      BY <2>2, <2>3
  <1>4. ASSUME HeaderAtHand', phase_ = "writing",
               Outcome(request_buffer_, Restarted(request_buffer_))
        PROVE  Timed'
    <2>1. /\ request_buffer_' = request_buffer_ /\ ~waiting_for_body_'
          /\ request_started_at_' = Restarted(request_buffer_).started
      BY <1>4, OutcomeHeader, RestartedTyped, Zenon
    <2>2. request_started_at_' = 0 /\ ~HeaderAtHand
      BY <1>4, <2>1 DEF HeaderAtHand, Restarted
    <2>3. QED
      BY <1>1, <1>4, <2>1, <2>2, NewHeaderTimed, Zenon
  <1>5. QED
    BY <1>2, <1>3, <1>4, ReadingOutcome, Zenon

LEMMA NextTimed == Typed /\ Bounded /\ Timed /\ [Next]_vars => Timed'
  <1> SUFFICES ASSUME Typed, Bounded, Timed, [Next]_vars PROVE Timed'
    OBVIOUS
  <1>1. ASSUME Observe, UNCHANGED <<phase_, request_buffer_, due, request_started_at_,
                                    waiting_for_body_>>
        PROVE  Timed'
    <2>1. HeaderAtHand' = HeaderAtHand
      BY <1>1 DEF HeaderAtHand
    <2>2. CASE HeaderAtHand
      BY <1>1, <2>1, <2>2, SameHeaderTimed DEF Timed
    <2>3. CASE ~HeaderAtHand
      BY <1>1, <2>1, <2>3, NoHeaderTimed
    <2>4. QED
      BY <2>2, <2>3
  <1>2. CASE UNCHANGED vars
    BY <1>2 DEF vars, outcome, buffers, timers, Timed, HeaderAtHand
  <1>3. CASE Client \/ WantRead \/ WebSocketTraffic
    <2>1. Observe /\ UNCHANGED <<phase_, request_buffer_, due, request_started_at_,
                                 waiting_for_body_>>
      BY <1>3 DEF Client, SendHeaderPart, SendHeaderEnd, SendBody, SendFrame, ShutDownSending,
                  Put, WantRead, WebSocketTraffic, outcome, buffers, timers
    <2>2. QED
      BY <1>1, <2>1
  <1>4. CASE Recv \/ SslRead \/ FinishKeepAlive
    BY <1>4, ReadingTimed
  <1>5. CASE Tick
    <2>1. /\ ~due /\ due' = TRUE /\ HeaderAtHand' = HeaderAtHand
          /\ header_age' = Older(header_age)
          /\ request_started_at_' = Older(request_started_at_)
          /\ waiting_for_body_' = waiting_for_body_
      BY <1>5 DEF Tick, HeaderAtHand, outcome, buffers
    <2>2. /\ header_age \in Ages /\ request_started_at_ \in Ages
          /\ MaxAge \in Nat /\ header_timeout_seconds \in Nat
          /\ header_timeout_seconds < MaxAge
      BY Constants DEF Typed, TypeOK
    <2>3. CASE HeaderAtHand
      <3> DEFINE a == request_started_at_
      <3>1. /\ a # Unset /\ header_age = a /\ ~waiting_for_body_
            /\ a < header_timeout_seconds
        BY <2>1, <2>3 DEF Timed
      <3>2. a \in Int
        BY <2>2, AgesAre
      <3> HIDE DEF a
      <3>3. a < MaxAge
        BY <2>2, <3>1, <3>2
      <3>4. Older(a) = a + 1 /\ Older(a) # Unset
        BY <2>2, <3>1, <3>3, OlderAge, Zenon DEF a
      <3>5. Older(a) <= header_timeout_seconds
        BY <2>2, <3>1, <3>2, <3>4
      <3>6. QED
        BY <2>1, <2>3, <3>1, <3>4, <3>5 DEF Timed, a
    <2>4. CASE ~HeaderAtHand
      BY <2>1, <2>4 DEF Timed, Older
    <2>5. QED
      BY <2>3, <2>4
  <1>6. CASE NoTimeout
    <2>1. /\ Observe /\ due' = FALSE
          /\ UNCHANGED <<phase_, request_buffer_, request_started_at_, waiting_for_body_>>
          /\ ~Late
      BY <1>6 DEF NoTimeout, outcome, buffers, timers
    <2>2. HeaderAtHand' = HeaderAtHand
      BY <2>1 DEF HeaderAtHand
    <2>3. CASE ~HeaderAtHand
      BY <2>1, <2>2, <2>3, NoHeaderTimed
    <2>4. CASE HeaderAtHand
      <3>1. /\ request_started_at_ # Unset /\ header_age = request_started_at_
            /\ ~waiting_for_body_ /\ request_started_at_ <= header_timeout_seconds
        BY <2>4 DEF Timed
      <3>2. ~(request_started_at_ >= header_timeout_seconds)
        BY <2>1, <2>4, <3>1
        DEF HeaderAtHand, Late, between_requests, request_timed_out
      <3>3. request_started_at_ \in Int /\ header_timeout_seconds \in Int
        <4>1. request_started_at_ \in Ages
          BY DEF Typed, TypeOK
        <4>2. QED
          BY <4>1, AgesAre, Constants
      <3>4. header_age' = header_age
        BY <2>1, <2>4, <3>1 DEF Observe, HeaderAtHand
      <3>5. QED
        BY <2>1, <2>2, <2>4, <3>1, <3>2, <3>3, <3>4 DEF Timed
    <2>5. QED
      BY <2>3, <2>4
  <1>7. CASE \/ ReadEnd \/ ConnectionFails \/ FinishUpgrade \/ FinishClose \/ TlsShutdownEnds
             \/ ReverseProxyEnds \/ UpstreamHangsUp \/ TimeoutResponds \/ TimeoutCloses
             \/ TlsAccepted
    <2>1. Observe
      BY <1>7 DEF ReadEnd, ConnectionFails, FinishUpgrade, FinishClose, TlsShutdownEnds,
                  ReverseProxyEnds, UpstreamHangsUp, TimeoutResponds, TimeoutCloses, TlsAccepted
    <2>2. ~HeaderAtHand'
      BY <1>7 DEF ReadEnd, ConnectionFails, close_now, FinishUpgrade, FinishClose,
                  TlsShutdownEnds, ReverseProxyEnds, UpstreamHangsUp, TimeoutResponds, Respond,
                  TimeoutCloses, TlsAccepted, HeaderAtHand, Bounded, buffers
    <2>3. QED
      BY <2>1, <2>2, NoHeaderTimed
  <1>8. QED
    BY <1>2, <1>3, <1>4, <1>5, <1>6, <1>7, NextSteps, Zenon DEF Quiet, Expiry

LEMMA InitTimed == Init => Timed
  BY DEF Init, Timed, HeaderAtHand

(***************************************************************************)
(* A dripped header is cut off at header_timeout_seconds, for every        *)
(* setting of the timeouts and whatever was pipelined before it.           *)
(***************************************************************************)
THEOREM HeaderTimeoutHolds == Safety => []HeaderTimeoutEnforced
  <1>1. Typed /\ Timed => HeaderTimeoutEnforced
    <2> SUFFICES ASSUME Typed, Timed PROVE HeaderTimeoutEnforced
      OBVIOUS
    <2>1. Unset <= header_timeout_seconds
      BY Constants DEF Unset
    <2>2. QED
      BY <2>1 DEF Timed, HeaderTimeoutEnforced
  <1>2. QED
    BY <1>1, InitTyped, NextTyped, InitBounded, NextBounded, InitTimed, NextTimed, PTL
    DEF Safety

----------------------------------------------------------------------------
(***************************************************************************)
(* Pipelined requests stay whole and in order.  What has been received and *)
(* not parsed yet is one sequence of units, Unparsed: the request buffer,  *)
(* the decrypted record and the socket's queue.  The invariant says what a *)
(* well-framing client makes of this sequence (InSequence) and where in a  *)
(* request the server stands (AtHead).  Its parts are operators of a       *)
(* sequence s, the number req of requests the client has begun to send the *)
(* body of, the units ow it owes, whether it has asked for an upgrade (up),*)
(* the number d of requests dispatched and the units w a stream wants.     *)
(***************************************************************************)
EndsPlain(u) == u.t = "end" /\ u.framing # "upgrade"

\* The requests follow each other without a gap; each begins with its header.
Rising(s) == \A i, j \in 1 .. Len(s) : i <= j => s[i].id <= s[j].id

Stepwise(s) ==
    \A i, j \in 1 .. Len(s) : j = i + 1 =>
      /\ s[j].id <= s[i].id + 1
      /\ s[j].id # s[i].id => s[j].t \in {"part", "end"}

\* The body of a request is the n units behind the end of its header.
BodiesFollow(s) ==
    \A i, j \in 1 .. Len(s) : i < j /\ EndsPlain(s[i]) =>
      /\ s[j].id = s[i].id <=> j <= i + s[i].n
      /\ j <= i + s[i].n => s[j].t \in {"data", "junk"}

\* A header the client has completed has its end.
HeadersEnd(s, req) ==
    \A i \in 1 .. Len(s) : s[i].t = "part" /\ s[i].id <= req =>
      \E e \in 1 .. Len(s) : i <= e /\ s[e].t = "end" /\ s[e].id = s[i].id

\* How far the client has got: only the body of the last request is incomplete.
SentSoFar(s, req, ow, up) ==
    \A i \in 1 .. Len(s) :
      /\ s[i].id <= req + 1
      /\ s[i].t # "part" => s[i].id <= req
      /\ ow > 0 \/ up => s[i].id <= req
      /\ s[i].framing = "upgrade" => s[i].n = 0
      /\ EndsPlain(s[i]) => IF s[i].id = req /\ ow > 0 THEN i + s[i].n = Len(s) + ow
                            ELSE i + s[i].n <= Len(s)

LastSent(s, req) == s # <<>> => req <= s[Len(s)].id

InSequence(s, req, ow, up) ==
    /\ Rising(s) /\ Stepwise(s) /\ BodiesFollow(s) /\ HeadersEnd(s, req)
    /\ SentSoFar(s, req, ow, up) /\ LastSent(s, req)

\* The next unit begins the next request ...
AtHeader(s, d, req, ow, up) ==
    IF s = <<>> THEN req = d /\ ow = 0 /\ ~up
    ELSE s[1].id = d + 1 /\ s[1].t \in {"part", "end"}

\* ... or the next w units are the rest of the body of the current one.
AtBody(s, d, w, req, ow) ==
    /\ \A j \in 1 .. Len(s) :
         /\ s[j].id = d + 1 <=> j <= w
         /\ j <= w => s[j].t \in {"data", "junk"}
    /\ d + 1 <= req
    /\ IF req = d + 1 /\ ow > 0 THEN w = Len(s) + ow ELSE w <= Len(s)

\* An upgrade the client has asked for is not parsed yet, and is its last request.
UpgradeAhead(s, req) ==
    \E e \in 1 .. Len(s) :
      /\ s[e].t = "end" /\ s[e].framing = "upgrade" /\ s[e].id = req
      /\ \A i \in 1 .. Len(s) : i > e => s[i].t # "end"

AtHead(s, d, w, req, ow, up) ==
    /\ w = 0 => AtHeader(s, d, req, ow, up)
    /\ w > 0 => AtBody(s, d, w, req, ow)
    /\ up => UpgradeAhead(s, req)

(* The client sends one unit more.                                         *)

LEMMA Appended ==
    ASSUME NEW s \in Seq(Unit), NEW u \in Unit
    PROVE  LET x == Append(s, u)
           IN  /\ Len(s) \in Nat /\ Len(x) = Len(s) + 1 /\ x # <<>> /\ x \in Seq(Unit)
               /\ \A i \in 1 .. Len(s) : x[i] = s[i]
               /\ x[Len(s) + 1] = u
               /\ \A i \in 1 .. Len(x) : i \in 1 .. Len(s) \/ i = Len(s) + 1
               /\ \A i \in 1 .. Len(x) : x[i].id \in Nat /\ x[i].n \in Nat
               /\ \A i \in 1 .. Len(s) : s[i].id \in Nat /\ s[i].n \in Nat
  <1> DEFINE x == Append(s, u)
  <1>1. /\ Len(s) \in Nat /\ Len(x) = Len(s) + 1 /\ x # <<>> /\ x \in Seq(Unit)
        /\ \A i \in 1 .. Len(s) : x[i] = s[i]
        /\ x[Len(s) + 1] = u
    OBVIOUS
  <1> HIDE DEF x
  <1>2. \A i \in 1 .. Len(x) : i \in 1 .. Len(s) \/ i = Len(s) + 1
    BY <1>1
  <1>3. \A i \in 1 .. Len(x) : x[i].id \in Nat /\ x[i].n \in Nat
    BY <1>1, UnitAt, Zenon
  <1>4. \A i \in 1 .. Len(s) : s[i].id \in Nat /\ s[i].n \in Nat
    BY UnitAt, Zenon
  <1>5. QED
    BY <1>1, <1>2, <1>3, <1>4, Zenon DEF x

\* The order of the requests survives a unit of the last request, or of the next.
LEMMA AppendedInOrder ==
    ASSUME NEW s \in Seq(Unit), NEW u \in Unit, NEW req \in Nat, NEW ow \in Nat, NEW up,
           InSequence(s, req, ow, up),
           \/ u.id = req /\ (ow > 0 \/ up) /\ s # <<>>
           \/ u.id = req + 1 /\ u.t \in {"part", "end"}
    PROVE  Rising(Append(s, u)) /\ Stepwise(Append(s, u))
  <1> DEFINE x == Append(s, u)
  <1>1. /\ Len(s) \in Nat /\ Len(x) = Len(s) + 1
        /\ \A i \in 1 .. Len(s) : x[i] = s[i]
        /\ x[Len(s) + 1] = u
        /\ \A i \in 1 .. Len(x) : i \in 1 .. Len(s) \/ i = Len(s) + 1
        /\ \A i \in 1 .. Len(s) : s[i].id \in Nat
    BY Appended, Zenon
  <1>2. \A i \in 1 .. Len(s) : s[i].id <= u.id
    BY DEF InSequence, SentSoFar
  <1>3. u.id \in Nat
    BY DEF Unit
  <1> HIDE DEF x
  <1>4. Rising(x)
    <2> SUFFICES ASSUME NEW i \in 1 .. Len(x), NEW j \in 1 .. Len(x), i <= j
                 PROVE  x[i].id <= x[j].id
      BY DEF Rising
    <2>1. CASE j = Len(s) + 1
      BY <1>1, <1>2, <1>3, <2>1
    <2>2. CASE j \in 1 .. Len(s)
      <3>1. i \in 1 .. Len(s)
        BY <1>1, <2>2
      <3>2. QED
        BY <1>1, <2>2, <3>1 DEF InSequence, Rising
    <2>3. QED
      BY <1>1, <2>1, <2>2
  <1>5. Stepwise(x)
    <2> SUFFICES ASSUME NEW i \in 1 .. Len(x), NEW j \in 1 .. Len(x), j = i + 1
                 PROVE  /\ x[j].id <= x[i].id + 1
                        /\ x[j].id # x[i].id => x[j].t \in {"part", "end"}
      BY DEF Stepwise
    <2>1. CASE j = Len(s) + 1
      <3>1. i = Len(s) /\ i \in 1 .. Len(s) /\ x[i] = s[i] /\ x[j] = u
        BY <1>1, <2>1
      <3>2. s # <<>>
        BY <3>1
      <3>3. req <= s[i].id
        BY <3>1, <3>2 DEF InSequence, LastSent
      <3>4. s[i].id \in Nat /\ s[i].id <= u.id
        BY <1>1, <1>2, <3>1
      <3>5. QED
        BY <1>3, <3>1, <3>3, <3>4
    <2>2. CASE j \in 1 .. Len(s)
      <3>1. i \in 1 .. Len(s) /\ x[i] = s[i] /\ x[j] = s[j]
        BY <1>1, <2>2
      <3>2. QED
        BY <2>2, <3>1 DEF InSequence, Stepwise
    <2>3. QED
      BY <1>1, <2>1, <2>2
  <1>6. QED
    BY <1>4, <1>5 DEF x

LEMMA AppendedBodies ==
    ASSUME NEW s \in Seq(Unit), NEW u \in Unit, BodiesFollow(s),
           \A i \in 1 .. Len(s) : EndsPlain(s[i]) =>
             /\ u.id = s[i].id <=> Len(s) + 1 <= i + s[i].n
             /\ Len(s) + 1 <= i + s[i].n => u.t \in {"data", "junk"}
    PROVE  BodiesFollow(Append(s, u))
  <1> DEFINE x == Append(s, u)
  <1>1. /\ Len(s) \in Nat /\ Len(x) = Len(s) + 1
        /\ \A i \in 1 .. Len(s) : x[i] = s[i]
        /\ x[Len(s) + 1] = u
        /\ \A i \in 1 .. Len(x) : i \in 1 .. Len(s) \/ i = Len(s) + 1
    BY Appended, Zenon
  <1> HIDE DEF x
  <1>2. SUFFICES ASSUME NEW i \in 1 .. Len(x), NEW j \in 1 .. Len(x), i < j, EndsPlain(x[i])
                 PROVE  /\ x[j].id = x[i].id <=> j <= i + x[i].n
                        /\ j <= i + x[i].n => x[j].t \in {"data", "junk"}
    BY Zenon DEF BodiesFollow, x
  <1>3. i \in 1 .. Len(s) /\ x[i] = s[i]
    BY <1>1, <1>2
  <1>4. CASE j = Len(s) + 1
    BY <1>1, <1>2, <1>3, <1>4
  <1>5. CASE j \in 1 .. Len(s)
    BY <1>1, <1>2, <1>3, <1>5 DEF BodiesFollow
  <1>6. QED
    BY <1>1, <1>4, <1>5

\* The first unit of a new request, or one more unit of its header.
LEMMA HeaderUnitKeeps ==
    ASSUME NEW s \in Seq(Unit), NEW u \in Unit, NEW req \in Nat, NEW d \in Nat, NEW w \in Nat,
           InSequence(s, req, 0, FALSE), AtHead(s, d, w, req, 0, FALSE),
           u.id = req + 1, u.t \in {"part", "end"}, u.framing = "upgrade" => u.n = 0,
           NEW req1, NEW ow1, NEW up1,
           IF u.t = "part" THEN req1 = req /\ ow1 = 0 /\ up1 = FALSE
           ELSE req1 = req + 1 /\ ow1 = u.n /\ up1 = (u.framing = "upgrade")
    PROVE  InSequence(Append(s, u), req1, ow1, up1) /\ AtHead(Append(s, u), d, w, req1, ow1, up1)
  <1> DEFINE x == Append(s, u)
             l == Len(s) + 1
  <1>1. /\ Len(s) \in Nat /\ Len(x) = Len(s) + 1 /\ x # <<>>
        /\ \A i \in 1 .. Len(s) : x[i] = s[i]
        /\ x[Len(s) + 1] = u
        /\ \A i \in 1 .. Len(x) : i \in 1 .. Len(s) \/ i = Len(s) + 1
        /\ \A i \in 1 .. Len(s) : s[i].id \in Nat /\ s[i].n \in Nat
        /\ u.n \in Nat /\ l \in 1 .. Len(x)
    <2>1. u.n \in Nat
      BY Constants DEF Unit
    <2>2. QED
      BY <2>1, Appended
  <1>2. Rising(x) /\ Stepwise(x)
    BY AppendedInOrder
  <1>3. \A i \in 1 .. Len(s) :
          /\ s[i].id <= req + 1
          /\ s[i].t # "part" => s[i].id <= req
          /\ s[i].framing = "upgrade" => s[i].n = 0
          /\ EndsPlain(s[i]) => i + s[i].n <= Len(s)
    BY DEF InSequence, SentSoFar
  <1>4. BodiesFollow(x)
    <2>1. ASSUME NEW i \in 1 .. Len(s), EndsPlain(s[i])
          PROVE  /\ u.id = s[i].id <=> Len(s) + 1 <= i + s[i].n
                 /\ Len(s) + 1 <= i + s[i].n => u.t \in {"data", "junk"}
      <3>1. s[i].id <= req /\ i + s[i].n <= Len(s) /\ s[i].id \in Nat /\ s[i].n \in Nat
        BY <1>1, <1>3, <2>1 DEF EndsPlain
      <3>2. QED
        BY <1>1, <3>1
    <2>2. QED
      BY <2>1, AppendedBodies DEF InSequence
  <1> HIDE DEF x
  <1>5. HeadersEnd(x, req1)
    <2> SUFFICES ASSUME NEW i \in 1 .. Len(x), x[i].t = "part", x[i].id <= req1
                 PROVE  \E e \in 1 .. Len(x) : i <= e /\ x[e].t = "end" /\ x[e].id = x[i].id
      BY DEF HeadersEnd
    <2>1. CASE i = l /\ u.t = "part"
      BY <1>1, <2>1
    <2>2. CASE i = l /\ u.t = "end"
      BY <1>1, <2>2
    <2>3. CASE i \in 1 .. Len(s)
      <3>1. CASE s[i].id <= req
        <4>1. PICK e \in 1 .. Len(s) : i <= e /\ s[e].t = "end" /\ s[e].id = s[i].id
          BY <1>1, <2>3, <3>1 DEF InSequence, HeadersEnd
        <4>2. e \in 1 .. Len(x) /\ x[e] = s[e] /\ x[i] = s[i]
          BY <1>1, <2>3
        <4>3. QED
          BY <4>1, <4>2
      <3>2. CASE ~(s[i].id <= req)
        <4>1. s[i].id = req + 1 /\ x[i] = s[i]
          BY <1>1, <1>3, <2>3, <3>2
        <4>2. u.t = "end"
          BY <4>1
        <4>3. i <= l /\ x[l].t = "end" /\ x[l].id = x[i].id
          BY <1>1, <2>3, <4>1, <4>2
        <4>4. QED
          BY <1>1, <4>3
      <3>3. QED
        BY <3>1, <3>2
    <2>4. QED
      BY <1>1, <2>1, <2>2, <2>3
  <1>6. SentSoFar(x, req1, ow1, up1)
    <2> SUFFICES ASSUME NEW i \in 1 .. Len(x)
                 PROVE  /\ x[i].id <= req1 + 1
                        /\ x[i].t # "part" => x[i].id <= req1
                        /\ ow1 > 0 \/ up1 => x[i].id <= req1
                        /\ x[i].framing = "upgrade" => x[i].n = 0
                        /\ EndsPlain(x[i]) =>
                             IF x[i].id = req1 /\ ow1 > 0 THEN i + x[i].n = Len(x) + ow1
                             ELSE i + x[i].n <= Len(x)
      BY DEF SentSoFar
    <2>1. CASE i = l
      BY <1>1, <2>1 DEF EndsPlain
    <2>2. CASE i \in 1 .. Len(s)
      <3>1. /\ x[i] = s[i] /\ s[i].id \in Nat /\ s[i].n \in Nat
            /\ s[i].id <= req + 1
            /\ s[i].t # "part" => s[i].id <= req
            /\ s[i].framing = "upgrade" => s[i].n = 0
            /\ EndsPlain(s[i]) => i + s[i].n <= Len(s) /\ s[i].id <= req
        BY <1>1, <1>3, <2>2 DEF EndsPlain
      <3>2. CASE u.t = "part"
        BY <1>1, <2>2, <3>1, <3>2
      <3>3. CASE u.t = "end"
        BY <1>1, <2>2, <3>1, <3>3
      <3>4. QED
        BY <3>2, <3>3
    <2>3. QED
      BY <1>1, <2>1, <2>2
  <1>7. LastSent(x, req1)
    BY <1>1 DEF LastSent
  <1>8. ASSUME w = 0 PROVE AtHeader(x, d, req1, ow1, up1)
    <2>1. AtHeader(s, d, req, 0, FALSE)
      BY <1>8 DEF AtHead
    <2>2. CASE s = <<>>
      <3>1. Len(s) = 0 /\ req = d
        BY <2>1, <2>2 DEF AtHeader
      <3>2. x[1] = u
        BY <1>1, <3>1
      <3>3. QED
        BY <1>1, <3>1, <3>2 DEF AtHeader
    <2>3. CASE s # <<>>
      <3>1. 1 \in 1 .. Len(s)
        BY <2>3
      <3>2. QED
        BY <1>1, <2>1, <2>3, <3>1 DEF AtHeader
    <2>4. QED
      BY <2>2, <2>3
  <1>9. ASSUME w > 0 PROVE AtBody(x, d, w, req1, ow1)
    <2>1. AtBody(s, d, w, req, 0)
      BY <1>9 DEF AtHead
    <2>2. d + 1 <= req /\ w <= Len(s)
      BY <2>1 DEF AtBody
    <2>3. ASSUME NEW j \in 1 .. Len(x)
          PROVE  /\ x[j].id = d + 1 <=> j <= w
                 /\ j <= w => x[j].t \in {"data", "junk"}
      <3>1. CASE j = l
        BY <1>1, <2>2, <3>1
      <3>2. CASE j \in 1 .. Len(s)
        BY <1>1, <2>1, <3>2 DEF AtBody
      <3>3. QED
        BY <1>1, <3>1, <3>2
    <2>4. req1 \in {req, req + 1} /\ (ow1 > 0 => req1 = req + 1)
      OBVIOUS
    <2>5. QED
      BY <1>1, <2>2, <2>3, <2>4 DEF AtBody
  <1>10. ASSUME up1 PROVE UpgradeAhead(x, req1)
    <2>1. u.t = "end" /\ u.framing = "upgrade" /\ req1 = req + 1
      BY <1>10
    <2>2. \A i \in 1 .. Len(x) : ~(i > l)
      BY <1>1
    <2>3. x[l] = u /\ l \in 1 .. Len(x)
      BY <1>1
    <2> HIDE DEF l
    <2>4. QED
      BY <2>1, <2>2, <2>3, Zenon DEF UpgradeAhead
  <1>11. QED
    BY <1>2, <1>4, <1>5, <1>6, <1>7, <1>8, <1>9, <1>10, Zenon DEF InSequence, AtHead, x

\* A unit of the body the client owes.
LEMMA BodyUnitKeeps ==
    ASSUME NEW s \in Seq(Unit), NEW u \in Unit, NEW req \in Nat, NEW d \in Nat, NEW w \in Nat,
           NEW ow \in Nat, ow > 0,
           InSequence(s, req, ow, FALSE), AtHead(s, d, w, req, ow, FALSE),
           u.id = req, u.t \in {"data", "junk"}, u.framing # "upgrade"
    PROVE  /\ InSequence(Append(s, u), req, ow - 1, FALSE)
           /\ AtHead(Append(s, u), d, w, req, ow - 1, FALSE)
  <1> DEFINE x == Append(s, u)
             l == Len(s) + 1
  <1>1. /\ Len(s) \in Nat /\ Len(x) = Len(s) + 1 /\ x # <<>>
        /\ \A i \in 1 .. Len(s) : x[i] = s[i]
        /\ x[Len(s) + 1] = u
        /\ \A i \in 1 .. Len(x) : i \in 1 .. Len(s) \/ i = Len(s) + 1
        /\ \A i \in 1 .. Len(s) : s[i].id \in Nat /\ s[i].n \in Nat
        /\ l \in 1 .. Len(x)
    BY Appended
  <1>2. \A i \in 1 .. Len(s) :
          /\ s[i].id <= req
          /\ s[i].framing = "upgrade" => s[i].n = 0
          /\ EndsPlain(s[i]) => IF s[i].id = req THEN i + s[i].n = Len(s) + ow
                                ELSE i + s[i].n <= Len(s)
    BY DEF InSequence, SentSoFar
  <1>3. Rising(x) /\ Stepwise(x)
    <2>1. CASE s = <<>>
      <3>1. Len(x) = 1
        BY <1>1, <2>1
      <3>2. \A i \in 1 .. Len(x) : i = 1
        BY <3>1
      <3>3. x[1] = u /\ u.id <= u.id
        BY <1>1, <2>1
      <3> HIDE DEF x
      <3>4. QED
        BY <3>1, <3>2, <3>3 DEF Rising, Stepwise
    <2>2. CASE s # <<>>
      BY <2>2, AppendedInOrder
    <2>3. QED
      BY <2>1, <2>2
  <1>4. BodiesFollow(x)
    <2>1. ASSUME NEW i \in 1 .. Len(s), EndsPlain(s[i])
          PROVE  /\ u.id = s[i].id <=> Len(s) + 1 <= i + s[i].n
                 /\ Len(s) + 1 <= i + s[i].n => u.t \in {"data", "junk"}
      BY <1>1, <1>2, <2>1
    <2>2. QED
      BY <2>1, AppendedBodies DEF InSequence
  <1> HIDE DEF x
  <1>5. HeadersEnd(x, req)
    <2> SUFFICES ASSUME NEW i \in 1 .. Len(x), x[i].t = "part", x[i].id <= req
                 PROVE  \E e \in 1 .. Len(x) : i <= e /\ x[e].t = "end" /\ x[e].id = x[i].id
      BY DEF HeadersEnd
    <2>1. i \in 1 .. Len(s) /\ x[i] = s[i]
      BY <1>1
    <2>2. PICK e \in 1 .. Len(s) : i <= e /\ s[e].t = "end" /\ s[e].id = s[i].id
      BY <2>1 DEF InSequence, HeadersEnd
    <2>3. e \in 1 .. Len(x) /\ x[e] = s[e]
      BY <1>1
    <2>4. QED
      BY <2>1, <2>2, <2>3
  <1>6. SentSoFar(x, req, ow - 1, FALSE)
    <2> SUFFICES ASSUME NEW i \in 1 .. Len(x)
                 PROVE  /\ x[i].id <= req
                        /\ x[i].framing = "upgrade" => x[i].n = 0
                        /\ EndsPlain(x[i]) =>
                             IF x[i].id = req /\ ow - 1 > 0 THEN i + x[i].n = Len(x) + (ow - 1)
                             ELSE i + x[i].n <= Len(x)
      <3> HIDE DEF l
      <3>1. \A i \in 1 .. Len(x) : x[i].id \in Nat
        BY Appended, Zenon DEF x
      <3>2. QED
        BY <3>1 DEF SentSoFar
    <2>1. CASE i = l
      BY <1>1, <2>1 DEF EndsPlain
    <2>2. CASE i \in 1 .. Len(s)
      <3>1. /\ x[i] = s[i] /\ s[i].id \in Nat /\ s[i].n \in Nat
            /\ s[i].id <= req
            /\ s[i].framing = "upgrade" => s[i].n = 0
            /\ EndsPlain(s[i]) => IF s[i].id = req THEN i + s[i].n = Len(s) + ow
                                  ELSE i + s[i].n <= Len(s)
        BY <1>1, <1>2, <2>2
      <3>2. QED
        BY <1>1, <2>2, <3>1
    <2>3. QED
      BY <1>1, <2>1, <2>2
  <1>7. LastSent(x, req)
    BY <1>1 DEF LastSent
  <1>8. ASSUME w = 0 PROVE AtHeader(x, d, req, ow - 1, FALSE)
    <2>1. AtHeader(s, d, req, ow, FALSE)
      BY <1>8 DEF AtHead
    <2>2. s # <<>>
      BY <2>1 DEF AtHeader
    <2>3. 1 \in 1 .. Len(s)
      BY <2>2
    <2>4. QED
      BY <1>1, <2>1, <2>2, <2>3 DEF AtHeader
  <1>9. ASSUME w > 0 PROVE AtBody(x, d, w, req, ow - 1)
    <2>1. AtBody(s, d, w, req, ow)
      BY <1>9 DEF AtHead
    <2>2. /\ d + 1 <= req
          /\ IF req = d + 1 THEN w = Len(s) + ow ELSE w <= Len(s)
      BY <2>1 DEF AtBody
    <2>3. ASSUME NEW j \in 1 .. Len(x)
          PROVE  /\ x[j].id = d + 1 <=> j <= w
                 /\ j <= w => x[j].t \in {"data", "junk"}
      <3>1. CASE j = l
        BY <1>1, <2>2, <3>1
      <3>2. CASE j \in 1 .. Len(s)
        BY <1>1, <2>1, <3>2 DEF AtBody
      <3>3. QED
        BY <1>1, <3>1, <3>2
    <2>4. QED
      BY <1>1, <2>2, <2>3 DEF AtBody
  <1>10. QED
    BY <1>3, <1>4, <1>5, <1>6, <1>7, <1>8, <1>9, Zenon DEF InSequence, AtHead, x

\* A frame of the peer of an upgraded connection, sent early.
LEMMA FrameUnitKeeps ==
    ASSUME NEW s \in Seq(Unit), NEW u \in Unit, NEW req \in Nat, NEW d \in Nat, NEW w \in Nat,
           InSequence(s, req, 0, TRUE), AtHead(s, d, w, req, 0, TRUE),
           u.id = req, u.t = "data", u.framing # "upgrade"
    PROVE  InSequence(Append(s, u), req, 0, TRUE) /\ AtHead(Append(s, u), d, w, req, 0, TRUE)
  <1> DEFINE x == Append(s, u)
             l == Len(s) + 1
  <1>1. /\ Len(s) \in Nat /\ Len(x) = Len(s) + 1 /\ x # <<>>
        /\ \A i \in 1 .. Len(s) : x[i] = s[i]
        /\ x[Len(s) + 1] = u
        /\ \A i \in 1 .. Len(x) : i \in 1 .. Len(s) \/ i = Len(s) + 1
        /\ \A i \in 1 .. Len(s) : s[i].id \in Nat /\ s[i].n \in Nat
        /\ l \in 1 .. Len(x)
    BY Appended
  <1>2. \A i \in 1 .. Len(s) :
          /\ s[i].id <= req
          /\ s[i].framing = "upgrade" => s[i].n = 0
          /\ EndsPlain(s[i]) => i + s[i].n <= Len(s)
    BY DEF InSequence, SentSoFar
  <1>3. PICK e \in 1 .. Len(s) :
          /\ s[e].t = "end" /\ s[e].framing = "upgrade" /\ s[e].id = req
          /\ \A i \in 1 .. Len(s) : i > e => s[i].t # "end"
    BY DEF AtHead, UpgradeAhead
  <1>4. s # <<>> /\ Len(s) > 0
    BY <1>3
  <1>5. Rising(x) /\ Stepwise(x)
    BY <1>4, AppendedInOrder
  <1>6. BodiesFollow(x)
    <2>1. ASSUME NEW i \in 1 .. Len(s), EndsPlain(s[i])
          PROVE  /\ u.id = s[i].id <=> Len(s) + 1 <= i + s[i].n
                 /\ Len(s) + 1 <= i + s[i].n => u.t \in {"data", "junk"}
      <3>1. i < e
        BY <1>3, <2>1 DEF EndsPlain
      <3>2. s[e].id # s[i].id
        BY <1>3, <2>1, <3>1 DEF InSequence, BodiesFollow
      <3>3. i + s[i].n <= Len(s) /\ s[i].n \in Nat
        BY <1>1, <1>2, <2>1
      <3>4. QED
        BY <1>1, <1>3, <3>2, <3>3
    <2>2. QED
      BY <2>1, AppendedBodies DEF InSequence
  <1> HIDE DEF x
  <1>7. HeadersEnd(x, req)
    <2> SUFFICES ASSUME NEW i \in 1 .. Len(x), x[i].t = "part", x[i].id <= req
                 PROVE  \E f \in 1 .. Len(x) : i <= f /\ x[f].t = "end" /\ x[f].id = x[i].id
      BY DEF HeadersEnd
    <2>1. i \in 1 .. Len(s) /\ x[i] = s[i]
      BY <1>1
    <2>2. PICK f \in 1 .. Len(s) : i <= f /\ s[f].t = "end" /\ s[f].id = s[i].id
      BY <2>1 DEF InSequence, HeadersEnd
    <2>3. f \in 1 .. Len(x) /\ x[f] = s[f]
      BY <1>1
    <2>4. QED
      BY <2>1, <2>2, <2>3
  <1>8. SentSoFar(x, req, 0, TRUE)
    <2> SUFFICES ASSUME NEW i \in 1 .. Len(x)
                 PROVE  /\ x[i].id <= req
                        /\ x[i].framing = "upgrade" => x[i].n = 0
                        /\ EndsPlain(x[i]) => i + x[i].n <= Len(x)
      <3> HIDE DEF l
      <3>1. \A i \in 1 .. Len(x) : x[i].id \in Nat
        BY Appended, Zenon DEF x
      <3>2. QED
        BY <3>1 DEF SentSoFar
    <2>1. CASE i = l
      BY <1>1, <2>1 DEF EndsPlain
    <2>2. CASE i \in 1 .. Len(s)
      BY <1>1, <1>2, <2>2
    <2>3. QED
      BY <1>1, <2>1, <2>2
  <1>9. LastSent(x, req)
    BY <1>1 DEF LastSent
  <1>10. ASSUME w = 0 PROVE AtHeader(x, d, req, 0, TRUE)
    <2>1. AtHeader(s, d, req, 0, TRUE)
      BY <1>10 DEF AtHead
    <2>2. s[1].id = d + 1 /\ s[1].t \in {"part", "end"} /\ 1 \in 1 .. Len(s)
      BY <1>1, <1>4, <2>1 DEF AtHeader
    <2>3. QED
      BY <1>1, <2>2 DEF AtHeader
  <1>11. ASSUME w > 0 PROVE AtBody(x, d, w, req, 0)
    <2>1. AtBody(s, d, w, req, 0)
      BY <1>11 DEF AtHead
    <2>2. d + 1 <= req /\ w <= Len(s)
      BY <2>1 DEF AtBody
    <2>3. req # d + 1
      BY <1>1, <1>3, <2>1 DEF AtBody
    <2>4. ASSUME NEW j \in 1 .. Len(x)
          PROVE  /\ x[j].id = d + 1 <=> j <= w
                 /\ j <= w => x[j].t \in {"data", "junk"}
      <3>1. CASE j = l
        BY <1>1, <2>2, <2>3, <3>1
      <3>2. CASE j \in 1 .. Len(s)
        BY <1>1, <2>1, <3>2 DEF AtBody
      <3>3. QED
        BY <1>1, <3>1, <3>2
    <2>5. QED
      BY <1>1, <2>2, <2>4 DEF AtBody
  <1>12. UpgradeAhead(x, req)
    <2>1. e \in 1 .. Len(x) /\ x[e] = s[e]
      BY <1>1
    <2>2. ASSUME NEW i \in 1 .. Len(x), i > e PROVE x[i].t # "end"
      BY <1>1, <1>3, <2>2
    <2>3. QED
      BY <1>3, <2>1, <2>2 DEF UpgradeAhead
  <1>13. QED
    BY <1>5, <1>6, <1>7, <1>8, <1>9, <1>10, <1>11, <1>12, Zenon DEF InSequence, AtHead, x

(* The server takes the first k units.                                     *)

LEMMA Dropped ==
    ASSUME NEW s \in Seq(Unit), NEW k \in 0 .. Len(s)
    PROVE  LET r == Rest(s, k)
           IN  /\ Len(s) \in Nat /\ Len(r) = Len(s) - k /\ r \in Seq(Unit)
               /\ \A i \in 1 .. Len(r) : k + i \in 1 .. Len(s) /\ r[i] = s[k + i]
               /\ \A i \in 1 .. Len(s) : s[i].id \in Nat /\ s[i].n \in Nat
               /\ r = <<>> <=> k = Len(s)
  <1> DEFINE r == Rest(s, k)
  <1>1. /\ r \in Seq(Unit) /\ Len(r) = Len(s) - k
        /\ \A i \in 1 .. Len(s) - k : r[i] = s[k + i]
        /\ k = Len(s) => r = <<>>
    BY RestOf, Zenon
  <1>2. \A i \in 1 .. Len(s) : s[i].id \in Nat /\ s[i].n \in Nat
    BY UnitAt, Zenon
  <1> HIDE DEF r
  <1>3. \A i \in 1 .. Len(r) : k + i \in 1 .. Len(s) /\ r[i] = s[k + i]
    BY <1>1
  <1>4. r = <<>> => k = Len(s)
    BY <1>1
  <1>5. QED
    BY <1>1, <1>2, <1>3, <1>4 DEF r

LEMMA RestInSequence ==
    ASSUME NEW s \in Seq(Unit), NEW k \in 0 .. Len(s),
           NEW req \in Nat, NEW ow \in Nat, NEW up \in BOOLEAN,
           InSequence(s, req, ow, up)
    PROVE  InSequence(Rest(s, k), req, ow, up)
  <1> DEFINE r == Rest(s, k)
  <1>1. /\ Len(s) \in Nat /\ Len(r) = Len(s) - k
        /\ \A i \in 1 .. Len(r) : k + i \in 1 .. Len(s) /\ r[i] = s[k + i]
        /\ \A i \in 1 .. Len(s) : s[i].id \in Nat /\ s[i].n \in Nat
        /\ r = <<>> <=> k = Len(s)
    BY Dropped, Zenon
  <1> HIDE DEF r
  <1>2. Rising(r)
    <2> SUFFICES ASSUME NEW i \in 1 .. Len(r), NEW j \in 1 .. Len(r), i <= j
                 PROVE  r[i].id <= r[j].id
      BY DEF Rising
    <2>1. k + i <= k + j
      OBVIOUS
    <2>2. QED
      BY <1>1, <2>1, Zenon DEF InSequence, Rising
  <1>3. Stepwise(r)
    <2> SUFFICES ASSUME NEW i \in 1 .. Len(r), NEW j \in 1 .. Len(r), j = i + 1
                 PROVE  /\ r[j].id <= r[i].id + 1
                        /\ r[j].id # r[i].id => r[j].t \in {"part", "end"}
      BY DEF Stepwise
    <2>1. k + j = (k + i) + 1
      OBVIOUS
    <2>2. QED
      BY <1>1, <2>1, ZenonT(60) DEF InSequence, Stepwise
  <1>4. BodiesFollow(r)
    <2> SUFFICES ASSUME NEW i \in 1 .. Len(r), NEW j \in 1 .. Len(r), i < j, EndsPlain(r[i])
                 PROVE  /\ r[j].id = r[i].id <=> j <= i + r[i].n
                        /\ j <= i + r[i].n => r[j].t \in {"data", "junk"}
      BY DEF BodiesFollow
    <2>1. k + i < k + j /\ EndsPlain(s[k + i])
      BY <1>1
    <2>2. /\ s[k + j].id = s[k + i].id <=> k + j <= (k + i) + s[k + i].n
          /\ k + j <= (k + i) + s[k + i].n => s[k + j].t \in {"data", "junk"}
      BY <1>1, <2>1, Zenon DEF InSequence, BodiesFollow
    <2>3. (k + j <= (k + i) + s[k + i].n) <=> j <= i + s[k + i].n
      BY <1>1
    <2>4. QED
      BY <1>1, <2>2, <2>3, Zenon
  <1>5. HeadersEnd(r, req)
    <2> SUFFICES ASSUME NEW i \in 1 .. Len(r), r[i].t = "part", r[i].id <= req
                 PROVE  \E e \in 1 .. Len(r) : i <= e /\ r[e].t = "end" /\ r[e].id = r[i].id
      BY DEF HeadersEnd
    <2>1. PICK f \in 1 .. Len(s) : k + i <= f /\ s[f].t = "end" /\ s[f].id = s[k + i].id
      BY <1>1 DEF InSequence, HeadersEnd
    <2>2. f - k \in 1 .. Len(r) /\ i <= f - k /\ k + (f - k) = f
      BY <1>1, <2>1
    <2>3. QED
      BY <1>1, <2>1, <2>2
  <1>6. SentSoFar(r, req, ow, up)
    <2> SUFFICES ASSUME NEW i \in 1 .. Len(r)
                 PROVE  /\ r[i].id <= req + 1
                        /\ r[i].t # "part" => r[i].id <= req
                        /\ ow > 0 \/ up => r[i].id <= req
                        /\ r[i].framing = "upgrade" => r[i].n = 0
                        /\ EndsPlain(r[i]) =>
                             IF r[i].id = req /\ ow > 0 THEN i + r[i].n = Len(r) + ow
                             ELSE i + r[i].n <= Len(r)
      BY DEF SentSoFar
    <2> DEFINE m == k + i
    <2>1. m \in 1 .. Len(s) /\ r[i] = s[m] /\ s[m].n \in Nat
      BY <1>1
    <2>2. /\ s[m].id <= req + 1
          /\ s[m].t # "part" => s[m].id <= req
          /\ ow > 0 \/ up => s[m].id <= req
          /\ s[m].framing = "upgrade" => s[m].n = 0
          /\ EndsPlain(s[m]) => IF s[m].id = req /\ ow > 0 THEN m + s[m].n = Len(s) + ow
                                ELSE m + s[m].n <= Len(s)
      BY <2>1, Zenon DEF InSequence, SentSoFar
    <2>3. /\ m + s[m].n = Len(s) + ow <=> i + s[m].n = Len(r) + ow
          /\ m + s[m].n <= Len(s) <=> i + s[m].n <= Len(r)
      <3>1. ASSUME NEW q \in Nat, NEW ls \in Nat, NEW lr, lr = ls - k, NEW i0 \in Nat
            PROVE  /\ (k + i0) + q = ls + ow <=> i0 + q = lr + ow
                   /\ (k + i0) + q <= ls <=> i0 + q <= lr
        BY <3>1
      <3>2. i \in Nat /\ Len(s) \in Nat /\ Len(r) = Len(s) - k
        BY <1>1
      <3>3. QED
        BY <2>1, <3>1, <3>2, ZenonT(60)
    <2> HIDE DEF m
    <2>4. QED
      BY <2>1, <2>2, <2>3, Zenon
  <1>7. LastSent(r, req)
    <2> SUFFICES ASSUME r # <<>> PROVE req <= r[Len(r)].id
      BY DEF LastSent
    <2>1. Len(r) \in 1 .. Len(r) /\ k + Len(r) = Len(s)
      BY <1>1
    <2>2. r[Len(r)] = s[Len(s)] /\ s # <<>>
      BY <1>1, <2>1
    <2>3. QED
      BY <2>2 DEF InSequence, LastSent
  <1>8. QED
    BY <1>2, <1>3, <1>4, <1>5, <1>6, <1>7, Zenon DEF InSequence, r

FirstEnd(s, h) ==
    h \in 1 .. Len(s) /\ s[h].t = "end" /\ \A i \in 1 .. Len(s) : i < h => s[i].t # "end"

\* The units up to the first end of a header belong to the request expected next.
LEMMA WholeHeader ==
    ASSUME NEW s \in Seq(Unit), NEW req \in Nat, NEW ow \in Nat, NEW up, NEW d \in Nat,
           InSequence(s, req, ow, up), AtHeader(s, d, req, ow, up),
           NEW h, FirstEnd(s, h)
    PROVE  d + 1 <= req /\ \A i \in 1 .. h : s[i].id = d + 1
  <1> USE DEF FirstEnd
  <1>1. \A i \in 1 .. Len(s) : s[i].id \in Nat
    BY UnitAt, Zenon
  <1>2. 1 \in 1 .. Len(s) /\ s # <<>>
    OBVIOUS
  <1>3. s[1].id = d + 1 /\ s[1].t \in {"part", "end"}
    BY <1>2 DEF AtHeader
  <1>4. s[h].id <= req
    BY DEF InSequence, SentSoFar
  <1>5. Rising(s) /\ HeadersEnd(s, req)
    BY DEF InSequence
  <1>6. s[1].id <= s[h].id
    BY <1>2, <1>5 DEF Rising
  <1>7. s[h].id = d + 1
    <2>1. CASE h = 1
      BY <1>3, <2>1
    <2>2. CASE h > 1
      <3>1. s[1].t = "part" /\ s[1].id <= req
        BY <1>1, <1>2, <1>3, <1>4, <1>6, <2>2
      <3>2. PICK e \in 1 .. Len(s) : s[e].t = "end" /\ s[e].id = s[1].id
        BY <1>2, <1>5, <3>1 DEF HeadersEnd
      <3>3. h <= e
        BY <3>2
      <3>4. s[h].id <= s[e].id
        BY <1>5, <3>3 DEF Rising
      <3>5. s[h].id \in Nat /\ s[e].id \in Nat
        BY <1>1
      <3>6. QED
        BY <1>3, <1>6, <3>2, <3>4, <3>5
    <2>3. QED
      BY <2>1, <2>2
  <1>8. ASSUME NEW i \in 1 .. h PROVE s[i].id = d + 1
    <2>1. i \in 1 .. Len(s) /\ 1 <= i /\ i <= h
      OBVIOUS
    <2>2. s[1].id <= s[i].id /\ s[i].id <= s[h].id
      BY <1>2, <1>5, <2>1 DEF Rising
    <2>3. s[i].id \in Nat
      BY <1>1, <2>1
    <2>4. QED
      BY <1>3, <1>7, <2>2, <2>3
  <1>9. QED
    BY <1>4, <1>7, <1>8

\* After a whole request of number d + 1 stands the request d + 2.
LEMMA BehindRequest ==
    ASSUME NEW s \in Seq(Unit), NEW req \in Nat, NEW ow \in Nat, NEW up \in BOOLEAN, NEW d \in Nat,
           InSequence(s, req, ow, up),
           NEW k \in 1 .. Len(s), s[k].id = d + 1, d + 1 <= req,
           \A j \in 1 .. Len(s) : k < j => s[j].id # d + 1,
           k = Len(s) => ow = 0 /\ ~up
    PROVE  AtHeader(Rest(s, k), d + 1, req, ow, up)
  <1> DEFINE r == Rest(s, k)
  <1>1. /\ Len(s) \in Nat /\ Len(r) = Len(s) - k
        /\ \A i \in 1 .. Len(r) : k + i \in 1 .. Len(s) /\ r[i] = s[k + i]
        /\ \A i \in 1 .. Len(s) : s[i].id \in Nat /\ s[i].n \in Nat
        /\ r = <<>> <=> k = Len(s)
    <2>1. k \in 0 .. Len(s)
      OBVIOUS
    <2>2. QED
      BY <2>1, Dropped, Zenon
  <1> HIDE DEF r
  <1>2. CASE r = <<>>
    <2>1. s # <<>> /\ s[Len(s)].id = d + 1
      BY <1>1, <1>2
    <2>2. req <= d + 1
      BY <2>1 DEF InSequence, LastSent
    <2>3. req = d + 1
      BY <2>2
    <2>4. QED
      BY <1>1, <1>2, <2>3, Zenon DEF AtHeader, r
  <1>3. CASE r # <<>>
    <2>1. k + 1 \in 1 .. Len(s) /\ r[1] = s[k + 1]
      BY <1>1, <1>3
    <2>2. s[k + 1].id # d + 1 /\ s[k + 1].id \in Nat
      BY <1>1, <2>1
    <2>3. /\ s[k].id <= s[k + 1].id
          /\ s[k + 1].id <= s[k].id + 1
          /\ s[k + 1].id # s[k].id => s[k + 1].t \in {"part", "end"}
      BY <2>1 DEF InSequence, Rising, Stepwise
    <2>4. s[k + 1].id = (d + 1) + 1 /\ s[k + 1].t \in {"part", "end"}
      BY <2>2, <2>3, SMTT(60)
    <2>5. QED
      BY <1>3, <2>1, <2>4 DEF AtHeader, r
  <1>4. QED
    BY <1>2, <1>3

\* An upgrade that is not among the units taken is still ahead.
LEMMA UpgradeStaysAhead ==
    ASSUME NEW s \in Seq(Unit), NEW k \in 0 .. Len(s), NEW req, UpgradeAhead(s, req),
           \A e \in 1 .. Len(s) : e <= k => ~(s[e].t = "end" /\ s[e].framing = "upgrade")
    PROVE  UpgradeAhead(Rest(s, k), req) /\ k < Len(s)
  <1> DEFINE r == Rest(s, k)
  <1>1. /\ Len(s) \in Nat /\ Len(r) = Len(s) - k
        /\ \A i \in 1 .. Len(r) : k + i \in 1 .. Len(s) /\ r[i] = s[k + i]
    BY Dropped, Zenon
  <1> HIDE DEF r
  <1>2. PICK e \in 1 .. Len(s) :
          /\ s[e].t = "end" /\ s[e].framing = "upgrade" /\ s[e].id = req
          /\ \A i \in 1 .. Len(s) : i > e => s[i].t # "end"
    BY DEF UpgradeAhead
  <1>3. e > k
    BY <1>2
  <1>4. e - k \in 1 .. Len(r) /\ k + (e - k) = e /\ k < Len(s)
    BY <1>1, <1>3
  <1>5. r[e - k] = s[e]
    BY <1>1, <1>4
  <1>6. ASSUME NEW i \in 1 .. Len(r), i > e - k PROVE r[i].t # "end"
    BY <1>1, <1>2, <1>6
  <1>7. QED
    BY <1>2, <1>4, <1>5, <1>6 DEF UpgradeAhead, r

\* The end h of the next header and the units behind it that are its body.
LEMMA RequestUnits ==
    ASSUME NEW s \in Seq(Unit), NEW req \in Nat, NEW ow \in Nat, NEW up, NEW d \in Nat,
           InSequence(s, req, ow, up), AtHeader(s, d, req, ow, up),
           NEW h, FirstEnd(s, h), s[h].framing # "upgrade",
           NEW k \in h .. Len(s), k <= h + s[h].n
    PROVE  /\ d + 1 <= req
           /\ \A i \in 1 .. k : s[i].id = d + 1
           /\ \A e \in 1 .. Len(s) : e <= k => ~(s[e].t = "end" /\ s[e].framing = "upgrade")
           /\ \A j \in 1 .. Len(s) : h < j =>
                /\ s[j].id = d + 1 <=> j <= h + s[h].n
                /\ j <= h + s[h].n => s[j].t \in {"data", "junk"}
           /\ IF req = d + 1 /\ ow > 0 THEN h + s[h].n = Len(s) + ow
              ELSE h + s[h].n <= Len(s)
  <1>1. d + 1 <= req /\ \A i \in 1 .. h : s[i].id = d + 1
    BY WholeHeader
  <1> USE DEF FirstEnd
  <1>2. s[h].id = d + 1 /\ EndsPlain(s[h]) /\ s[h].n \in Nat
    BY <1>1, UnitAt DEF EndsPlain
  <1>3. \A j \in 1 .. Len(s) : h < j =>
          /\ s[j].id = s[h].id <=> j <= h + s[h].n
          /\ j <= h + s[h].n => s[j].t \in {"data", "junk"}
    BY <1>2 DEF InSequence, BodiesFollow
  <1>4. IF req = d + 1 /\ ow > 0 THEN h + s[h].n = Len(s) + ow ELSE h + s[h].n <= Len(s)
    BY <1>2 DEF InSequence, SentSoFar
  <1>5. ASSUME NEW i \in 1 .. k PROVE s[i].id = d + 1
    <2>1. CASE i <= h
      BY <1>1, <2>1
    <2>2. CASE h < i
      BY <1>2, <1>3, <2>2
    <2>3. QED
      BY <2>1, <2>2
  <1>6. ASSUME NEW e \in 1 .. Len(s), e <= k
        PROVE  ~(s[e].t = "end" /\ s[e].framing = "upgrade")
    <2>1. CASE e < h
      BY <2>1
    <2>2. CASE e = h
      BY <2>2
    <2>3. CASE h < e
      <3>1. e <= h + s[h].n
        BY <1>2, <1>6
      <3>2. QED
        BY <1>3, <2>3, <3>1
    <2>4. QED
      BY <2>1, <2>2, <2>3
  <1>7. QED
    BY <1>1, <1>2, <1>3, <1>4, <1>5, <1>6

\* A complete request is taken off.
LEMMA RequestTaken ==
    ASSUME NEW s \in Seq(Unit), NEW req \in Nat, NEW ow \in Nat, NEW up \in BOOLEAN,
           NEW d \in Nat, InSequence(s, req, ow, up), AtHead(s, d, 0, req, ow, up),
           NEW h \in 1 .. Len(s), s[h].t = "end", \A i \in 1 .. Len(s) : i < h => s[i].t # "end",
           s[h].framing # "upgrade",
           h + s[h].n <= Len(s)
    PROVE  LET k == h + s[h].n
           IN  /\ k \in h .. Len(s)
               /\ \A i \in 1 .. k : s[i].id = d + 1
               /\ AtHead(Rest(s, k), d + 1, 0, req, ow, up)
  <1> DEFINE k == h + s[h].n
  <1>1. s[h].n \in Nat
    BY UnitAt
  <1>2. k \in h .. Len(s) /\ k <= h + s[h].n /\ k \in 0 .. Len(s) /\ k \in 1 .. Len(s)
    BY <1>1
  <1>3. AtHeader(s, d, req, ow, up)
    BY DEF AtHead
  <1>4. /\ d + 1 <= req
        /\ \A i \in 1 .. k : s[i].id = d + 1
        /\ \A e \in 1 .. Len(s) : e <= k => ~(s[e].t = "end" /\ s[e].framing = "upgrade")
        /\ \A j \in 1 .. Len(s) : h < j =>
             /\ s[j].id = d + 1 <=> j <= k
             /\ j <= k => s[j].t \in {"data", "junk"}
        /\ IF req = d + 1 /\ ow > 0 THEN k = Len(s) + ow ELSE k <= Len(s)
    <2>1. FirstEnd(s, h)
      BY DEF FirstEnd
    <2>2. QED
      BY <1>2, <1>3, <2>1, RequestUnits
  <1> HIDE DEF k
  <1>5. \A j \in 1 .. Len(s) : k < j => s[j].id # d + 1
    BY <1>2, <1>4
  <1>6. up => UpgradeAhead(Rest(s, k), req) /\ k < Len(s)
    BY <1>2, <1>4, UpgradeStaysAhead, Zenon DEF AtHead
  <1>7. s[k].id = d + 1
    BY <1>2, <1>4
  <1>8. k = Len(s) => ow = 0 /\ ~up
    <2>1. k = Len(s) => ~up
      BY <1>2, <1>6
    <2>2. ASSUME k = Len(s) PROVE ow = 0
      <3>1. req <= d + 1
        BY <1>2, <1>7, <2>2 DEF InSequence, LastSent
      <3>2. req = d + 1
        BY <1>4, <3>1
      <3>3. QED
        BY <1>4, <2>2, <3>2
    <2>3. QED
      BY <2>1, <2>2, Zenon
  <1>9. AtHeader(Rest(s, k), d + 1, req, ow, up)
    BY <1>2, <1>4, <1>5, <1>7, <1>8, BehindRequest, Zenon
  <1>10. AtHead(Rest(s, k), d + 1, 0, req, ow, up)
    BY <1>6, <1>9 DEF AtHead
  <1>11. QED
    BY <1>2, <1>4, <1>10, Zenon DEF k

\* A header and k - h units of its body are taken off; the rest is still wanted.
LEMMA HeaderTaken ==
    ASSUME NEW s \in Seq(Unit), NEW req \in Nat, NEW ow \in Nat, NEW up \in BOOLEAN,
           NEW d \in Nat, InSequence(s, req, ow, up), AtHead(s, d, 0, req, ow, up),
           NEW h \in 1 .. Len(s), s[h].t = "end", \A i \in 1 .. Len(s) : i < h => s[i].t # "end",
           NEW k \in h .. Len(s), k < h + s[h].n
    PROVE  /\ \A i \in 1 .. k : s[i].id = d + 1
           /\ AtHead(Rest(s, k), d, h + s[h].n - k, req, ow, up)
  <1> DEFINE r == Rest(s, k)
             w == h + s[h].n - k
  <1>1. s[h].n \in Nat /\ k <= h + s[h].n /\ k \in 0 .. Len(s) /\ w > 0 /\ w \in Nat
    <2>1. s[h].n \in Nat
      BY UnitAt
    <2>2. QED
      BY <2>1
  <1>2. s[h].framing # "upgrade"
    <2>1. s[h].framing = "upgrade" => s[h].n = 0
      BY DEF InSequence, SentSoFar
    <2>2. QED
      BY <2>1
  <1>3. AtHeader(s, d, req, ow, up)
    BY DEF AtHead
  <1>4. /\ d + 1 <= req
        /\ \A i \in 1 .. k : s[i].id = d + 1
        /\ \A e \in 1 .. Len(s) : e <= k => ~(s[e].t = "end" /\ s[e].framing = "upgrade")
        /\ \A j \in 1 .. Len(s) : h < j =>
             /\ s[j].id = d + 1 <=> j <= h + s[h].n
             /\ j <= h + s[h].n => s[j].t \in {"data", "junk"}
        /\ IF req = d + 1 /\ ow > 0 THEN h + s[h].n = Len(s) + ow
           ELSE h + s[h].n <= Len(s)
    <2>1. FirstEnd(s, h)
      BY DEF FirstEnd
    <2>2. QED
      BY <1>1, <1>2, <1>3, <2>1, RequestUnits, Zenon
  <1>5. /\ Len(s) \in Nat /\ Len(r) = Len(s) - k
        /\ \A i \in 1 .. Len(r) : k + i \in 1 .. Len(s) /\ r[i] = s[k + i]
    BY <1>1, Dropped, Zenon
  <1>6. up => UpgradeAhead(r, req)
    BY <1>1, <1>4, UpgradeStaysAhead, Zenon DEF AtHead
  <1> HIDE DEF r
  <1>7. AtBody(r, d, w, req, ow)
    <2>1. ASSUME NEW j \in 1 .. Len(r)
          PROVE  /\ r[j].id = d + 1 <=> j <= w
                 /\ j <= w => r[j].t \in {"data", "junk"}
      <3>1. k + j \in 1 .. Len(s) /\ h < k + j /\ r[j] = s[k + j]
        BY <1>5
      <3>2. k + j <= h + s[h].n <=> j <= w
        BY <1>1, SMTT(60)
      <3>3. QED
        BY <1>4, <3>1, <3>2
    <2>2. IF req = d + 1 /\ ow > 0 THEN w = Len(r) + ow ELSE w <= Len(r)
      <3> DEFINE q == h + s[h].n
      <3>1. q \in Nat /\ k \in Nat /\ w = q - k
        BY <1>1
      <3>2. IF req = d + 1 /\ ow > 0 THEN q = Len(s) + ow ELSE q <= Len(s)
        BY <1>4
      <3> HIDE DEF q, w
      <3>3. QED
        BY <1>5, <3>1, <3>2
    <2>3. QED
      BY <1>4, <2>1, <2>2 DEF AtBody
  <1>8. AtHead(r, d, w, req, ow, up)
    BY <1>1, <1>6, <1>7 DEF AtHead
  <1>9. QED
    BY <1>4, <1>8 DEF r

\* The stream takes k units of what it wants, or all of it.
LEMMA BodyTaken ==
    ASSUME NEW s \in Seq(Unit), NEW req \in Nat, NEW ow \in Nat, NEW up \in BOOLEAN,
           NEW d \in Nat, NEW w \in Nat, w > 0,
           InSequence(s, req, ow, up), AtHead(s, d, w, req, ow, up),
           NEW k \in 0 .. Len(s), k <= w
    PROVE  /\ \A i \in 1 .. k : s[i].id = d + 1
           /\ k < w => AtHead(Rest(s, k), d, w - k, req, ow, up)
           /\ k = w => AtHead(Rest(s, k), d + 1, 0, req, ow, up)
  <1> DEFINE r == Rest(s, k)
  <1>1. AtBody(s, d, w, req, ow)
    BY DEF AtHead
  <1>2. /\ d + 1 <= req
        /\ \A j \in 1 .. Len(s) :
             /\ s[j].id = d + 1 <=> j <= w
             /\ j <= w => s[j].t \in {"data", "junk"}
        /\ IF req = d + 1 /\ ow > 0 THEN w = Len(s) + ow ELSE w <= Len(s)
    BY <1>1 DEF AtBody
  <1>3. \A i \in 1 .. k : s[i].id = d + 1
    BY <1>2
  <1>4. \A e \in 1 .. Len(s) : e <= k => ~(s[e].t = "end" /\ s[e].framing = "upgrade")
    BY <1>2
  <1>5. up => UpgradeAhead(r, req) /\ k < Len(s)
    BY <1>4, UpgradeStaysAhead, Zenon DEF AtHead
  <1>6. /\ Len(s) \in Nat /\ Len(r) = Len(s) - k
        /\ \A i \in 1 .. Len(r) : k + i \in 1 .. Len(s) /\ r[i] = s[k + i]
    BY Dropped, Zenon
  <1> HIDE DEF r
  <1>7. ASSUME k < w PROVE AtHead(r, d, w - k, req, ow, up)
    <2>1. ASSUME NEW j \in 1 .. Len(r)
          PROVE  /\ r[j].id = d + 1 <=> j <= w - k
                 /\ j <= w - k => r[j].t \in {"data", "junk"}
      <3>1. k + j \in 1 .. Len(s) /\ r[j] = s[k + j]
        BY <1>6
      <3>2. k + j <= w <=> j <= w - k
        OBVIOUS
      <3>3. QED
        BY <1>2, <3>1, <3>2
    <2>2. IF req = d + 1 /\ ow > 0 THEN w - k = Len(r) + ow ELSE w - k <= Len(r)
      BY <1>2, <1>6
    <2>3. AtBody(r, d, w - k, req, ow)
      BY <1>2, <2>1, <2>2 DEF AtBody
    <2>4. QED
      BY <1>5, <1>7, <2>3 DEF AtHead
  <1>8. ASSUME k = w PROVE AtHead(r, d + 1, 0, req, ow, up)
    <2>1. k \in 1 .. Len(s) /\ s[k].id = d + 1
      BY <1>2, <1>8
    <2>2. \A j \in 1 .. Len(s) : k < j => s[j].id # d + 1
      BY <1>2, <1>8
    <2>3. ASSUME k = Len(s) PROVE ow = 0
      <3>1. req <= d + 1
        BY <2>1, <2>3 DEF InSequence, LastSent
      <3>2. req = d + 1
        BY <1>2, <3>1
      <3>3. QED
        BY <1>2, <1>8, <2>3, <3>2
    <2>4. k = Len(s) => ~up
      BY <1>5, <1>6
    <2>5. AtHeader(r, d + 1, req, ow, up)
      BY <1>2, <2>1, <2>2, <2>3, <2>4, BehindRequest, Zenon DEF r
    <2>6. QED
      BY <1>5, <2>5 DEF AtHead
  <1>9. QED
    BY <1>3, <1>7, <1>8, Zenon DEF r

----------------------------------------------------------------------------
\* The connection reads, or will read again.
Parsing ==
    \/ phase_ \in {"tls_handshake", "reading"}
    \/ phase_ = "writing" /\ after_response = "keep_alive"
    \/ phase_ = "reverse_proxy" /\ reverse_proxy_keep_alive_

Unparsed == request_buffer_ \o (pending \o wire)

Wanted == IF http1_body_stream_ = NoStream THEN 0
          ELSE http1_body_stream_.content_length - http1_body_stream_.received

Whole ==
    /\ RequestsWholeAndInOrder
    /\ Parsing =>
         /\ InSequence(Unparsed, requests, owed, upgraded)
         /\ AtHead(Unparsed, Len(dispatched), Wanted, requests, owed, upgraded)
         /\ http1_body_stream_ # NoStream => http1_body_stream_.id = Len(dispatched) + 1
         /\ upgraded => owed = 0

LEMMA FrontUnits ==
    ASSUME NEW buf \in Seq(Unit), NEW rest \in Seq(Unit), NEW k \in 0 .. Len(buf)
    PROVE  /\ buf \o rest \in Seq(Unit) /\ Len(buf \o rest) = Len(buf) + Len(rest)
           /\ Len(buf) \in Nat /\ Len(rest) \in Nat /\ k \in 0 .. Len(buf \o rest)
           /\ \A i \in 1 .. Len(buf) : (buf \o rest)[i] = buf[i]
           /\ Rest(buf, k) \o rest = Rest(buf \o rest, k)
  <1> DEFINE s == buf \o rest
  <1> DEFINE r == Rest(buf, k) \o rest
             q == Rest(s, k)
  <1>1. /\ s \in Seq(Unit) /\ Len(s) = Len(buf) + Len(rest)
        /\ Len(buf) \in Nat /\ Len(rest) \in Nat
        /\ \A i \in 1 .. Len(buf) + Len(rest) :
             s[i] = IF i <= Len(buf) THEN buf[i] ELSE rest[i - Len(buf)]
    BY ConcatProperties
  <1> HIDE DEF s
  <1>2. k \in 0 .. Len(s) /\ \A i \in 1 .. Len(buf) : s[i] = buf[i]
    BY <1>1
  <1>3. /\ Rest(buf, k) \in Seq(Unit) /\ Len(Rest(buf, k)) = Len(buf) - k
        /\ \A i \in 1 .. Len(buf) - k : Rest(buf, k)[i] = buf[k + i]
    BY RestOf, Zenon
  <1>4. /\ q \in Seq(Unit) /\ Len(q) = Len(s) - k
        /\ \A i \in 1 .. Len(s) - k : q[i] = s[k + i]
    BY <1>1, <1>2, RestOf, Zenon
  <1>5. /\ r \in Seq(Unit) /\ Len(r) = Len(Rest(buf, k)) + Len(rest)
        /\ \A i \in 1 .. Len(Rest(buf, k)) + Len(rest) :
             r[i] = IF i <= Len(Rest(buf, k)) THEN Rest(buf, k)[i]
                    ELSE rest[i - Len(Rest(buf, k))]
    BY <1>3, ConcatProperties, Zenon
  <1> HIDE DEF r, q
  <1>6. Len(r) = Len(q)
    BY <1>1, <1>3, <1>4, <1>5
  <1>7. ASSUME NEW i \in 1 .. Len(r) PROVE r[i] = q[i]
    <2>1. CASE i <= Len(buf) - k
      <3>1. r[i] = Rest(buf, k)[i]
        BY <1>1, <1>3, <1>5, <2>1
      <3>2. Rest(buf, k)[i] = buf[k + i]
        BY <1>3, <2>1
      <3>3. k + i \in 1 .. Len(buf) /\ i \in 1 .. Len(s) - k
        BY <1>1, <2>1
      <3>4. q[i] = s[k + i] /\ s[k + i] = buf[k + i]
        BY <1>2, <1>4, <3>3
      <3>5. QED
        BY <3>1, <3>2, <3>4
    <2>2. CASE ~(i <= Len(buf) - k)
      <3>1. r[i] = rest[i - (Len(buf) - k)]
        BY <1>1, <1>3, <1>5, <2>2
      <3>2. q[i] = rest[(k + i) - Len(buf)]
        BY <1>1, <1>2, <1>3, <1>4, <1>5, <2>2
      <3>3. i - (Len(buf) - k) = (k + i) - Len(buf)
        BY <1>1
      <3>4. QED
        BY <3>1, <3>2, <3>3
    <2>3. QED
      BY <2>1, <2>2
  <1>8. r = q
    BY <1>4, <1>5, <1>6, <1>7, SeqEqual
  <1>9. QED
    BY <1>1, <1>2, <1>8, Zenon DEF s, r, q

LEMMA IdOfSame ==
    ASSUME NEW buf \in Seq(Unit), NEW n \in 1 .. Len(buf), NEW m,
           \A i \in 1 .. n : buf[i].id = m
    PROVE  IdOf(SubSeq(buf, 1, n)) = m
  <1> DEFINE s == SubSeq(buf, 1, n)
  <1>1. DOMAIN s = 1 .. n /\ \A i \in 1 .. n : s[i] = buf[i]
    BY HeadOf
  <1>2. 1 \in 1 .. n
    OBVIOUS
  <1> HIDE DEF s
  <1>3. s[1].id = m /\ \A i \in DOMAIN s : s[i].id = s[1].id
    BY <1>1, <1>2
  <1>4. IdOf(s) = m
    BY <1>3 DEF IdOf
  <1>5. QED
    BY <1>4 DEF s

\* A request is dispatched in its turn.
LEMMA DispatchedInTurn ==
    ASSUME dispatched \in Seq(Nat), RequestsWholeAndInOrder,
           dispatched' = Append(dispatched, Len(dispatched) + 1)
    PROVE  RequestsWholeAndInOrder' /\ Len(dispatched') = Len(dispatched) + 1
  <1>1. /\ Len(dispatched') = Len(dispatched) + 1
        /\ DOMAIN dispatched' = 1 .. Len(dispatched) + 1
        /\ \A k \in 1 .. Len(dispatched) : dispatched'[k] = dispatched[k]
        /\ dispatched'[Len(dispatched) + 1] = Len(dispatched) + 1
        /\ DOMAIN dispatched = 1 .. Len(dispatched)
    OBVIOUS
  <1>2. QED
    BY <1>1 DEF RequestsWholeAndInOrder

LEMMA NoLongerParsing ==
    ASSUME RequestsWholeAndInOrder', ~Parsing'
    PROVE  Whole'
  BY DEF Whole

\* The units of one request have been taken off the front and dispatched.
LEMMA DispatchWhole ==
    ASSUME Typed, RequestsWholeAndInOrder,
           NEW rest, request_buffer_' \o (pending' \o wire') = rest,
           UNCHANGED <<owed, requests, upgraded>>,
           InSequence(rest, requests, owed, upgraded),
           AtHead(rest, Len(dispatched) + 1, 0, requests, owed, upgraded),
           upgraded => owed = 0,
           NEW taken, Dispatches(Len(dispatched) + 1, taken)
    PROVE  Whole'
  <1>1. /\ http1_body_stream_' = NoStream
        /\ dispatched' = Append(dispatched, Len(dispatched) + 1)
        /\ dispatched \in Seq(Nat)
    BY DEF Dispatches, dispatch_request, Typed, TypeOK
  <1>2. RequestsWholeAndInOrder' /\ Len(dispatched') = Len(dispatched) + 1
    BY <1>1, DispatchedInTurn
  <1>3. Unparsed' = rest /\ Wanted' = 0
    BY <1>1, Zenon DEF Unparsed, Wanted
  <1>4. /\ InSequence(Unparsed, requests, owed, upgraded)'
        /\ AtHead(Unparsed, Len(dispatched), Wanted, requests, owed, upgraded)'
    BY <1>2, <1>3
  <1>5. QED
    BY <1>1, <1>2, <1>4, Zenon DEF Whole

\* Units have been taken, or none, and the connection goes on with its request.
LEMMA StillWhole ==
    ASSUME RequestsWholeAndInOrder, NEW s, NEW w,
           Unparsed' = s, Wanted' = w,
           UNCHANGED <<owed, requests, upgraded, dispatched>>,
           InSequence(s, requests, owed, upgraded),
           AtHead(s, Len(dispatched), w, requests, owed, upgraded),
           upgraded => owed = 0,
           http1_body_stream_' # NoStream => http1_body_stream_'.id = Len(dispatched) + 1
    PROVE  Whole'
  <1>1. /\ RequestsWholeAndInOrder'
        /\ InSequence(Unparsed, requests, owed, upgraded)'
        /\ AtHead(Unparsed, Len(dispatched), Wanted, requests, owed, upgraded)'
    BY DEF RequestsWholeAndInOrder
  <1>2. QED
    BY <1>1, Zenon DEF Whole

LEMMA RefusedWhole ==
    ASSUME RequestsWholeAndInOrder, NEW left, NEW t, Refuses(left, t)
    PROVE  Whole'
  <1>1. phase_' = "writing" /\ after_response' = "close" /\ dispatched' = dispatched
    BY DEF Refuses, Respond
  <1>2. ~Parsing' /\ RequestsWholeAndInOrder'
    BY <1>1 DEF Parsing, RequestsWholeAndInOrder
  <1>3. QED
    BY <1>2, NoLongerParsing

LEMMA UpgradeWhole ==
    ASSUME dispatched \in Seq(Nat), RequestsWholeAndInOrder, NEW buf, NEW n, NEW t,
           IdOf(SubSeq(buf, 1, n)) = Len(dispatched) + 1,
           try_handle_websocket_upgrade(buf, n, t)
    PROVE  Whole'
  <1>1. dispatched' = Append(dispatched, Len(dispatched) + 1)
    BY Zenon DEF try_handle_websocket_upgrade
  <1>2. \/ phase_' = "closed"
        \/ phase_' = "writing" /\ after_response' \in {"close", "websocket", "websocket_proxy"}
    BY DEF try_handle_websocket_upgrade, Respond
  <1>3. ~Parsing'
    BY <1>2 DEF Parsing
  <1>4. RequestsWholeAndInOrder'
    BY <1>1, DispatchedInTurn
  <1>5. QED
    BY <1>3, <1>4, NoLongerParsing

\* The facts about the state that the two lemmas on reading start from.
LEMMA WholeState ==
    ASSUME Typed, Whole, Parsing
    PROVE  /\ requests \in Nat /\ owed \in Nat /\ upgraded \in BOOLEAN
           /\ dispatched \in Seq(Nat) /\ Len(dispatched) \in Nat
           /\ RequestsWholeAndInOrder /\ (upgraded => owed = 0)
           /\ InSequence(Unparsed, requests, owed, upgraded)
           /\ AtHead(Unparsed, Len(dispatched), Wanted, requests, owed, upgraded)
           /\ http1_body_stream_ # NoStream => http1_body_stream_.id = Len(dispatched) + 1
  <1>1. requests \in Nat /\ owed \in Nat /\ upgraded \in BOOLEAN /\ dispatched \in Seq(Nat)
    BY Constants DEF Typed, TypeOK
  <1>2. Len(dispatched) \in Nat
    BY <1>1
  <1>3. QED
    BY <1>1, <1>2, Zenon DEF Whole

(***************************************************************************)
(* What stands at the head of a buffer that begins with a header: when the *)
(* header has ended, the units header_end and its n tell the server to     *)
(* take are exactly those of the request it expects.                       *)
(***************************************************************************)
LEMMA HeaderAtFront ==
    ASSUME NEW buf \in Seq(Unit), NEW s \in Seq(Unit), NEW req \in Nat, NEW ow \in Nat,
           NEW up \in BOOLEAN, NEW d \in Nat,
           InSequence(s, req, ow, up), AtHead(s, d, 0, req, ow, up),
           Len(buf) <= Len(s), \A i \in 1 .. Len(buf) : s[i] = buf[i],
           header_end(buf) > 0
    PROVE  LET h == header_end(buf)
               n == h + buf[h].n
               k == Len(buf)
           IN  /\ h \in 1 .. k /\ n \in Nat
               /\ buf[h].framing = "upgrade" => n = h
               /\ \A i \in 1 .. h : buf[i].id = d + 1
               /\ k < n => /\ \A i \in 1 .. k : buf[i].id = d + 1
                           /\ AtHead(Rest(s, k), d, n - k, req, ow, up)
               /\ n <= k /\ buf[h].framing # "upgrade" =>
                    /\ n \in 1 .. k
                    /\ \A i \in 1 .. n : buf[i].id = d + 1
                    /\ AtHead(Rest(s, n), d + 1, 0, req, ow, up)
  <1> DEFINE h == header_end(buf)
             n == h + buf[h].n
             k == Len(buf)
  <1>1. /\ Len(s) \in Nat /\ k \in Nat /\ k <= Len(s)
        /\ \A i \in 1 .. k : s[i] = buf[i]
    OBVIOUS
  <1>2. /\ h \in 0 .. k
        /\ \A i \in 1 .. k : i < h => buf[i].t # "end"
        /\ h # 0 => buf[h].t = "end"
    BY HeaderEnd, Zenon
  <1>3. h \in 1 .. k
    BY <1>1, <1>2
  <1>4. buf[h].n \in Nat /\ n \in Nat
    <2>1. buf[h].n \in Nat
      BY <1>3, UnitAt, Zenon
    <2>2. QED
      BY <1>3, <2>1
  <1> HIDE DEF h, k
  <1>5. /\ h \in 1 .. Len(s) /\ s[h] = buf[h] /\ s[h].t = "end"
        /\ \A i \in 1 .. Len(s) : i < h => s[i].t # "end"
    <2>1. h \in 1 .. Len(s) /\ s[h] = buf[h] /\ s[h].t = "end"
      BY <1>1, <1>2, <1>3
    <2>2. ASSUME NEW i \in 1 .. Len(s), i < h PROVE s[i].t # "end"
      <3>1. i \in 1 .. k
        BY <1>1, <1>3, <2>2
      <3>2. QED
        BY <1>1, <1>2, <2>2, <3>1
    <2>3. QED
      BY <2>1, <2>2
  <1>6. s[h].framing = "upgrade" => s[h].n = 0
    BY <1>5 DEF InSequence, SentSoFar
  <1>7. AtHeader(s, d, req, ow, up)
    BY DEF AtHead
  <1>8. \A i \in 1 .. h : s[i].id = d + 1
    <2>1. FirstEnd(s, h)
      BY <1>5 DEF FirstEnd
    <2>2. QED
      BY <1>7, <2>1, WholeHeader
  <1>9. \A i \in 1 .. h : buf[i].id = d + 1
    BY <1>1, <1>3, <1>8
  <1>10. ASSUME k < n
         PROVE  /\ \A i \in 1 .. k : buf[i].id = d + 1
                /\ AtHead(Rest(s, k), d, n - k, req, ow, up)
    <2>1. k \in h .. Len(s) /\ k < h + s[h].n /\ n - k = h + s[h].n - k
      <3>1. s[h].n = buf[h].n
        BY <1>5
      <3>2. QED
        BY <1>1, <1>3, <1>4, <1>10, <3>1
    <2> HIDE DEF n
    <2>2. /\ \A i \in 1 .. k : s[i].id = d + 1
          /\ AtHead(Rest(s, k), d, h + s[h].n - k, req, ow, up)
      <3>1. /\ h \in 1 .. Len(s) /\ s[h].t = "end"
            /\ \A i \in 1 .. Len(s) : i < h => s[i].t # "end"
        BY <1>5
      <3>2. k \in h .. Len(s) /\ k < h + s[h].n
        BY <2>1
      <3>3. QED
        BY <3>1, <3>2, HeaderTaken, SMTT(60)
    <2>3. QED
      BY <1>1, <2>1, <2>2
  <1>11. ASSUME n <= k, buf[h].framing # "upgrade"
         PROVE  /\ n \in 1 .. k
                /\ \A i \in 1 .. n : buf[i].id = d + 1
                /\ AtHead(Rest(s, n), d + 1, 0, req, ow, up)
    <2>1. n = h + s[h].n /\ h + s[h].n <= Len(s) /\ n \in 1 .. k
      BY <1>1, <1>3, <1>4, <1>5, <1>11, SMTT(60)
    <2> HIDE DEF n
    <2>2. /\ \A i \in 1 .. n : s[i].id = d + 1
          /\ AtHead(Rest(s, n), d + 1, 0, req, ow, up)
      <3>1. s[h].framing # "upgrade"
        BY <1>5, <1>11
      <3>2. /\ h \in 1 .. Len(s) /\ s[h].t = "end"
            /\ \A i \in 1 .. Len(s) : i < h => s[i].t # "end"
        BY <1>5
      <3>3. h + s[h].n <= Len(s)
        BY <2>1
      <3>4. /\ \A i \in 1 .. h + s[h].n : s[i].id = d + 1
            /\ AtHead(Rest(s, h + s[h].n), d + 1, 0, req, ow, up)
        BY <3>1, <3>2, <3>3, RequestTaken
      <3>5. QED
        BY <2>1, <3>4, Zenon
    <2>3. \A i \in 1 .. n : buf[i].id = d + 1
      <3>1. \A i \in 1 .. n : i \in 1 .. k
        BY <1>1, <2>1
      <3>2. QED
        BY <1>1, <2>2, <3>1, Zenon
    <2>4. QED
      BY <2>1, <2>2, <2>3
  <1>12. buf[h].framing = "upgrade" => n = h
    BY <1>3, <1>5, <1>6
  <1> HIDE DEF n
  <1>13. QED
    BY <1>3, <1>4, <1>9, <1>10, <1>11, <1>12, Zenon DEF h, k, n

\* buf and what is still to be read are all that is not parsed.
Reads(buf) ==
    /\ pending' \in Seq(Unit) /\ wire' \in Seq(Unit)
    /\ buf \o (pending' \o wire') = Unparsed
    /\ UNCHANGED <<owed, requests, upgraded>>

LEMMA ReadsFront ==
    ASSUME Typed, Whole, Parsing, NEW buf \in Seq(Unit), Reads(buf)
    PROVE  /\ Unparsed \in Seq(Unit)
           /\ Len(buf) \in Nat /\ Len(buf) <= Len(Unparsed)
           /\ \A i \in 1 .. Len(buf) : Unparsed[i] = buf[i]
           /\ \A k \in 0 .. Len(buf) :
                /\ k \in 0 .. Len(Unparsed)
                /\ Rest(buf, k) \o (pending' \o wire') = Rest(Unparsed, k)
                /\ InSequence(Rest(Unparsed, k), requests, owed, upgraded)
  <1> DEFINE rest == pending' \o wire'
             s == Unparsed
  <1>1. /\ pending' \in Seq(Unit) /\ wire' \in Seq(Unit) /\ buf \o rest = s
    BY DEF Reads
  <1>2. rest \in Seq(Unit)
    BY <1>1, Concat, Zenon
  <1>3. /\ requests \in Nat /\ owed \in Nat /\ upgraded \in BOOLEAN
        /\ InSequence(s, requests, owed, upgraded)
    BY WholeState, Zenon
  <1> HIDE DEF rest, s
  <1>4. /\ s \in Seq(Unit) /\ Len(s) = Len(buf) + Len(rest)
        /\ Len(buf) \in Nat /\ Len(rest) \in Nat
        /\ \A i \in 1 .. Len(buf) : s[i] = buf[i]
    <2>1. 0 \in 0 .. Len(buf)
      OBVIOUS
    <2>2. QED
      BY <1>1, <1>2, <2>1, FrontUnits, ZenonT(60)
  <1>5. ASSUME NEW k \in 0 .. Len(buf)
        PROVE  /\ k \in 0 .. Len(s) /\ Rest(buf, k) \o rest = Rest(s, k)
               /\ InSequence(Rest(s, k), requests, owed, upgraded)
    <2>1. k \in 0 .. Len(s) /\ Rest(buf, k) \o rest = Rest(s, k)
      BY <1>1, <1>2, FrontUnits, Zenon
    <2>2. QED
      BY <1>3, <1>4, <2>1, RestInSequence, Zenon
  <1>6. Len(buf) <= Len(s)
    BY <1>4
  <1>7. QED
    BY <1>4, <1>5, <1>6, Zenon DEF rest, s

LEMMA ReadsHeader ==
    ASSUME Typed, Whole, Parsing, http1_body_stream_ = NoStream,
           NEW buf \in Seq(Unit), Reads(buf), header_end(buf) > 0
    PROVE  LET h == header_end(buf)
               n == h + buf[h].n
               k == Len(buf)
               d == Len(dispatched)
           IN  /\ h \in 1 .. k /\ n \in Nat
               /\ buf[h].framing = "upgrade" => n = h
               /\ \A i \in 1 .. h : buf[i].id = d + 1
               /\ k < n =>
                    /\ \A i \in 1 .. k : buf[i].id = d + 1
                    /\ AtHead(Rest(Unparsed, k), d, n - k, requests, owed, upgraded)
               /\ n <= k /\ buf[h].framing # "upgrade" =>
                    /\ n \in 1 .. k
                    /\ \A i \in 1 .. n : buf[i].id = d + 1
                    /\ AtHead(Rest(Unparsed, n), d + 1, 0, requests, owed, upgraded)
  <1> DEFINE s == Unparsed
             d == Len(dispatched)
  <1>1. /\ s \in Seq(Unit) /\ Len(buf) <= Len(s)
        /\ \A i \in 1 .. Len(buf) : s[i] = buf[i]
    BY ReadsFront, Zenon
  <1>2. /\ requests \in Nat /\ owed \in Nat /\ upgraded \in BOOLEAN /\ d \in Nat
        /\ InSequence(s, requests, owed, upgraded)
        /\ AtHead(s, d, Wanted, requests, owed, upgraded)
    BY WholeState, Zenon
  <1>3. AtHead(s, d, 0, requests, owed, upgraded)
    BY <1>2, Zenon DEF Wanted
  <1> HIDE DEF s, d
  <1>4. QED
    BY <1>1, <1>2, <1>3, HeaderAtFront DEF s, d

LEMMA ReadsBody ==
    ASSUME Typed, Whole, Parsing, http1_body_stream_ # NoStream,
           NEW buf \in Seq(Unit), Reads(buf)
    PROVE  LET w == http1_body_stream_.content_length - http1_body_stream_.received
               k == Len(buf)
               d == Len(dispatched)
           IN  /\ k < w =>
                    /\ \A i \in 1 .. k : buf[i].id = d + 1
                    /\ AtHead(Rest(Unparsed, k), d, w - k, requests, owed, upgraded)
               /\ w <= k =>
                    /\ \A i \in 1 .. w : buf[i].id = d + 1
                    /\ AtHead(Rest(Unparsed, w), d + 1, 0, requests, owed, upgraded)
  <1> DEFINE s == Unparsed
             d == Len(dispatched)
             k == Len(buf)
             w == http1_body_stream_.content_length - http1_body_stream_.received
  <1>1. /\ s \in Seq(Unit) /\ k \in Nat /\ k <= Len(s)
        /\ \A i \in 1 .. k : s[i] = buf[i]
    BY ReadsFront, Zenon
  <1>2. /\ requests \in Nat /\ owed \in Nat /\ upgraded \in BOOLEAN /\ d \in Nat
        /\ InSequence(s, requests, owed, upgraded)
        /\ AtHead(s, d, Wanted, requests, owed, upgraded)
    BY WholeState, Zenon
  <1>3. w \in Nat /\ w > 0
    BY DEF Typed, TypeOK, Streams, Streaming
  <1>4. AtHead(s, d, w, requests, owed, upgraded)
    BY <1>2, Zenon DEF Wanted
  <1> HIDE DEF s, d, k, w
  <1>5. ASSUME NEW m \in 0 .. k, m <= w
        PROVE  /\ \A i \in 1 .. m : buf[i].id = d + 1
               /\ m < w => AtHead(Rest(s, m), d, w - m, requests, owed, upgraded)
               /\ m = w => AtHead(Rest(s, m), d + 1, 0, requests, owed, upgraded)
    <2>1. m \in 0 .. Len(s)
      BY <1>1
    <2>2. /\ \A i \in 1 .. m : s[i].id = d + 1
          /\ m < w => AtHead(Rest(s, m), d, w - m, requests, owed, upgraded)
          /\ m = w => AtHead(Rest(s, m), d + 1, 0, requests, owed, upgraded)
      <3>1. /\ s \in Seq(Unit) /\ requests \in Nat /\ owed \in Nat /\ upgraded \in BOOLEAN
            /\ d \in Nat /\ w \in Nat /\ w > 0
            /\ InSequence(s, requests, owed, upgraded)
            /\ AtHead(s, d, w, requests, owed, upgraded)
        BY <1>1, <1>2, <1>3, <1>4, Zenon
      <3>2. QED
        BY <1>5, <2>1, <3>1, BodyTaken
    <2>3. \A i \in 1 .. m : i \in 1 .. k
      BY <1>1
    <2>4. QED
      BY <1>1, <2>2, <2>3, Zenon
  <1>6. k < w => k \in 0 .. k /\ k <= w
    BY <1>1, <1>3
  <1>7. w <= k => w \in 0 .. k /\ w <= w
    BY <1>1, <1>3
  <1>8. QED
    BY <1>5, <1>6, <1>7, Zenon DEF s, d, k, w

LEMMA FedInTurn ==
    ASSUME NEW stream \in Streams, NEW buf, NEW k,
           \A i \in 1 .. k : buf[i].id = stream.id
    PROVE  Fed(stream, buf, k).id = stream.id
  <1>1. Fed(stream, buf, k) = [stream EXCEPT !.received = stream.received + k, !.id = stream.id]
    BY Zenon DEF Fed
  <1>2. QED
    BY <1>1 DEF Streams

\* The stream has taken all of buf, its own units, and wants more.
LEMMA StreamWhole ==
    ASSUME Typed, Whole, Parsing, NEW buf \in Seq(Unit), Reads(buf),
           NEW stream \in Streams, NEW t, StreamGoesOn(stream, t),
           stream.id = Len(dispatched) + 1,
           NEW w, stream.content_length - stream.received = w,
           AtHead(Rest(Unparsed, Len(buf)), Len(dispatched), w, requests, owed, upgraded)
    PROVE  Whole'
  <1> DEFINE s == Rest(Unparsed, Len(buf))
  <1>1. /\ RequestsWholeAndInOrder /\ (upgraded => owed = 0) /\ Len(dispatched) \in Nat
    BY WholeState, Zenon
  <1>2. /\ http1_body_stream_' = stream /\ request_buffer_' = <<>> /\ dispatched' = dispatched
    BY DEF StreamGoesOn
  <1>3. stream # NoStream
    BY <1>1 DEF NoStream
  <1>4. Wanted' = w
    BY <1>2, <1>3 DEF Wanted
  <1>5. Len(buf) \in 0 .. Len(buf)
    OBVIOUS
  <1>6. Rest(buf, Len(buf)) = <<>>
    BY <1>5, RestOf
  <1>7. Rest(buf, Len(buf)) \o (pending' \o wire') = s /\ InSequence(s, requests, owed, upgraded)
    BY <1>5, ReadsFront, Zenon
  <1>8. Unparsed' = s
    BY <1>2, <1>6, <1>7, Zenon DEF Unparsed
  <1>9. UNCHANGED <<owed, requests, upgraded, dispatched>>
    BY <1>2 DEF Reads
  <1> HIDE DEF s
  <1>10. AtHead(s, Len(dispatched), w, requests, owed, upgraded)
    BY DEF s
  <1>11. QED
    BY <1>1, <1>2, <1>4, <1>7, <1>8, <1>9, <1>10, StillWhole

\* The first k units of buf were one request, and have been dispatched.
LEMMA TakenWhole ==
    ASSUME Typed, Whole, Parsing, NEW buf \in Seq(Unit), Reads(buf),
           NEW k \in 0 .. Len(buf), Dispatches(Len(dispatched) + 1, Rest(buf, k)),
           AtHead(Rest(Unparsed, k), Len(dispatched) + 1, 0, requests, owed, upgraded)
    PROVE  Whole'
  <1> DEFINE s == Rest(Unparsed, k)
  <1>1. RequestsWholeAndInOrder /\ (upgraded => owed = 0)
    BY WholeState, Zenon
  <1>2. Rest(buf, k) \o (pending' \o wire') = s /\ InSequence(s, requests, owed, upgraded)
    BY ReadsFront, Zenon
  <1>3. request_buffer_' \o (pending' \o wire') = s
    BY <1>2, Zenon DEF Dispatches
  <1>4. UNCHANGED <<owed, requests, upgraded>>
    BY DEF Reads
  <1>5. QED
    BY <1>1, <1>2, <1>3, <1>4, DispatchWhole, Zenon

\* Reading a buffer that begins with a header ...
LEMMA HeaderWhole ==
    ASSUME Typed, Whole, Parsing, http1_body_stream_ = NoStream,
           NEW buf \in Seq(Unit), Reads(buf),
           NEW t \in Timers, process_buffered_request(buf, t)
    PROVE  Whole'
  <1> DEFINE d == Len(dispatched)
             h == header_end(buf)
             n == h + buf[h].n
             k == Len(buf)
             fed == Fed(Opened(buf, h), Rest(buf, h), k - h)
  <1>1. /\ dispatched \in Seq(Nat) /\ d \in Nat
        /\ RequestsWholeAndInOrder /\ (upgraded => owed = 0)
        /\ InSequence(Unparsed, requests, owed, upgraded)
        /\ AtHead(Unparsed, d, Wanted, requests, owed, upgraded)
    BY WholeState, Zenon
  <1>2. h > 0 =>
          /\ h \in 1 .. k /\ n \in Nat
          /\ buf[h].framing = "upgrade" => n = h
          /\ \A i \in 1 .. h : buf[i].id = d + 1
          /\ k < n =>
               /\ \A i \in 1 .. k : buf[i].id = d + 1
               /\ AtHead(Rest(Unparsed, k), d, n - k, requests, owed, upgraded)
          /\ n <= k /\ buf[h].framing # "upgrade" =>
               /\ n \in 1 .. k
               /\ \A i \in 1 .. n : buf[i].id = d + 1
               /\ AtHead(Rest(Unparsed, n), d + 1, 0, requests, owed, upgraded)
    BY ReadsHeader, Zenon
  <1>3. \/ h = 0 /\ k <= max_request_bytes /\ frame_incomplete(buf, t)
        \/ \E m \in 0 .. k, u \in Timers : Refuses(Rest(buf, m), u)
        \/ /\ h > 0 /\ n <= k /\ buf[h].framing = "upgrade"
           /\ try_handle_websocket_upgrade(buf, n, t)
        \/ h > 0 /\ k < n /\ \E u \in Timers : StreamGoesOn(fed, u)
        \/ /\ h > 0 /\ n <= k /\ buf[h].framing # "upgrade"
           /\ Dispatches(IdOf(SubSeq(buf, 1, n)), Rest(buf, n))
    BY BufferedRequest, Zenon
  <1>4. k \in Nat
    OBVIOUS
  <1> HIDE DEF h
  <1>5. CASE frame_incomplete(buf, t)
    <2>1. /\ request_buffer_' = buf /\ dispatched' = dispatched
          /\ http1_body_stream_' = NoStream
      BY <1>5 DEF frame_incomplete
    <2>2. Unparsed' = Unparsed /\ Wanted' = Wanted /\ UNCHANGED <<owed, requests, upgraded>>
      BY <2>1, Zenon DEF Unparsed, Wanted, Reads
    <2>3. QED
      BY <1>1, <2>1, <2>2, StillWhole
  <1>6. CASE \E m \in 0 .. k, u \in Timers : Refuses(Rest(buf, m), u)
    BY <1>1, <1>6, RefusedWhole, Zenon
  <1>7. CASE /\ h > 0 /\ n <= k /\ buf[h].framing = "upgrade"
             /\ try_handle_websocket_upgrade(buf, n, t)
    <2>1. n \in 1 .. k /\ \A i \in 1 .. n : buf[i].id = d + 1
      <3> HIDE DEF n, d, k
      <3>1. QED
        BY <1>2, <1>7, Zenon
    <2> HIDE DEF n
    <2>2. IdOf(SubSeq(buf, 1, n)) = d + 1
      BY <2>1, IdOfSame, Zenon
    <2>3. QED
      BY <1>1, <1>7, <2>2, UpgradeWhole, Zenon
  <1>8. ASSUME h > 0, k < n, NEW u \in Timers, StreamGoesOn(fed, u)
        PROVE  Whole'
    <2>1. /\ h \in 1 .. k /\ \A i \in 1 .. h : buf[i].id = d + 1
          /\ \A i \in 1 .. k : buf[i].id = d + 1
          /\ AtHead(Rest(Unparsed, k), d, n - k, requests, owed, upgraded)
      <3> HIDE DEF n, d, k
      <3>1. QED
        BY <1>2, <1>8, Zenon
    <2> DEFINE o == Opened(buf, h)
    <2>2. o \in Streams /\ o.received = 0 /\ o.content_length = buf[h].n /\ buf[h].n \in Nat
      BY <2>1, OpenedTyped, UnitAt DEF Opened
    <2>3. o.id = d + 1
      <3>1. IdOf(SubSeq(buf, 1, h)) = d + 1
        BY <2>1, IdOfSame, Zenon
      <3>2. QED
        BY <3>1 DEF Opened
    <2>4. \A i \in 1 .. k - h : Rest(buf, h)[i].id = d + 1
      <3>1. h \in 0 .. k /\ \A i \in 1 .. k - h : h + i \in 1 .. k
        BY <1>4, <2>1
      <3>2. \A i \in 1 .. k - h : Rest(buf, h)[i] = buf[h + i]
        BY <3>1, RestOf, Zenon
      <3> HIDE DEF k, d
      <3>3. QED
        BY <2>1, <3>1, <3>2, Zenon
    <2>5. k - h \in Nat
      BY <1>4, <2>1
    <2> HIDE DEF o
    <2>6. /\ fed \in Streams /\ fed.received = o.received + (k - h)
          /\ fed.content_length = o.content_length
      BY <2>2, <2>5, FedTyped, Zenon DEF o
    <2>7. fed.id = d + 1
      <3>1. \A i \in 1 .. k - h : Rest(buf, h)[i].id = o.id
        BY <2>3, <2>4, Zenon
      <3>2. fed.id = o.id
        BY <2>2, <3>1, FedInTurn, Zenon DEF o
      <3>3. QED
        BY <2>3, <3>2, Zenon
    <2> HIDE DEF fed
    <2>8. fed.content_length - fed.received = n - k
      <3>1. h \in Nat /\ k \in Nat
        BY <1>4, <2>1
      <3>2. QED
        BY <2>2, <2>6, <3>1
    <2>9. QED
      BY <1>8, <2>1, <2>6, <2>7, <2>8, StreamWhole, Zenon
  <1>9. CASE /\ h > 0 /\ n <= k /\ buf[h].framing # "upgrade"
             /\ Dispatches(IdOf(SubSeq(buf, 1, n)), Rest(buf, n))
    <2>1. /\ n \in 1 .. k /\ \A i \in 1 .. n : buf[i].id = d + 1
          /\ AtHead(Rest(Unparsed, n), d + 1, 0, requests, owed, upgraded)
      <3> HIDE DEF n, d, k
      <3>1. QED
        BY <1>2, <1>9, Zenon
    <2> HIDE DEF n
    <2>2. IdOf(SubSeq(buf, 1, n)) = d + 1
      BY <2>1, IdOfSame, Zenon
    <2>3. n \in 0 .. k
      BY <2>1
    <2>4. QED
      BY <1>9, <2>1, <2>2, <2>3, TakenWhole, Zenon
  <1>10. QED
    <2> HIDE DEF n, k, fed, d
    <2>1. QED
      BY <1>3, <1>5, <1>6, <1>7, <1>8, <1>9, Zenon

\* ... and one that begins with the rest of a body.
LEMMA BodyWhole ==
    ASSUME Typed, Whole, Parsing, http1_body_stream_ # NoStream,
           NEW buf \in Seq(Unit), Reads(buf),
           NEW t \in Timers, process_http1_body_stream(http1_body_stream_, buf, t)
    PROVE  Whole'
  <1> DEFINE d == Len(dispatched)
             stream == http1_body_stream_
             w == stream.content_length - stream.received
             k == Len(buf)
             fed == Fed(stream, buf, k)
  <1>1. /\ d \in Nat /\ RequestsWholeAndInOrder /\ stream.id = d + 1
    BY WholeState, Zenon
  <1>2. /\ stream \in Streams /\ stream.received <= stream.content_length
        /\ stream.received \in Nat /\ stream.content_length \in Nat /\ w \in Nat
    BY DEF Typed, TypeOK, Streams, Streaming
  <1>3. /\ k < w =>
             /\ \A i \in 1 .. k : buf[i].id = d + 1
             /\ AtHead(Rest(Unparsed, k), d, w - k, requests, owed, upgraded)
        /\ w <= k =>
             /\ \A i \in 1 .. w : buf[i].id = d + 1
             /\ AtHead(Rest(Unparsed, w), d + 1, 0, requests, owed, upgraded)
    BY ReadsBody, Zenon
  <1>4. \/ \E u \in Timers : Refuses(<<>>, u)
        \/ k < w /\ StreamGoesOn(fed, t)
        \/ w <= k /\ Dispatches(Fed(stream, buf, w).id, Rest(buf, w))
    BY <1>2, BodyStream, Zenon
  <1>5. CASE \E u \in Timers : Refuses(<<>>, u)
    BY <1>1, <1>5, RefusedWhole, Zenon
  <1>6. CASE k < w /\ StreamGoesOn(fed, t)
    <2>1. k \in Nat
      OBVIOUS
    <2>2. /\ fed \in Streams /\ fed.received = stream.received + k
          /\ fed.content_length = stream.content_length
      BY <1>2, <2>1, FedTyped, Zenon
    <2>3. fed.id = d + 1
      <3>1. \A i \in 1 .. k : buf[i].id = stream.id
        BY <1>1, <1>3, <1>6, Zenon
      <3>2. QED
        BY <1>1, <1>2, <3>1, FedInTurn, Zenon
    <2> HIDE DEF fed
    <2>4. fed.content_length - fed.received = w - k
      BY <1>2, <2>1, <2>2
    <2>5. AtHead(Rest(Unparsed, k), d, w - k, requests, owed, upgraded)
      BY <1>3, <1>6, Zenon
    <2>6. QED
      BY <1>6, <2>2, <2>3, <2>4, <2>5, StreamWhole, Zenon
  <1>7. CASE w <= k /\ Dispatches(Fed(stream, buf, w).id, Rest(buf, w))
    <2>1. Fed(stream, buf, w).id = d + 1
      <3>1. \A i \in 1 .. w : buf[i].id = stream.id
        BY <1>1, <1>3, <1>7, Zenon
      <3>2. QED
        BY <1>1, <1>2, <3>1, FedInTurn, Zenon
    <2>2. w \in 0 .. k
      BY <1>2, <1>7
    <2>3. AtHead(Rest(Unparsed, w), d + 1, 0, requests, owed, upgraded)
      BY <1>3, <1>7, Zenon
    <2>4. QED
      BY <1>7, <2>1, <2>2, <2>3, TakenWhole, Zenon
  <1>8. QED
    BY <1>4, <1>5, <1>6, <1>7, Zenon

LEMMA ReadingWhole ==
    ASSUME Typed, Whole, Recv \/ SslRead \/ FinishKeepAlive
    PROVE  Whole'
  <1>1. /\ request_buffer_ \in Seq(Unit) /\ pending \in Seq(Unit) /\ wire \in Seq(Unit)
        /\ waiting_for_body_ \in BOOLEAN
        /\ request_started_at_ \in Ages /\ body_started_at_ \in Ages
    BY DEF Typed, TypeOK
  <1>2. CASE Recv \/ SslRead
    <2>1. /\ phase_ = "reading"
          /\ wire' \in Seq(Unit) /\ pending' \in Seq(Unit)
          /\ \E data \in Seq(Unit) :
               append_request_bytes(data) /\ data \o (pending' \o wire') = pending \o wire
          /\ UNCHANGED <<owed, sent, requests, upgraded, eof, tls, due>>
      BY <1>2, ReadsInOrder, Zenon
    <2>2. PICK data \in Seq(Unit) :
            append_request_bytes(data) /\ data \o (pending' \o wire') = pending \o wire
      BY <2>1, Zenon
    <2> DEFINE buf == request_buffer_ \o data
               t == IF request_buffer_ = <<>>
                      THEN [started |-> 0, body |-> Unset, waiting |-> FALSE]
                      ELSE [started |-> request_started_at_, body |-> body_started_at_,
                            waiting |-> waiting_for_body_]
    <2>3. IF http1_body_stream_ # NoStream
            THEN process_http1_body_stream(http1_body_stream_, buf, t)
            ELSE process_buffered_request(buf, t)
      BY <2>2, Zenon DEF append_request_bytes
    <2>4. t \in Timers
      BY <1>1, AgesAre DEF Timers
    <2>5. buf \in Seq(Unit) /\ pending' \o wire' \in Seq(Unit)
      BY <1>1, <2>1, Concat, Zenon
    <2>6. buf \o (pending' \o wire') = Unparsed
      <3>1. buf \o (pending' \o wire') = request_buffer_ \o (data \o (pending' \o wire'))
        BY <1>1, <2>5, Regroup, ZenonT(60)
      <3>2. QED
        BY <2>2, <3>1, Zenon DEF Unparsed
    <2>7. Reads(buf) /\ Parsing
      BY <2>1, <2>6, Zenon DEF Reads, Parsing
    <2> HIDE DEF buf, t
    <2>8. QED
      BY <2>3, <2>4, <2>5, <2>7, HeaderWhole, BodyWhole, Zenon
  <1>3. CASE FinishKeepAlive
    <2>1. /\ phase_ = "writing" /\ after_response = "keep_alive"
          /\ process_buffered_request(request_buffer_, Restarted(request_buffer_))
          /\ UNCHANGED <<wire, pending, owed, requests, upgraded>>
      BY <1>3 DEF FinishKeepAlive, client, input
    <2>2. http1_body_stream_ = NoStream
      BY <2>1 DEF Typed, Streaming
    <2>3. Reads(request_buffer_) /\ Parsing
      BY <1>1, <2>1, Zenon DEF Reads, Parsing, Unparsed
    <2>4. QED
      BY <1>1, <2>1, <2>2, <2>3, RestartedTyped, HeaderWhole, Zenon
  <1>4. QED
    BY <1>2, <1>3

LEMMA LastAppended ==
    ASSUME NEW a \in Seq(Unit), NEW b \in Seq(Unit), NEW c \in Seq(Unit), NEW u \in Unit
    PROVE  a \o (b \o Append(c, u)) = Append(a \o (b \o c), u)
  <1>1. /\ Append(c, u) = c \o <<u>> /\ <<u>> \in Seq(Unit)
        /\ b \o c \in Seq(Unit) /\ a \o (b \o c) \in Seq(Unit)
    BY AppendIsConcat, Concat
  <1>2. b \o (c \o <<u>>) = (b \o c) \o <<u>>
    BY <1>1, Regroup
  <1>3. a \o ((b \o c) \o <<u>>) = (a \o (b \o c)) \o <<u>>
    BY <1>1, Regroup
  <1>4. Append(a \o (b \o c), u) = (a \o (b \o c)) \o <<u>>
    BY <1>1, AppendIsConcat
  <1>5. QED
    BY <1>1, <1>2, <1>3, <1>4, Zenon

\* The client has sent a unit more, and has kept to the framing.
LEMMA SentWhole ==
    ASSUME Typed, Whole, Parsing, NEW u \in Unit, Put(u),
           InSequence(Append(Unparsed, u), requests', owed', upgraded'),
           AtHead(Append(Unparsed, u), Len(dispatched), Wanted, requests', owed', upgraded'),
           upgraded' => owed' = 0
    PROVE  Whole'
  <1>1. /\ request_buffer_ \in Seq(Unit) /\ pending \in Seq(Unit) /\ wire \in Seq(Unit)
    BY DEF Typed, TypeOK
  <1>2. /\ wire' = Append(wire, u)
        /\ UNCHANGED <<request_buffer_, pending, http1_body_stream_, dispatched>>
    BY DEF Put, input, outcome, buffers
  <1>3. Unparsed' = Append(Unparsed, u) /\ Wanted' = Wanted
    BY <1>1, <1>2, LastAppended, Zenon DEF Unparsed, Wanted
  <1>4. /\ RequestsWholeAndInOrder
        /\ http1_body_stream_ # NoStream => http1_body_stream_.id = Len(dispatched) + 1
    BY WholeState, Zenon
  <1>5. /\ RequestsWholeAndInOrder'
        /\ http1_body_stream_' # NoStream => http1_body_stream_'.id = Len(dispatched') + 1
    BY <1>2, <1>4 DEF RequestsWholeAndInOrder
  <1>6. /\ InSequence(Unparsed, requests, owed, upgraded)'
        /\ AtHead(Unparsed, Len(dispatched), Wanted, requests, owed, upgraded)'
    BY <1>2, <1>3
  <1>7. QED
    BY <1>5, <1>6, Zenon DEF Whole

LEMMA ClientWhole ==
    ASSUME Typed, Whole, Client
    PROVE  Whole'
  <1> DEFINE d == Len(dispatched)
             s == Unparsed
  <1>1. UNCHANGED <<phase_, after_response, reverse_proxy_keep_alive_, dispatched>>
    BY DEF Client, SendHeaderPart, SendHeaderEnd, SendBody, SendFrame, ShutDownSending,
           Put, outcome
  <1>2. CASE ~Parsing
    <2>1. ~Parsing' /\ RequestsWholeAndInOrder'
      BY <1>1, <1>2 DEF Parsing, RequestsWholeAndInOrder, Whole
    <2>2. QED
      BY <2>1, NoLongerParsing
  <1>3. CASE Parsing
    <2>1. /\ requests \in Nat /\ owed \in Nat /\ upgraded \in BOOLEAN /\ d \in Nat
          /\ RequestsWholeAndInOrder /\ (upgraded => owed = 0)
          /\ InSequence(s, requests, owed, upgraded)
          /\ AtHead(s, d, Wanted, requests, owed, upgraded)
          /\ http1_body_stream_ # NoStream => http1_body_stream_.id = d + 1
      BY <1>3, WholeState, Zenon
    <2>2. Wanted \in Nat
      BY DEF Typed, TypeOK, Streams, Streaming, Wanted
    <2>3. s \in Seq(Unit)
      BY Concat DEF Typed, TypeOK, Unparsed
    <2> HIDE DEF d, s
    <2>4. CASE SendHeaderPart
      <3> DEFINE u == Piece("part", requests + 1)
      <3>1. Put(u) /\ owed = 0 /\ upgraded = FALSE /\ UNCHANGED <<owed, requests, upgraded>>
        BY <2>1, <2>4, Zenon DEF SendHeaderPart
      <3>2. u \in Unit /\ u.id = requests + 1 /\ u.t = "part" /\ u.framing # "upgrade"
        BY <2>1, Constants DEF Piece, Unit, Framings
      <3> HIDE DEF u
      <3>3. InSequence(s, requests, 0, FALSE) /\ AtHead(s, d, Wanted, requests, 0, FALSE)
        BY <2>1, <3>1, Zenon
      <3>4. /\ InSequence(Append(s, u), requests, 0, FALSE)
            /\ AtHead(Append(s, u), d, Wanted, requests, 0, FALSE)
        BY <2>1, <2>2, <2>3, <3>2, <3>3, HeaderUnitKeeps
      <3>5. /\ InSequence(Append(s, u), requests', owed', upgraded')
            /\ AtHead(Append(s, u), d, Wanted, requests', owed', upgraded')
            /\ owed' = 0
        BY <3>1, <3>4
      <3>6. QED
        BY <1>3, <3>1, <3>2, <3>5, SentWhole, Zenon DEF s, d
    <2>5. ASSUME NEW framing \in Framings, NEW n \in 0 .. MaxBody, SendHeaderEnd(framing, n)
          PROVE  Whole'
      <3> DEFINE u == End(framing, n, requests + 1)
                 up == framing = "upgrade"
      <3>1. /\ Put(u) /\ owed = 0 /\ upgraded = FALSE
            /\ owed' = n /\ requests' = requests + 1 /\ upgraded' = up
        BY <2>1, <2>5, Zenon DEF SendHeaderEnd
      <3>2. up => n = 0
        BY <2>5 DEF SendHeaderEnd
      <3>3. /\ u \in Unit /\ u.id = requests + 1 /\ u.t = "end" /\ u.framing = framing
            /\ u.n = n
        BY <2>1, Constants DEF End, Unit
      <3> HIDE DEF u
      <3>4. InSequence(s, requests, 0, FALSE) /\ AtHead(s, d, Wanted, requests, 0, FALSE)
        BY <2>1, <3>1, Zenon
      <3>5. /\ InSequence(Append(s, u), requests + 1, n, up)
            /\ AtHead(Append(s, u), d, Wanted, requests + 1, n, up)
        BY <2>1, <2>2, <2>3, <3>2, <3>3, <3>4, HeaderUnitKeeps
      <3>6. /\ InSequence(Append(s, u), requests', owed', upgraded')
            /\ AtHead(Append(s, u), d, Wanted, requests', owed', upgraded')
            /\ upgraded' => owed' = 0
        BY <3>1, <3>2, <3>5, Zenon
      <3>7. QED
        BY <1>3, <3>1, <3>3, <3>6, SentWhole, Zenon DEF s, d
    <2>6. ASSUME NEW t \in {"data", "junk"}, SendBody(t)
          PROVE  Whole'
      <3> DEFINE u == Piece(t, requests)
      <3>1. Put(u) /\ owed > 0 /\ owed' = owed - 1 /\ UNCHANGED <<requests, upgraded>>
        BY <2>6 DEF SendBody
      <3>2. upgraded = FALSE
        <4>1. owed # 0
          BY <2>1, <3>1
        <4>2. QED
          BY <2>1, <4>1, Zenon
      <3>3. u \in Unit /\ u.id = requests /\ u.t \in {"data", "junk"} /\ u.framing # "upgrade"
        BY <2>1, Constants DEF Piece, Unit, Framings
      <3> HIDE DEF u
      <3>4. InSequence(s, requests, owed, FALSE) /\ AtHead(s, d, Wanted, requests, owed, FALSE)
        BY <2>1, <3>2, Zenon
      <3>5. /\ InSequence(Append(s, u), requests, owed - 1, FALSE)
            /\ AtHead(Append(s, u), d, Wanted, requests, owed - 1, FALSE)
        BY <2>1, <2>2, <2>3, <3>1, <3>3, <3>4, BodyUnitKeeps
      <3>6. /\ InSequence(Append(s, u), requests', owed', upgraded')
            /\ AtHead(Append(s, u), d, Wanted, requests', owed', upgraded')
            /\ upgraded' = FALSE
        BY <3>1, <3>2, <3>5, Zenon
      <3>7. QED
        BY <1>3, <3>1, <3>3, <3>6, SentWhole, Zenon DEF s, d
    <2>7. CASE SendFrame
      <3> DEFINE u == Piece("data", requests)
      <3>1. /\ Put(u) /\ upgraded = TRUE /\ owed = 0 /\ UNCHANGED <<owed, requests, upgraded>>
        BY <2>1, <2>7, Zenon DEF SendFrame
      <3>2. u \in Unit /\ u.id = requests /\ u.t = "data" /\ u.framing # "upgrade"
        BY <2>1, Constants DEF Piece, Unit, Framings
      <3> HIDE DEF u
      <3>3. InSequence(s, requests, 0, TRUE) /\ AtHead(s, d, Wanted, requests, 0, TRUE)
        BY <2>1, <3>1, Zenon
      <3>4. /\ InSequence(Append(s, u), requests, 0, TRUE)
            /\ AtHead(Append(s, u), d, Wanted, requests, 0, TRUE)
        BY <2>1, <2>2, <2>3, <3>2, <3>3, FrameUnitKeeps
      <3>5. /\ InSequence(Append(s, u), requests', owed', upgraded')
            /\ AtHead(Append(s, u), d, Wanted, requests', owed', upgraded')
            /\ owed' = 0
        BY <3>1, <3>4, Zenon
      <3>6. QED
        BY <1>3, <3>1, <3>2, <3>5, SentWhole, Zenon DEF s, d
    <2>8. CASE ShutDownSending
      <3>1. UNCHANGED <<wire, owed, requests, upgraded, pending, request_buffer_,
                        http1_body_stream_, dispatched>>
        BY <2>8 DEF ShutDownSending, input, outcome, buffers
      <3>2. Unparsed' = s /\ Wanted' = Wanted
        BY <3>1, Zenon DEF Unparsed, Wanted, s
      <3>3. http1_body_stream_' # NoStream => http1_body_stream_'.id = Len(dispatched) + 1
        BY <2>1, <3>1 DEF d
      <3>4. UNCHANGED <<owed, requests, upgraded, dispatched>>
        BY <3>1
      <3>5. QED
        BY <2>1, <3>2, <3>3, <3>4, StillWhole, Zenon DEF d
    <2>9. QED
      BY <2>4, <2>5, <2>6, <2>7, <2>8, Zenon DEF Client
  <1>4. QED
    BY <1>2, <1>3

\* Nothing is parsed: the connection goes on as it was, or will parse no more.
LEMMA QuietWhole ==
    ASSUME Typed, Whole, Quiet
    PROVE  Whole'
  <1>1. dispatched' = dispatched
    BY DEF Quiet, WantRead, ReadEnd, ConnectionFails, TlsAccepted, FinishUpgrade, FinishClose,
           TlsShutdownEnds, ReverseProxyEnds, UpstreamHangsUp, WebSocketTraffic, Tick, Expiry,
           TimeoutResponds, TimeoutCloses, NoTimeout, outcome
  <1>2. RequestsWholeAndInOrder'
    BY <1>1 DEF RequestsWholeAndInOrder, Whole
  <1>3. ASSUME Parsing, UNCHANGED <<client, pending, buffers>>
        PROVE  Whole'
    <2>1. UNCHANGED <<owed, requests, upgraded, dispatched, http1_body_stream_>>
      BY <1>1, <1>3 DEF client, buffers
    <2>2. Unparsed' = Unparsed /\ Wanted' = Wanted
      BY <1>3 DEF client, buffers, Unparsed, Wanted
    <2>3. /\ RequestsWholeAndInOrder /\ (upgraded => owed = 0)
          /\ InSequence(Unparsed, requests, owed, upgraded)
          /\ AtHead(Unparsed, Len(dispatched), Wanted, requests, owed, upgraded)
          /\ http1_body_stream_ # NoStream => http1_body_stream_.id = Len(dispatched) + 1
      BY <1>3, WholeState, Zenon
    <2>4. QED
      BY <2>1, <2>2, <2>3, StillWhole
  <1>4. ASSUME ~Parsing' PROVE Whole'
    BY <1>2, <1>4, NoLongerParsing
  <1>5. ASSUME UNCHANGED <<client, pending, buffers>>, Parsing' => Parsing
        PROVE  Whole'
    BY <1>3, <1>4, <1>5
  <1>6. CASE WantRead \/ Tick \/ NoTimeout
    <2>1. UNCHANGED <<client, pending, buffers, outcome>>
      BY <1>6 DEF WantRead, Tick, NoTimeout, input
    <2>2. Parsing' => Parsing
      BY <2>1 DEF outcome, Parsing
    <2>3. QED
      BY <1>5, <2>1, <2>2
  <1>7. CASE TlsAccepted
    BY <1>3, <1>7 DEF TlsAccepted, input, Parsing
  <1>8. CASE ReverseProxyEnds
    <2>1. /\ UNCHANGED <<client, pending, buffers>>
          /\ phase_ = "reverse_proxy" /\ phase_' = "writing"
          /\ after_response' = IF reverse_proxy_keep_alive_ THEN "keep_alive" ELSE "close"
      BY <1>8 DEF ReverseProxyEnds, Respond, input
    <2>2. Parsing' => Parsing
      BY <2>1 DEF Parsing
    <2>3. QED
      BY <1>5, <2>1, <2>2
  <1>9. CASE ReadEnd \/ ConnectionFails \/ FinishClose \/ TlsShutdownEnds \/ UpstreamHangsUp
               \/ TimeoutCloses
    <2>1. phase_' \in {"closed", "tls_shutdown"}
      BY <1>9 DEF ReadEnd, ConnectionFails, close_now, FinishClose, TlsShutdownEnds,
                  UpstreamHangsUp, TimeoutCloses
    <2>2. QED
      BY <1>4, <2>1 DEF Parsing
  <1>10. CASE FinishUpgrade \/ WebSocketTraffic
    <2>1. phase_' \in {"websocket", "websocket_proxy"}
      BY <1>10 DEF FinishUpgrade, WebSocketTraffic, outcome
    <2>2. QED
      BY <1>4, <2>1 DEF Parsing
  <1>11. CASE TimeoutResponds
    BY <1>4, <1>11 DEF TimeoutResponds, Respond, Parsing
  <1>12. QED
    BY <1>6, <1>7, <1>8, <1>9, <1>10, <1>11, Zenon DEF Quiet, Expiry

LEMMA InitWhole == Init => Whole
  <1> SUFFICES ASSUME Init PROVE Whole
    OBVIOUS
  <1>1. /\ request_buffer_ = <<>> /\ pending = <<>> /\ wire = <<>> /\ dispatched = <<>>
        /\ requests = 0 /\ owed = 0 /\ upgraded = FALSE /\ http1_body_stream_ = NoStream
    BY DEF Init
  <1>2. Unparsed = <<>> /\ Wanted = 0 /\ Len(dispatched) = 0 /\ RequestsWholeAndInOrder
    BY <1>1 DEF Unparsed, Wanted, RequestsWholeAndInOrder
  <1>3. Len(<<>>) = 0
    OBVIOUS
  <1>4. InSequence(<<>>, 0, 0, FALSE)
    BY <1>3 DEF InSequence, Rising, Stepwise, BodiesFollow, HeadersEnd, SentSoFar, LastSent
  <1>5. AtHead(<<>>, 0, 0, 0, 0, FALSE)
    BY DEF AtHead, AtHeader
  <1>6. QED
    BY <1>1, <1>2, <1>4, <1>5, Zenon DEF Whole

LEMMA NextWhole == Typed /\ Whole /\ [Next]_vars => Whole'
  <1> SUFFICES ASSUME Typed, Whole, [Next]_vars PROVE Whole'
    OBVIOUS
  <1>1. CASE UNCHANGED vars
    BY <1>1 DEF Whole, RequestsWholeAndInOrder, Parsing, Unparsed, Wanted,
                vars, client, input, outcome, buffers
  <1>2. QED
    BY <1>1, NextSteps, ClientWhole, ReadingWhole, QuietWhole, Zenon

(***************************************************************************)
(* However a client pipelines its requests and however the reads, the      *)
(* records and the streamed bodies cut them, the k-th request dispatched   *)
(* is the k-th the client sent, made of its own units only.                *)
(***************************************************************************)
THEOREM RequestsStayWholeAndInOrder == Safety => []RequestsWholeAndInOrder
  <1>1. Whole => RequestsWholeAndInOrder
    BY DEF Whole
  <1>2. QED
    BY <1>1, InitTyped, NextTyped, InitWhole, NextWhole, PTL DEF Safety
============================================================================
