---------------------------- MODULE ChunkedBody ----------------------------
(***************************************************************************)
(* The body of one request with Transfer-Encoding: chunked, byte by byte.  *)
(* Its header is complete.  What the first look finds in the buffer is     *)
(* given to decode_chunked_body (http1_session.cpp), which sees it as a    *)
(* whole; a body that is not complete by then is decoded as it arrives     *)
(* (process_chunked_http1_body_stream, server.cpp) into an accumulator     *)
(* that moves from memory to a spool file.  ClientConnection has the       *)
(* requests around it.                                                     *)
(*                                                                         *)
(* A byte is "CR", "LF", another blank "SP", ";", a hex digit (a letter     *)
(* stands for both its cases), or "x" for any other.  Chunk sizes so large *)
(* that adding them to a cursor overflows are left out.                    *)
(***************************************************************************)
EXTENDS Integers, Sequences, SequencesExt, FiniteSetsExt

CONSTANTS
    Chunks,                 \* the chunks a body may have, but for the last
    MaxChunks,              \* bound of their number
    Trailers,               \* the trailers a body may have
    max_body_bytes,         \* max_request_bytes less the header
    memory_limit_,          \* memory_body_limit, 16 KiB
    max_line_bytes          \* 8192

ASSUME BodyAssumption ==
    /\ MaxChunks \in Nat /\ max_body_bytes \in Nat /\ memory_limit_ \in Nat
    /\ max_line_bytes \in Nat /\ max_line_bytes >= 2

----------------------------------------------------------------------------
(* Lines and sizes.                                                        *)

HexDigits ==
    <<"0", "1", "2", "3", "4", "5", "6", "7", "8", "9", "a", "b", "c", "d", "e", "f">>

Digit == [ch \in ToSet(HexDigits) |-> (CHOOSE i \in DOMAIN HexDigits : HexDigits[i] = ch) - 1]

Bytes == DOMAIN Digit \cup {"CR", "LF", "SP", ";", "x"}

CrLf == <<"CR", "LF">>

trim(text) ==
    LET kept == {i \in DOMAIN text : text[i] \notin {"CR", "LF", "SP"}}
    IN  IF kept = {} THEN <<>> ELSE SubSeq(text, Min(kept), Max(kept))

NoSize == -1

parse_hex_size(text) ==
    LET parsed[i \in 0 .. Len(text)] == IF i = 0 THEN 0 ELSE 16 * parsed[i - 1] + Digit[text[i]]
    IN  IF text = <<>> \/ ~(ToSet(text) \subseteq DOMAIN Digit) THEN NoSize ELSE parsed[Len(text)]

\* The size in a line, up to a chunk extension.
chunk_size(line) ==
    LET semicolons == {i \in DOMAIN line : line[i] = ";"}
    IN  parse_hex_size(trim(IF semicolons = {} THEN line
                            ELSE SubSeq(line, 1, Min(semicolons) - 1)))

(***************************************************************************)
(* What clients send: chunks, a last chunk and a trailer, and the first    *)
(* byte of the next request.  A chunk has a line, which says how much data *)
(* follows.  It is broken when the line says no size, or when the data     *)
(* does not end where the line says.                                       *)
(***************************************************************************)
Forms == {"proper", "no_size", "no_end"}

ASSUME ChunksAssumption ==
    /\ Chunks \subseteq [form : Forms, line : Seq(Bytes), data : Seq(Bytes)]
    /\ \A chunk \in Chunks :
         /\ ~Contains(chunk.line, "CR")
         /\ chunk.form = "no_size" => chunk_size(chunk.line) = NoSize
         /\ chunk.form # "no_size" =>
              chunk_size(chunk.line) = Len(chunk.data) /\ chunk.data # <<>>

SizeLine(chunk) == chunk.line \o CrLf

Encoded(chunk) ==
    SizeLine(chunk) \o chunk.data \o (IF chunk.form = "no_end" THEN <<"x">> ELSE CrLf)

\* A trailer is made of lines.  None is empty.
ASSUME TrailersAssumption ==
    /\ Trailers \subseteq Seq(Bytes)
    /\ \A lines \in Trailers :
         /\ lines # <<>> => Len(lines) > 1 /\ lines[Len(lines) - 1] = "CR"
         /\ \A i \in DOMAIN lines : lines[i] = "CR" =>
              i > 1 /\ i < Len(lines) /\ lines[i + 1] = "LF" /\ (i > 2 => lines[i - 2] # "CR")

VARIABLES
    chunks, trailer,        \* what the client sends
    arrived,                \* how many bytes of it have been received
    undecoded,              \* request_buffer_ behind the header
    decoder,                \* who decodes: "first_look", or "stream"
    stream,                 \* Http1BodyStreamState
    accumulator,            \* RequestBodyAccumulator
    verdict,                \* what has become of the request
    body                    \* what the handler got

stream_vars == <<stream, accumulator>>
body_vars == <<chunks, trailer, arrived, undecoded, decoder, stream, accumulator, verdict, body>>

encoded == FlattenSeq([i \in DOMAIN chunks |-> Encoded(chunks[i])])
             \o <<"0">> \o CrLf \o trailer \o CrLf \o <<"x">>

NewStream == [phase |-> "size_line", line_buffer |-> <<>>, chunk_remaining |-> 0, crlf_seen |-> 0]
NewAccumulator == [memory |-> <<>>, spooled |-> FALSE, file |-> <<>>]

BodyInit ==
    /\ chunks \in BoundedSeq(Chunks, MaxChunks) /\ trailer \in Trailers
    /\ arrived = 0 /\ undecoded = <<>> /\ decoder = "first_look"
    /\ stream = NewStream /\ accumulator = NewAccumulator
    /\ verdict = "none" /\ body = <<>>

----------------------------------------------------------------------------
(***************************************************************************)
(* decode_chunked_body.  A cursor, like a consumed count, is the number of *)
(* the bytes before it.                                                    *)
(***************************************************************************)
Decode(state, decoded, consumed) == [state |-> state, body |-> decoded, consumed |-> consumed]

\* The places at or behind a cursor where find sees a line end.
line_ends(bytes, cursor) ==
    {i \in cursor .. Len(bytes) - 2 : bytes[i + 1] = "CR" /\ bytes[i + 2] = "LF"}

\* One round of the loop, for the chunk at result.consumed; none follows the last one.
decode_chunk(bytes, result) ==
    LET ends == line_ends(bytes, result.consumed)
        size == chunk_size(SubSeq(bytes, result.consumed + 1, Min(ends)))
        cursor == Min(ends) + 2
        further == line_ends(bytes, cursor)
        blank == {i \in further : i = cursor \/ i - 2 \in further}
        next == cursor + size + 2
    IN  IF result.state # "decoding" THEN result
        ELSE IF ends = {} THEN Decode("incomplete", <<>>, 0)
        ELSE IF size = NoSize THEN Decode("malformed", <<>>, 0)
        ELSE IF size = 0 THEN IF blank = {} THEN Decode("incomplete", <<>>, 0)
                              ELSE Decode("complete", result.body, Min(blank) + 2)
        ELSE IF Len(bytes) < next THEN Decode("incomplete", <<>>, 0)
        ELSE IF cursor + size \notin further THEN Decode("malformed", <<>>, 0)
        ELSE Decode("decoding", result.body \o SubSeq(bytes, cursor + 1, cursor + size), next)

\* A round takes at least one byte.
decode_chunked_body(bytes) ==
    LET round[n \in 0 .. Len(bytes) + 1] ==
          IF n = 0 THEN Decode("decoding", <<>>, 0) ELSE decode_chunk(bytes, round[n - 1])
    IN  round[Len(bytes) + 1]

----------------------------------------------------------------------------
(* The request ends.                                                       *)

Dispatch(decoded) == verdict' = "dispatched" /\ body' = decoded

\* fail_http1_body_stream, and the responses of the first look.
Refuse(status) == verdict' = status /\ undecoded' = <<>> /\ UNCHANGED body

GoesOn == UNCHANGED <<verdict, body>>

(***************************************************************************)
(* process_buffered_request with n bytes behind the header                 *)
(* (next_http1_request_frame).                                             *)
(***************************************************************************)
FirstLook(n) ==
    LET bytes == SubSeq(encoded, 1, n)
        whole == decode_chunked_body(bytes)
    IN  /\ decoder = "first_look" /\ verdict = "none"
        /\ arrived' = n
        /\ UNCHANGED <<chunks, trailer, stream_vars>>
        /\ \/ /\ whole.state = "incomplete" /\ n <= max_body_bytes
              /\ decoder' = "stream" /\ undecoded' = bytes /\ GoesOn
           \/ /\ whole.state = "incomplete" /\ n > max_body_bytes
              /\ Refuse("too_large") /\ UNCHANGED decoder
           \/ /\ whole.state = "malformed" \/ whole.consumed > max_body_bytes
              /\ Refuse("bad_request") /\ UNCHANGED decoder
           \/ /\ whole.state = "complete" /\ whole.consumed <= max_body_bytes
              /\ Dispatch(whole.body) /\ undecoded' = SubSeq(bytes, whole.consumed + 1, n)
              /\ UNCHANGED decoder

\* recv: n bytes more.
Arrive(n) ==
    /\ decoder = "stream" /\ verdict = "none" /\ undecoded = <<>>
    /\ arrived + n <= Len(encoded)
    /\ arrived' = arrived + n /\ undecoded' = SubSeq(encoded, arrived + 1, arrived + n)
    /\ UNCHANGED <<chunks, trailer, decoder, stream_vars, verdict, body>>

----------------------------------------------------------------------------
(* RequestBodyAccumulator.                                                 *)

\* ensure_spool_file moves what is in memory.
append(acc, data) ==
    IF ~acc.spooled /\ Len(acc.memory) + Len(data) <= memory_limit_
    THEN [acc EXCEPT !.memory = acc.memory \o data]
    ELSE [memory |-> <<>>, spooled |-> TRUE, file |-> acc.file \o acc.memory \o data]

size_of(acc) == Len(acc.memory) + Len(acc.file)

finish(acc) == IF acc.spooled THEN acc.file ELSE acc.memory

(***************************************************************************)
(* process_chunked_http1_body_stream: one round of its loop is a step.     *)
(***************************************************************************)
Rounds(phases) ==
    /\ decoder = "stream" /\ verdict = "none" /\ undecoded # <<>> /\ stream.phase \in phases
    /\ UNCHANGED <<chunks, trailer, arrived, decoder>>

\* Faulty variant: a line that is cut twice loses its beginning.
longer_line_replaced(line, bytes) == bytes

longer_line(line, bytes) == line \o bytes

LineFeeds == {i \in DOMAIN undecoded : undecoded[i] = "LF"}

TakePartOfLine ==
    LET line == longer_line(stream.line_buffer, undecoded)
    IN  /\ Rounds({"size_line", "trailer_line"}) /\ LineFeeds = {}
        /\ stream' = [stream EXCEPT !.line_buffer = line]
        /\ undecoded' = <<>> /\ UNCHANGED accumulator
        /\ IF Len(line) > max_line_bytes THEN Refuse("bad_request") ELSE GoesOn

TakeLine ==
    LET last == Min(LineFeeds)
        ended == longer_line(stream.line_buffer, SubSeq(undecoded, 1, last))
        line == SubSeq(ended, 1, Len(ended) - 2)
        size == chunk_size(line)
        proper == Len(ended) >= 2 /\ ended[Len(ended) - 1] = "CR"
        in_trailer == stream.phase = "trailer_line"
        Reads(phase, remaining) ==
          /\ stream' = [NewStream EXCEPT !.phase = phase, !.chunk_remaining = remaining]
          /\ undecoded' = SubSeq(undecoded, last + 1, Len(undecoded)) /\ GoesOn
    IN  /\ Rounds({"size_line", "trailer_line"}) /\ LineFeeds # {}
        /\ UNCHANGED accumulator
        /\ \/ /\ \/ ~proper
                 \/ in_trailer /\ Len(line) > max_line_bytes
                 \/ ~in_trailer /\ size = NoSize
              /\ Refuse("bad_request") /\ UNCHANGED stream
           \/ /\ proper /\ in_trailer /\ line = <<>>
              /\ Dispatch(finish(accumulator))
              /\ undecoded' = SubSeq(undecoded, last + 1, Len(undecoded)) /\ UNCHANGED stream
           \/ /\ proper /\ in_trailer /\ Len(line) \in 1 .. max_line_bytes
              /\ Reads("trailer_line", 0)
           \/ /\ proper /\ ~in_trailer /\ size = 0 /\ Reads("trailer_line", 0)
           \/ /\ proper /\ ~in_trailer /\ size > 0 /\ Reads("data", size)

Take == Min({stream.chunk_remaining, Len(undecoded)})

TakeData ==
    /\ Rounds({"data"})
    /\ \/ /\ size_of(accumulator) + Take > max_body_bytes
          /\ Refuse("too_large") /\ UNCHANGED stream_vars
       \/ /\ size_of(accumulator) + Take <= max_body_bytes
          /\ accumulator' = append(accumulator, SubSeq(undecoded, 1, Take))
          /\ undecoded' = SubSeq(undecoded, Take + 1, Len(undecoded))
          /\ stream' = [stream EXCEPT !.chunk_remaining = @ - Take,
                                      !.phase = IF stream.chunk_remaining = Take
                                                  THEN "data_crlf" ELSE "data"]
          /\ GoesOn

TakeCrLf ==
    /\ Rounds({"data_crlf"})
    /\ UNCHANGED accumulator
    /\ \/ /\ Head(undecoded) # CrLf[stream.crlf_seen + 1]
          /\ Refuse("bad_request") /\ UNCHANGED stream
       \/ /\ Head(undecoded) = CrLf[stream.crlf_seen + 1]
          /\ undecoded' = Tail(undecoded) /\ GoesOn
          /\ stream' = IF stream.crlf_seen = 1 THEN NewStream
                       ELSE [stream EXCEPT !.crlf_seen = 1]

\* The spool file cannot be created or written: process_http1_body_stream answers 500.
SpoolFails ==
    /\ Rounds({"data"}) /\ size_of(accumulator) + Take <= max_body_bytes
    /\ append(accumulator, SubSeq(undecoded, 1, Take)).spooled
    /\ Refuse("server_error") /\ UNCHANGED stream_vars

\* Nothing more happens to an answered request.
Answered == verdict # "none" /\ UNCHANGED body_vars

BodyNext ==
    \/ \E n \in 0 .. Len(encoded) : FirstLook(n)
    \/ \E n \in 1 .. Len(encoded) : Arrive(n)
    \/ TakePartOfLine \/ TakeLine \/ TakeData \/ TakeCrLf \/ SpoolFails
    \/ Answered

BodySpec == BodyInit /\ [][BodyNext]_body_vars

----------------------------------------------------------------------------
Broken == {i \in DOMAIN chunks : chunks[i].form # "proper"}

\* An LF that no CR precedes, which only the stream's decoder refuses.
BareLf(lines) == \E i \in DOMAIN lines : lines[i] = "LF" /\ (i = 1 \/ lines[i - 1] # "CR")

\* A line above max_line_bytes, which only the stream's decoder refuses.
TooLong(lines) ==
    \E i \in DOMAIN lines : /\ i + max_line_bytes <= Len(lines)
                            /\ \A j \in i .. i + max_line_bytes : lines[j] # "LF"

LinesSent == {SizeLine(chunks[i]) : i \in DOMAIN chunks} \cup {trailer}

\* The decoders disagree about the body.
Debatable == \E lines \in LinesSent : BareLf(lines) \/ TooLong(lines)

(***************************************************************************)
(* Whichever decoder gets a body, and wherever its bytes are cut: the      *)
(* handler gets the data of all chunks, from memory or from the spool      *)
(* file, and the next request begins where the body ends                   *)
(* (finish_http1_body_stream); a body with a broken chunk is never         *)
(* dispatched, and by the stream's decoder none with a bare LF in a line   *)
(* either; one without a broken chunk is refused only if more than         *)
(* max_body_bytes have arrived, or by the stream's decoder for a bare LF   *)
(* or a line above max_line_bytes; and a connection that waits for more    *)
(* bytes does not have the whole body.                                     *)
(***************************************************************************)
ChunkedBodyAsSent ==
    /\ verdict = "dispatched" =>
         /\ Broken = {}
         /\ body = FlattenSeq([i \in DOMAIN chunks |-> chunks[i].data])
         /\ arrived - Len(undecoded) = Len(encoded) - 1
         /\ decoder = "stream" => \A lines \in LinesSent : ~BareLf(lines)
    /\ verdict \in {"bad_request", "too_large"} =>
         \/ Broken # {} \/ arrived > max_body_bytes
         \/ decoder = "stream" /\ Debatable
    /\ decoder = "stream" /\ verdict = "none" /\ undecoded = <<>> => arrived < Len(encoded) - 1
============================================================================
