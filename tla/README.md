# A formal model of rimau-server

This directory holds TLA+ specifications of rimau, the web server of this
repository, the TLC configurations that check them on small instances, and
proofs that TLAPS checks for every instance. `PROJECT.json` connects every
definition with the source lines it models.

Paths such as `server.cpp:5318` are relative to `src/src/core`, `src/src/http`
and `src/src/protocol`.

## 1. Inventory

| Component | State | Operations | Talks to | What is hard |
|---|---|---|---|---|
| Main thread (`Server::run`) | signal flags, `config_` | start workers, reload on SIGHUP, shutdown on SIGTERM, join | signal handlers, SQLite, workers through `RuntimeControl` | signals at any point, a reload of several steps that can fail in between |
| `RuntimeControl` | `config`, `tls`, `generation`, `shutdown_requested`, `worker_failed` | atomic loads and stores | all threads | readers see a publication half done |
| Worker (`Worker::run`) | `clients_`, pool, `draining`, deadline, `config_generation_` | drain, wait, refresh, accept, handle, release, expire | `RuntimeControl`, `SecurityState`, its connections | every failure path has to give back what it took; ending although clients do not |
| `SecurityState` | connection counters, request buckets | `try_open_connection`, `close_connection`, `allow_request` | workers | check and count under concurrency |
| `ClientConnection` | phase, buffers, timers, request count | one call per epoll event, one per timeout check | client, OpenSSL, framing, proxy | pipelining, streamed bodies, timers that restart, bytes inside OpenSSL |
| HTTP/1.1 framing | chunk decoder, body accumulator | find the next frame, consume body bytes | `ClientConnection` | arbitrary cuts, limits, two decoders for the same bytes |
| Reverse proxy, event-driven and blocking | attempt index, stage, upstream socket | select, connect, TLS, write, read, fail over, answer | upstreams, circuit breaker | late results, retries, timeouts per stage |
| Circuit breaker | one entry per upstream, shared | available, success, failure | proxies of all workers | out-of-order results, cooldown |
| HTTP/2 session, HPACK | streams, windows, header block in progress, dynamic table | one operation per frame | `ClientConnection` | frames of other streams in between, tables that must stay equal, frames left behind an answer |
| WebSocket tunnel | two bounded buffers, epoll interest of two descriptors | set up, pass bytes across | client, upstream, OpenSSL | one handler fills the other side's buffer; early bytes; an upstream that was given up |
| WebSocket endpoint | frames received, answers to send, close flag | frames in, answers out | client | frames cut anywhere, frames around Close |
| Configuration | SQLite table | set a key, build a configuration | main thread, CLI | keys valid one by one but not together |
| Virtual hosts, WAF, responses, static files | none shared | pure functions and file I/O | request dispatch | - |
| HTTP/3 frames, logger, command line | none | - | - | - |

What makes each of them correct, in the order of importance:

* **Runtime.** The shared counters are exact through every failure path; limits
  hold under concurrent admissions; a reload happens entirely or not at all and
  reaches every client; no connection mixes configurations; a shutdown ends and
  leaves nothing behind.
* **Connection.** Requests are separated exactly where their framing says; caps
  and timeouts hold whatever the client does; nothing received is forgotten; a
  connection whose client has gone is released.
* **Reverse proxy.** The client is told the truth; sockets do not leak; an
  upstream that is down is left alone for its cooldown; requests do not hang.
* **HTTP/2, HPACK.** A handler gets the fields and the body the client sent on a
  stream; each stream is answered once and in the end; flow control does not hit
  a client that keeps to it; no frame is forgotten in the buffer.
* **WebSocket.** The tunnel is a channel: nothing lost, reordered or from another
  sender, no unit stuck. The endpoint answers each frame once, in order.

## 2. Modules

```
SecurityState <- ServerRuntime <- ServerRuntimeProofs
                               <- MCServerRuntime <- MCRuntimeLiveness
AdmissionControl <- ServerRuntime    (INSTANCE, the refinement)
ClientConnection <- ClientConnectionProofs
ChunkedBody <- ChunkedBodyProofs
ClientConnection, ChunkedBody  <- MCConnection
CircuitBreaker <- ReverseProxy <- ReverseProxyProofs
                               <- MCReverseProxy
WebSocketSettings <- WebSocketTunnel <- WebSocketTunnelProofs
WebSocketSettings <- WebSocketEndpoint <- WebSocketEndpointProofs
WebSocketTunnel, WebSocketEndpoint <- WebSocketUpgrade <- MCWebSocket
DuplexChannel <- WebSocketTunnel     (INSTANCE, the refinement)
Hpack <- Http2Session <- Http2SessionProofs
                      <- MCHttp2
CommonLemmas <- the modules with proofs about sequences
```

How the models meet: `ServerRuntime` opens and closes connections;
`ClientConnection` is what happens to one of them in between, as long as it
speaks HTTP/1.1. A forwarded request goes on in `ReverseProxy`, an upgraded one in
`WebSocketUpgrade`, a connection with the HTTP/2 preface in `Http2Session`. In
each model the parts that belong to another one are a choice over what that part
may answer.

**SecurityState** has the operators of the class of that name: who is admitted,
and the counters before and after. Each runs under the class's mutex, so that a
caller's step may use it as a whole.

**ServerRuntime** composes the main thread, the workers, `RuntimeControl`, the
counters and the connections. `main` and `pc[w]` say where a thread is; a thread
is cut at every access to state another thread writes. The reload is five steps
(`TakeReload`, `LoadConfig`, `PublishTls`, `PublishConfig`, `BumpGeneration`), an
accept three (`AcceptClient`, `Admit` or `Reject`, `OpenClient` or `OpenFails`),
a refresh two. A configuration is a version number; `Config[v]` says whether it
loads, whether its TLS context builds, its limits and lists, and stands for the
restart-only keys and for the TLS keys by one number each. A connection is a
record of its state, the worker that owns it, the configuration and the TLS
context it holds. Between accept and close a handler only leaves it open or
closed.

**AdmissionControl** is the abstract specification of what the workers decide
together: a policy in force, the connections that wait for a decision, each with the
policy of its arrival, and those that are live. Its steps are `Publish`, `Arrive`,
`Admit`, `Refuse` and `Leave`. `ServerRuntime` implements it with
`policy <- live_config`, `live <- Counted` and `waiting <- Undecided`, the connections
between `accept4` and `try_open_connection` with the snapshot their worker holds
(`ImplementsAdmissionControl`). The connections of a failed worker stay live: nobody
gives them back. The run `reload` checks it for one worker, which meets the reloads
between a snapshot and a decision. The race of several workers for the last places is in
the run `admission`, as `CountersExact` and `LimitsRespected`; the theorem states the
refinement itself for any number of workers.

**ClientConnection** is one HTTP/1.1 connection from `reset` to `closed`, plain
or TLS. A byte stream is a sequence of units (a piece of a header, the end of a
header, a piece of a body), each with the number of its request. One action
handles one `recv` or `SSL_read` with everything it triggers: appending,
framing, body streaming, dispatch, response, and back to the buffer if the
response is written at once. What the handler of a request decides (answer,
proxy, upgrade, failure) is a choice. Timers count down in `Tick`; the periodic
`expire_if_timed_out` is the actions `TimeoutResponds`, `TimeoutCloses` and
`NoTimeout`.

**ChunkedBody** looks at one chunked body with a finer grain, bytes. The first
look at the buffer uses `decode_chunked_body`, which sees all that is there; a
body that is incomplete by then is taken by `process_chunked_http1_body_stream`,
one action per round of its loop, into the accumulator with its spool file. The
client's messages are built from chunks, so that the body the handler should get
is known independently of the decoders. A chunk has a size line, data and a form:
proper, a line that says no size, or data that does not end where the line says.
`Chunks` and `Trailers` are constants: all chunks and trailers of that shape, or, in
a run, some. `MCConnection` checks the two grains in
one run; `grain` says which one a behaviour is in.

**CircuitBreaker** has the operators on one breaker entry. **ReverseProxy** has
the connections that forward requests. `proxy[c]` is the attempt of connection
`c` with its stage, the upstreams left to try and the age of the stage. The loop
of `start_next_reverse_proxy_attempt` is cut at each call that takes the breaker's
mutex. WebSocket upstreams, and `reverse_proxy_response`, which answers HTTP/2
streams, use the same stages; their worker blocks meanwhile, so that nothing
closes the client in between. For a WebSocket, success is recorded before the
socket is in epoll, which can still fail. A worker that is blocked polls with a
new timeout whenever a byte arrives; the model counts the stage as a whole.
`shunned` and `absolved` are history variables: the cooldown the last opening
failure gave an upstream, and who has succeeded since.

**WebSocketTunnel** starts where `try_handle_websocket_upgrade` finds a
reverse-proxy virtual host: blocking set-up of an upstream with failover, the 101
response, then the tunnel. Every `recv`, `send`, `SSL_read` and `SSL_write` is a
step, so that the peers move between the calls of a handler; `task` is the loop
the handler is in. Units stand for runs of bytes and carry their sender.
`decrypted` counts what OpenSSL has read from the socket and epoll does not
report; `retry` is the `SSL_write` that has to be repeated with the same buffer.
`finish_response` does not look at `closed()` between its first
`update_websocket_proxy_events` and its flush to the client: when epoll has refused the
update the connection is closed and the flush still happens (`FirstUpdateFails`, the job
`last_flush`).

**DuplexChannel** is the abstract specification: two streams between the client
and the one upstream it is linked to, each a prefix of what the other end sent.
`WebSocketTunnel` implements it with `link <- peer`, `delivered <- wire` and
`open <- carrying` (`ImplementsDuplexChannel`): the channel is open until the handler
that closed the connection has ended.

**WebSocketEndpoint** is the built-in endpoint: frames of several units (head,
extended length, mask, payload) arrive in any pieces, are answered with data, Pong
or Close, and the answers wait for room in the socket. Any number of frames, the last of
them perhaps cut, may have come with the upgrade request. Frames behind a Close are still
answered, and a frame that is refused stays in the buffer and is refused again at the next
read, as in the code. **WebSocketUpgrade** is the
choice between the two.

**Hpack** has the operators on the decoder's dynamic table and
`decode_header_block` over instructions: a literal, a literal that is inserted, a
reference, a table size update.

**Http2Session** is `ServerSession` with the part of `ClientConnection` that
drives it, and a client with an encoder table of its own. A step is one frame the
session handles, with all it triggers up to the response. Modelling decisions:

* Frames are whole; a frame that has only partly arrived shows in
  `expire_cut_frame`, which may happen whenever something is under way.
* `Receive` takes everything that is under way, except that it may stop behind the
  preface and before a CONTINUATION, the two places where the session keeps state
  between frames. The client sends when the server does not run, or while it
  writes an answer after which the connection goes on: sending commutes with the
  server's other steps.
* The instructions of a header block count one unit for a reference and two
  otherwise against `max_request_bytes`; a frame that no ordinary client sends
  (`Strays`) counts as two of the client's `MaxSends`, and nothing follows it.
* A closed session returns to the pool and is used again; only the table limit
  survives, as in the code.
* `unsynced` records that the client's table and the decoder's have come apart: a
  block was dropped undecoded (`drop_block`), SETTINGS_HEADER_TABLE_SIZE was
  applied to the decoder, or the pooled decoder kept the limit of its last
  connection.

The MC modules give names to small instances. Definitions described as a faulty
variant are not used by any specification; they are what each property has been
seen to reject.

## 3. Runs

| Run | Instance | What it shows |
|---|---|---|
| `admission` | 2 workers, 4 connections from 3 addresses, global limit 2, one per address, pool of 1 | counters exact, limits respected, pool bounded, shutdown clean: `TypeOK`, `CountersExact`, `LimitsRespected`, `CleanShutdown` |
| `reload` | 1 worker, 2 connections, 2 certificates, up to 2 published reloads over 6 versions: the initial one, TLS keys that do not build, TLS keys that do, a restart-only key, one that does not load, a blocklist | reloads all or nothing, stale clients noticed, TLS never older than the configuration, each connection decided by the configuration of its arrival: `StaleClientsNoticed`, `ReloadAllOrNothing`, `TlsNotOlderThanConfig`, `ImplementsAdmissionControl` |
| `runtime_liveness` | 2 connections, no pool; 1 worker and 1 published reload over 3 versions, or 2 workers and no reload | SIGHUP is acted upon, clients learn the configuration, a requested shutdown ends, and the failure of one worker makes the other drain and ends the process: `ReloadHandled`, `ClientsLearnConfig`, `ShutdownCompletes`, `FailureStopsServer` |
| `cert_rotation` | 1 worker, 1 connection, 2 certificates | *violated*, see 6: `AcceptedReloadServesCertificate` |
| `connection` | up to 4 units in all cuts, plain or TLS, 2 requests per connection, buffer of 3; or one body of up to 2 chunks out of 9 kinds with 5 trailers, byte by byte | requests whole and in order, caps, header timeout, buffer bound, nothing left to parse, a hung-up client is released; chunked bodies as sent: `RequestsWholeAndInOrder`, `RequestCapRespected`, `HeaderTimeoutEnforced`, `NothingLeftToParse`, `RequestBufferBounded`, `ChunkedBodyAsSent`, `HungUpClientReleased` |
| `body_timeout`, `tls_pipelining` | up to 4 units | *violated*, see 6: `BodyTimeoutEnforced`, `PipelinedBytesProcessed` |
| `reverse_proxy` | 2 connections of three kinds, 2 upstreams (one https), one retry, threshold 1, cooldown 2 | the answers, the sockets, the shield of an open circuit; requests end, circuits recover: `AnswerTellsTruth`, `SocketsAccounted`, `OpenCircuitShields`, `ForwardingEnds`, `OpenCircuitRecovers` |
| `early_reopen` | 2 connections, 2 upstreams, threshold 1 | *violated*, see 6: `ReopenedOnlyAfterCooldown` |
| `websocket` | 2 upstreams of which the second is https, 3 units from the client and 1 from each upstream, buffers of 2, sockets of 1; or 2 frames of 7 kinds, all cuts | the tunnel is a channel, loses nothing, closes only for a real overflow, waits for no event it did not ask for; the endpoint answers each frame once and in the end: `TypeOK`, `NothingLostInside`, `OverflowIsReal`, `NoLostWakeup`, `AnswersFaithful`, `NoFrameForgotten`, `ImplementsDuplexChannel`, `UnitsPassedOn`, `AnswersDelivered` |
| `http2` | 2 streams, 2 fields, table of 2, windows of 2, 3 sends of a client in any order with 12 kinds of stray frames, plain and TLS, pooled | fields and bodies as sent, each stream answered once and in the end, no frame forgotten, flow control spares a proper client: `SessionTypeOK`, `HeadersAsEncoded`, `BodiesWhole`, `AnsweredOnce`, `FramesNotForgotten`, `FlowControlSpares`, `StreamsAnswered` |
| `http2_window` | 1 stream, padded DATA | *violated*, see 6: `WindowRestored` |

Why these bounds are enough to meet the interesting cases:

* Four connections, two of them from one address, make two workers compete for the
  last place. With three addresses and one connection per address the global limit of
  two is what refuses the third address, and the limit per address what refuses the
  second connection of one: each decides on its own. A pool of one is full after one
  release.
* Two workers are what a failure needs: one dies while the other one has clients.
* Six versions hold one of each kind of reload, rejected ones before and after
  accepted ones. A worker meets them through what the main thread publishes; what workers
  do to each other, through the counters of `SecurityState`, is the matter of
  `admission`, and of the proofs for both at once.
* Four units hold a request with a body followed by a second header, and a read or
  record may end at each boundary and across it. The buffer holds three units,
  fewer than a client can send.
* Two chunks make a chunk follow another in all forms: leading blanks and zeros, an
  extension, a bare LF in the line, data that is a line end or looks like the last
  chunk, and broken ones. 11 bytes are more than a small message and less than two large chunks; two
  bytes of memory make the accumulator spill in the middle of a chunk.
* With threshold one every failure opens a circuit, while another connection may
  have an attempt at the same upstream under way; a cooldown of two seconds can be
  interrupted in its middle. Larger thresholds are covered by the proofs.
* Three units from the client against a buffer of two and a socket of one fill a
  tunnel buffer, overflow it and compact it; two upstreams make one that was given
  up; the https one shows partial and repeated TLS writes. Upstreams send at most
  one unit each: the two directions run the same code.
* Three sends are a request with a body in two frames, or two interleaved
  requests, or a request between a SETTINGS and a stray frame; a table of two holds
  one large or two small fields, so that each insertion may evict.

`MaxReloads`, `MaxVersion`, `MaxCert`, `MaxUnits`, `MaxBody`, `MaxChunks`, `MaxSent`,
`MaxFrames` and `MaxSends` bound what the outside world does; `MaxAge` stops the age of a stage where no comparison tells
more. `ReadSize`, `RecordSize`, `SocketRoom` and `EndpointRoom` scale the buffers of
the code and of the kernel down.

### Fairness

* *Threads run.* Each thread takes its next step. A thread of the code blocks only
  in `epoll_wait` and `sleep_for`, which time out, and in mutexes held for a few
  instructions.
* *`accept4` eventually returns EAGAIN* and *`epoll_wait` is not interrupted for
  ever*: strong fairness of `AcceptEnds` and `EpollReturns`. Clients that connect
  faster than a worker accepts would keep it in its accept loop; the code has no
  limit there, so that the liveness results depend on this.
* *Time passes*, and `enforce_client_timeouts` runs after every `epoll_wait`.
* In `ClientConnection` the client does not stop reading a response for ever (the
  code has no write timeout) and an upstream attempt ends; the latter is
  `ForwardingEnds` of `ReverseProxy`, where nothing is assumed of an upstream.
* In the WebSocket modules a handler runs to its end, and epoll, which is
  level-triggered, reports each descriptor that stays ready: strong fairness of
  `WakeUp` for each side, because serving one side may disable the other for a
  moment. `UnitsPassedOn` and `AnswersDelivered` assume nothing of the peers: they
  say what follows if a peer keeps making room.
* In `Http2Session` the worker goes on with what is ready (`Work`), the client
  included that reads its answers.
* `[]<>~CanProgress \/ []<><<Progress>>_vars` in `ClientConnection` is weak fairness
  of `Progress` with its ENABLED written out.
* Nothing is assumed of signals, administrators, what clients send, or failures.

## 4. Proofs

The modules named `...Proofs` prove the theorems below for all values of the
constants. What they assume of the constants is in the modules themselves, and TLC
evaluates it in every run: finite sets of workers and connections, natural limits,
timeouts of at least a second, a nonempty list of upstreams (`ConstantsAssumption`,
`BreakerAssumption`, `ProxyAssumption`); buffers and sockets that hold at least one
unit (`ConnectionAssumption`, the assumptions of the WebSocket modules); odd stream
ids, natural window and table sizes (`HpackAssumption`, `SessionAssumption`), stray
frames that are frames (`StraysAssumption`); chunks whose form tells what their line
and data are, and trailers made of lines none of which is empty (`ChunksAssumption`,
`TrailersAssumption`, with `BodyAssumption` for the limits). The bounds of the runs
(`MaxUnits`, `MaxChunks`, `MaxSent`, `MaxFrames`, `MaxSends`) are constants like the
others: the theorems hold for each.

Two theorems have a hypothesis in their statement. `HeadersArriveAsEncoded` and
`BodiesArriveWhole` suppose `StraysSayNothing`: the header blocks of stray frames are
never completed and their DATA is always refused, so that they carry nothing the client
means to ask. The run `http2` uses stray frames of that kind, which TLC evaluates
(`MCStraysSayNothing`). The other HTTP/2 theorems hold for any stray frames.

| Theorem | Rests on |
|---|---|
| *Runtime* | |
| `TypeCorrect` | `TypeOK` is inductive |
| `CountersAreExact` | `CountersExact` is inductive given the types: each action moves a connection into or out of the counted states exactly when it changes the counters |
| `LimitsAreRespected` | admission compares with a limit of some version; the counters only go down elsewhere |
| `RuntimeImplementsAdmissionControl` | `CountersExact`, by which `try_open_connection` answers what the policy says of the live connections (`AdmitsAllowed`), and `OwnerInv`: the connection a worker decides on is the only one it has in hand (`DecidedOne`), so that its snapshot is that connection's |
| `ReloadIsAllOrNothing` | `ReloadInv`: at each step of the reload, which of the loaded configuration, the TLS context and the live configuration already agree, that what was loaded is valid, and that restart-only keys never changed |
| `TlsIsNotOlderThanConfig` | `SnapshotInv`: a configuration a worker holds fits a context that was published before it |
| `StaleClientsAreNoticed` | `GenerationInv`: no worker's generation is ahead of the published one, and one that is up to date holds the live configuration in its clients and in its accept loop, or a bump is still to come |
| `ShutdownIsClean` | `OwnerInv`: connections are held by the worker that owns them (`HeldByOwner`), at most one is between accept and `clients_` (`OneInHand`), and `pc`, `draining` and `main` fit (`LoopInv`) |
| *Reverse proxy* | |
| `ProxyTypeCorrect` | `TypeOK` and `CurrentKnown`: a connection in an attempt has an upstream |
| `OpenCircuitsShield` | `BreakerInv`: an entry that was ever opened has reached the threshold, so that each later failure renews a full cooldown, and the entry of a shunned upstream stays open as long as the history says |
| `SocketsAreAccounted` | inductive given the types |
| `AnswersTellTruth` | `AnswerInv`: failures and attempts agree in each stage (`Truthful`); the upstreams tried and left are disjoint and no more than planned (`NoneTwice`), which rests on `OrderInjective`: going round the list by remainders meets no upstream twice |
| *HTTP/1.1 connection* | |
| `ConnectionTypeOK` | `Typed`: the types, that the counts of requests agree (`Counted`), what a connection without a body stream holds (`Plain`) and what one with a stream does (`Streaming`) |
| `RequestsStayWholeAndInOrder` | `Whole`: what was dispatched, what is in the buffer, inside OpenSSL and on the way is the client's stream, cut where the framing cuts it |
| `RequestCapHolds` | `Capped`: a connection that goes on after a response has served fewer requests than the cap |
| `HeaderTimeoutHolds` | `Timed`: the header timer runs whenever an incomplete header waits, and is never restarted by another piece |
| `NothingWaitsToBeParsed` | a connection returns to epoll only behind a look at its buffer that found nothing complete |
| `RequestBufferIsBounded` | `Bounded`: each phase has its own bound; a read is appended only where the buffer keeps to it |
| `ChunkedBodiesArriveAsSent` | `BodyInv`, see below |
| *WebSocket* | |
| `TunnelTypeOK` | `Typed`: the types, the limits of the buffers and the room of the sockets, and `Heard`, what a link between the two ends implies for the streams |
| `NothingIsLostInside` | `Intact`: `NothingLostInside` and that upstreams which were given up are left alone (`Untouched`) |
| `NoWakeupIsLost` | inductive given the types: each handler ends in the step that asks epoll for the events of both sides |
| `OverflowsAreReal` | `Honest`: a close for an overflow has a buffer that was too full at the time (`Reasoned`) |
| `TunnelImplementsDuplexChannel` | each step of the tunnel, set-up and failover included, is one of the channel or leaves it as it is: by `NothingIsLostInside` what is delivered stays a prefix of what was sent, up to the end of the handler that closes |
| `EndpointTypeHolds`, `AnswersAreFaithful`, `NoFrameIsForgotten` | `EndpointInv`: the units received are the prefix of whole frames and a part of one (`Reception`); the answers written, waiting and owed are those of the frames taken (`Intact`). They are about `EndpointSafety`, the endpoint of a connection that was upgraded to it, which every behaviour of `WebSocketUpgrade` that takes this branch satisfies |
| *HTTP/2* | |
| `SessionTypeHolds` | `Typed` and `Balance`: the client's window, the window updates to be written and the DATA in the buffer and under way are together no more than the window at first. The lemmas about `Hpack` say what eviction keeps (the largest prefix that fits, `EvictKeeps`) and that each instruction leaves a table that fits (`InstructionDecoded`), `FittingIs` that the client's encoder evicts alike |
| `FlowControlIsFair` | `Balance`, and that the server's windows are restored at once: DATA that overruns one of them is more than the client had |
| `StreamsAreAnsweredOnce` | `Once`: what was given to a handler or answered is closed (`GivenClosed`, `RepliedOnce`), a closed stream stays closed, open ones are no newer than the last one (`Remembered`), and a header block that waits for its end belongs to a stream that is not closed (`PendingFresh`) |
| `HeadersArriveAsEncoded`, `BodiesArriveWhole` | `Told`, see below |
| `FramesAreNotForgotten` | `Unforgotten`: also, a closed connection has an empty buffer |

`HeadersAsEncoded` and `BodiesWhole` compare what a handler got with what the client
has said by now, while the frames between the two may still be on their way and
change both the dynamic table and the streams. They are not inductive: what is on its
way has to be said too. `Told` says, while the tables have not
come apart, that the frames in the buffer and under way lead from one end to the
other (`Path`): there is a sequence of the client's tables and of what it had said,
one for each frame, such that

* each frame carries what was said between its two neighbours (`Carries`): a header
  block, whole or with the fragments before it, an amount of DATA, an end, or nothing;
* at the first of them the decoder follows the client's table (`Follows`: its
  entries are the first of the decoder's, and the decoder evicts no earlier), and
  the open streams and the requests given to handlers are what had been said then
  (`Agrees`);
* the last is the client's table now and all it has said.

A frame the server takes moves the first point on (`HeadersTold`, `ContinuationTold`,
`DataTold`); a frame the client sends adds one at the end (`RequestTold`,
`DataSentTold`, `ClientTold`). Where they meet is the lemma `EncodingDecoded`: a block
encoded with a table that the decoder follows decodes to the field that was encoded,
and leaves tables that follow each other. A client that has used up its sends on stray
frames, and a session that was given up, are told apart (`Room`, `GivenUp`).

`ChunkedBodyAsSent` is about bodies that are done with or that wait. While a body is
being decoded, `BodyInv` says that the bytes taken so far are the first `p` of those the
client sends, and that these fix the state of the stream (`Reads`, `At`): inside the
size line of chunk `i`, with the beginning of that line in `line_buffer` (`InSize`);
inside its data, with what is left to come in `chunk_remaining` (`InData`); inside the
CRLF behind it (`InCrLf`); or in the last chunk or the trailer (`InTrailer`). The
accumulator, in memory or in the spool file, has the data of the chunks before and of
this one up to `p`. Each round of `process_chunked_http1_body_stream` moves `p` on
(`SizeTaken`, `DataTaken`, `CrLfTaken`, `TrailerTaken`, and `PartTaken` for a line that
is cut) or answers, and an answer is either what was sent (`AsSent`) or excused
(`Excused`).

For `decode_chunked_body` the lemma `BodyDecoded` says what it finds in the first `n`
bytes of any body: the data, and the place of the next request, if they hold all of it;
"malformed" only behind a broken chunk; else "incomplete". It is a loop whose number of
rounds depends on its input. The model writes it as a recursive function of the round,
`decode_chunk` being one round, and the proof takes the least round at which the
result is not the expected one (`Least`): the round before is as expected, and
one round from there is a fact about one chunk. So no theorem with an operator for a
parameter is needed.

Only model-checked: all liveness properties. They need fairness and `ENABLED`, which
the prover does not have.

## 5. Properties and hazards

`PROJECT.json` lists, under `hazards`, the places where this code is hard to
test, each with the properties that cover it. Hazards without one have a note.

Some properties hold with exceptions that the code makes, and say so:

* `UnitsPassedOn`: bytes that OpenSSL read ahead together with the upgrade request
  or the head of the 101 wait until the sender writes again. The tunnel is closed
  when an `SSL_write` to the upstream is repeated after its buffer moved: that SSL
  object lacks the mode which allows it (server.cpp:1760; compare 2304, 3861).
* `HeadersAsEncoded`, `BodiesWhole`: while `unsynced` is false. When the tables have
  come apart, a header block may not decode; the stream is reset but not remembered
  as closed (http2_session.cpp, `decode_headers` leaves `last_client_stream_id_`
  alone), and trailers that then happen to decode open it again without the DATA
  that was refused in between. It takes five sends of the client, more than the run
  has.
* `StreamsAnswered`: bytes inside OpenSSL are not in this model; see
  `tls_pipelining`.
* `ChunkedBodyAsSent`: the decoder that sees the body in pieces never lets a bare LF
  in a size or trailer line pass, and it refuses lines longer than 8192 bytes if they
  come in pieces; the decoder that sees the whole body accepts both, so that the outcome
  depends on the cuts. For the bare LF this is a disagreement with the documents, see 6.

Two hazards are in the models but in no property: an `SSL_write` to an upstream whose
buffer moved, with the bytes OpenSSL read ahead, and the tables of an HTTP/2 client and
the decoder that come apart. The properties about these parts exclude them.

## 6. Disagreements found

1. **Certificate rotation** (`cert_rotation`). The certificate plan tells the
   operator to switch a symlink and send SIGHUP. The reload compares paths, finds
   no change and keeps the old context.
2. **Body timeout** (`body_timeout`). PROGRESS.md says the body timeout still
   applies after bytes were consumed by the accumulator. `append_request_bytes`
   clears the timer when it finds an empty buffer, which is the usual state of a
   streamed body, and nothing starts it again.
3. **Pipelining over TLS** (`tls_pipelining`). ARCHITECTURE.md says the next
   pipelined request is processed after the response. When both requests came in
   one TLS record the second may be left inside OpenSSL, where no event announces
   it.
4. **Early reopening** (`early_reopen`). DECISIONS.md says upstreams are reopened
   only after the cooldown. The late success of an attempt that began earlier
   erases the entry at once. `OpenCircuitShields` states what does hold.
5. **HTTP/2 windows** (`http2_window`). The update checklist says inbound DATA
   restores the windows. `handle_data_frame` gives back the payload without its
   padding, and nothing for DATA it answers with RST_STREAM, while the client
   counts both: its connection window shrinks for good. `FlowControlSpares` states
   what does hold.
6. **Bare LF in chunk framing** (no run of its own). docs/DECISIONS.md:347,
   docs/ARCHITECTURE.md:611 and README.md:30 of the repository say that framing with
   bare CR or LF is rejected. `process_chunked_http1_body_stream` does reject it, which
   `ChunkedBodyAsSent` states and the proof covers; `decode_chunked_body`
   (http1_session.cpp:256), which decodes a body that is complete at the first look,
   looks for CR LF only, trims the size line and skips trailer lines, so that it accepts
   a bare LF in both. Without `decoder = "stream"` in front of its last conjunct about
   dispatched bodies `ChunkedBodyAsSent` fails in one step of `connection`.

Smaller observations, without a run: a GOAWAY always names stream 0 as the last
one processed (http2_session.cpp:293); trailers on an HTTP/2 stream reset it; an
idle keep-alive connection is closed after `idle_timeout_seconds`, the announced
keep-alive timeout is not used (server.cpp:2465).

## 7. Not modelled

* Startup checks that throw before any thread exists, exit status, log output.
* The per-minute request buckets of `allow_request`: whether a request is allowed
  is a choice in `ClientConnection` and `Http2Session`.
* The header grammar of HTTP/1.1, HPACK integers and strings, WebSocket masks:
  data. Chunk sizes near the largest `size_t`.
* Outbound HTTP/2 flow control, which the code does not have, and the older
  HTTP/2 functions of `server.cpp` (3113-3427), which nothing calls.
* The worker threads' copies of `config_` at startup, which race with the first
  reload.
* Virtual-host matching, WAF patterns, response formatting, static files, HTTP/3
  frames: no shared state and no interleaving.

## 8. Plan

Done: `SecurityState`, `ServerRuntime` with `AdmissionControl`; `ClientConnection`, `ChunkedBody`;
`CircuitBreaker`, `ReverseProxy`; the WebSocket modules with `DuplexChannel`;
`Hpack`, `Http2Session`; proofs about all of them.

Next: the buckets of `allow_request`; an abstract specification of the HTTP/2 session
(requests handed over once, with the fields and the body the client sent) of which
`HeadersAsEncoded`, `BodiesWhole` and `AnsweredOnce` are the safety half.
