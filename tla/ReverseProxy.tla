---------------------------- MODULE ReverseProxy ----------------------------
(***************************************************************************)
(* Forwarding requests to upstreams: the reverse_proxy phase of            *)
(* ClientConnection, try_start_websocket_proxy (server.cpp) and            *)
(* reverse_proxy_response, which answers HTTP/2 streams (virtual_host.cpp),*)
(* with the upstream selection and the circuit breaker that the            *)
(* connections of all workers share.                                       *)
(*                                                                         *)
(* Each connection forwards one request after the other.  The loop of      *)
(* start_next_reverse_proxy_attempt is cut at the calls that take the      *)
(* breaker's mutex, where other workers may come in between, and so is     *)
(* that of reverse_proxy_response.  Attempts for WebSocket and HTTP/2      *)
(* clients block their worker and poll with a timeout of their own for     *)
(* every stage; they have the stages of the event-driven attempt.          *)
(***************************************************************************)
EXTENDS CircuitBreaker, Sequences, SequencesExt

CONSTANTS
    upstreams,                      \* the targets of the virtual host rule, in order
    Https,                          \* the targets whose scheme is https
    NoUpstream,
    Conns,                          \* the client connections that forward
    load_balancing_policy,
    retry_count,
    connect_timeout_seconds, read_timeout_seconds

Upstreams == ToSet(upstreams)

ASSUME ProxyAssumption ==
    /\ upstreams \in Seq(Upstreams) /\ upstreams # <<>>
    /\ NoUpstream \notin Upstreams
    /\ Https \subseteq Upstreams
    /\ load_balancing_policy \in {"round_robin", "failover", "stable_hash"}
    /\ retry_count \in Nat
    /\ connect_timeout_seconds \in Nat \ {0} /\ read_timeout_seconds \in Nat \ {0}

VARIABLES
    circuit_breakers,       \* circuit_breakers[u]: the entry of u
    next_proxy_upstream,    \* the round-robin counter, modulo the number of upstreams
    proxy,                  \* proxy[c]: the forwarding state of connection c
    shunned,                \* history: the time left of the last cooldown u was given
    absolved                \* history: the upstreams that have succeeded since

history == <<shunned, absolved>>
vars == <<circuit_breakers, next_proxy_upstream, proxy, shunned, absolved>>

(***************************************************************************)
(* idle       the connection forwards nothing                              *)
(* selecting  in the loop, before reverse_proxy_upstream_available         *)
(* connecting, tls_handshake, writing_request, reading_response            *)
(*            ReverseProxyStage                                            *)
(* answered   a response is on its way to the client                       *)
(* registering  a WebSocket upstream has agreed, it is not in epoll yet    *)
(* tunnel     phase websocket_proxy                                        *)
(***************************************************************************)
Attempting == {"connecting", "tls_handshake", "writing_request", "reading_response"}
Stages == Attempting \cup {"idle", "selecting", "answered", "registering", "tunnel"}

\* What forwards: the event loop, or calls that block it for a WebSocket upgrade or
\* for an HTTP/2 stream.
Kinds == {"event", "websocket", "blocking"}

Answers == {"none", "upstream", "bad_gateway", "service_unavailable"}

MaxAge == Max({connect_timeout_seconds, read_timeout_seconds})

\* left: reverse_proxy_ordered_upstreams_ from reverse_proxy_attempt_index_ on.
Proxy == [stage : Stages, kind : Kinds, left : Seq(Upstreams),
          current : Upstreams \cup {NoUpstream}, socket : Upstreams \cup {NoUpstream},
          age : 0 .. MaxAge, attempted : BOOLEAN, skipped_open_circuit : BOOLEAN,
          answer : Answers, tried : Seq(Upstreams), failed : Nat]

Idle == [stage |-> "idle", kind |-> "event", left |-> <<>>, current |-> NoUpstream,
         socket |-> NoUpstream, age |-> 0, attempted |-> FALSE,
         skipped_open_circuit |-> FALSE, answer |-> "none", tried |-> <<>>, failed |-> 0]

TypeOK ==
    /\ circuit_breakers \in [Upstreams -> CircuitBreakerEntry]
    /\ next_proxy_upstream \in 0 .. Len(upstreams) - 1
    /\ proxy \in [Conns -> Proxy]
    /\ shunned \in [Upstreams -> 0 .. circuit_breaker_cooldown_seconds]
    /\ absolved \in SUBSET Upstreams

Init ==
    /\ circuit_breakers = [u \in Upstreams |-> no_entry]
    /\ next_proxy_upstream = 0
    /\ proxy = [c \in Conns |-> Idle]
    /\ shunned = [u \in Upstreams |-> 0]
    /\ absolved = {}

----------------------------------------------------------------------------
max_proxy_attempts == 16

bounded_proxy_attempts ==
    LET requested == Min({retry_count + 1, max_proxy_attempts})
    IN  IF Len(upstreams) = 1 THEN requested ELSE Min({Len(upstreams), requested})

ordered_reverse_proxy_upstreams(start) ==
    [k \in 1 .. bounded_proxy_attempts |-> upstreams[((start + k - 1) % Len(upstreams)) + 1]]

\* Where the order starts; a hash may start it anywhere.
Starts ==
    CASE load_balancing_policy = "round_robin" -> {next_proxy_upstream}
      [] load_balancing_policy = "failover"    -> {0}
      [] load_balancing_policy = "stable_hash" -> 0 .. Len(upstreams) - 1

\* try_start_reverse_proxy, or the beginning of try_start_websocket_proxy or of
\* reverse_proxy_response.
StartForwarding(c, kind) ==
    /\ proxy[c].stage = "idle"
    /\ \E start \in Starts :
         proxy' = [proxy EXCEPT ![c] = [Idle EXCEPT !.stage = "selecting", !.kind = kind,
                                        !.left = ordered_reverse_proxy_upstreams(start)]]
    /\ next_proxy_upstream' = IF load_balancing_policy = "round_robin"
                                THEN (next_proxy_upstream + 1) % Len(upstreams)
                                ELSE next_proxy_upstream
    /\ UNCHANGED <<circuit_breakers, history>>

Asks(c) == proxy[c].stage = "selecting" /\ proxy[c].left # <<>>

\* The circuit of the next upstream is open.
SkipUpstream(c) ==
    LET u == Head(proxy[c].left)
    IN  /\ Asks(c) /\ ~available(circuit_breakers[u])
        /\ circuit_breakers' = [circuit_breakers EXCEPT ![u] = after_query(@)]
        /\ proxy' = [proxy EXCEPT ![c].left = Tail(@), ![c].skipped_open_circuit = TRUE]
        /\ UNCHANGED <<next_proxy_upstream, history>>

BeginAttempt(c) ==
    LET p == proxy[c]
        u == Head(p.left)
    IN  /\ Asks(c) /\ available(circuit_breakers[u])
        /\ circuit_breakers' = [circuit_breakers EXCEPT ![u] = after_query(@)]
        /\ proxy' = [proxy EXCEPT ![c] =
             [p EXCEPT !.left = Tail(p.left), !.tried = Append(p.tried, u), !.attempted = TRUE,
                       !.current = u, !.socket = u, !.stage = "connecting", !.age = 0]]
        /\ UNCHANGED <<next_proxy_upstream, history>>

Enter(c, stage) == proxy' = [proxy EXCEPT ![c].stage = stage, ![c].age = 0]

\* A stage of an attempt is done.
TcpDone(c) ==
    /\ proxy[c].stage = "connecting"
    /\ Enter(c, IF proxy[c].current \in Https THEN "tls_handshake" ELSE "writing_request")
    /\ UNCHANGED <<circuit_breakers, next_proxy_upstream, history>>

TlsDone(c) ==
    /\ proxy[c].stage = "tls_handshake"
    /\ Enter(c, "writing_request")
    /\ UNCHANGED <<circuit_breakers, next_proxy_upstream, history>>

RequestDone(c) ==
    /\ proxy[c].stage = "writing_request"
    /\ Enter(c, "reading_response")
    /\ UNCHANGED <<circuit_breakers, next_proxy_upstream, history>>

ResponseDone(c) ==
    LET u == proxy[c].current
    IN  /\ proxy[c].stage = "reading_response"
        /\ circuit_breakers' = [circuit_breakers EXCEPT ![u] = after_success(@)]
        /\ proxy' = [proxy EXCEPT ![c] =
             IF @.kind = "websocket" THEN [@ EXCEPT !.stage = "registering", !.age = 0]
             ELSE [@ EXCEPT !.stage = "answered", !.age = 0, !.socket = NoUpstream,
                            !.answer = "upstream"]]
        /\ absolved' = absolved \cup {u}
        /\ UNCHANGED <<next_proxy_upstream, shunned>>

Blocking(c) == proxy[c].kind = "blocking"

\* finish_reverse_proxy_tcp_connect
TcpConnected(c) == ~Blocking(c) /\ TcpDone(c)

\* drive_reverse_proxy_tls_handshake
TlsConnected(c) == ~Blocking(c) /\ TlsDone(c)

\* flush_reverse_proxy_request
RequestSent(c) == ~Blocking(c) /\ RequestDone(c)

\* finish_reverse_proxy_response, or the handshake of a WebSocket upstream succeeds.
AttemptSucceeds(c) == ~Blocking(c) /\ ResponseDone(c)

\* The calls of reverse_proxy_response.
connect_tcp_upstream(c) == Blocking(c) /\ TcpDone(c)

connect_tls_upstream(c) == Blocking(c) /\ TlsDone(c)

write_all(c) == Blocking(c) /\ RequestDone(c)

read_until_close(c) == Blocking(c) /\ ResponseDone(c)

\* Faulty variant: the failed upstream is not told to the breaker.
fail_reverse_proxy_attempt_unrecorded(c) ==
    /\ proxy' = [proxy EXCEPT ![c] = [@ EXCEPT !.stage = "selecting", !.age = 0,
                                               !.socket = NoUpstream]]
    /\ UNCHANGED <<circuit_breakers, next_proxy_upstream, history>>

\* fail_reverse_proxy_attempt, and the catch clauses that do the same.
fail_reverse_proxy_attempt(c) ==
    LET p == proxy[c]
        u == p.current
        entry == after_failure(circuit_breakers[u])
    IN  /\ circuit_breakers' = [circuit_breakers EXCEPT ![u] = entry]
        /\ shunned' = [shunned EXCEPT ![u] =
             IF opened(entry) THEN circuit_breaker_cooldown_seconds ELSE @]
        /\ absolved' = IF opened(entry) THEN absolved \ {u} ELSE absolved
        /\ proxy' = [proxy EXCEPT ![c] = [p EXCEPT !.stage = "selecting", !.age = 0,
                                          !.socket = NoUpstream, !.failed = p.failed + 1]]
        /\ UNCHANGED next_proxy_upstream

\* Refused, reset, a bad certificate, a response that is too large or does not parse.
AttemptFails(c) == proxy[c].stage \in Attempting /\ fail_reverse_proxy_attempt(c)

\* register_websocket_upstream; it may throw after the success has been recorded.
TunnelOpens(c) ==
    /\ proxy[c].stage = "registering"
    /\ Enter(c, "tunnel")
    /\ UNCHANGED <<circuit_breakers, next_proxy_upstream, history>>

RegistrationFails(c) == proxy[c].stage = "registering" /\ fail_reverse_proxy_attempt(c)

timeout_seconds(c) ==
    IF proxy[c].stage = "reading_response" THEN read_timeout_seconds
    ELSE connect_timeout_seconds

\* Faulty variant: only connecting and reading are timed.
AttemptTimesOutSometimes(c) ==
    /\ proxy[c].stage \in {"connecting", "reading_response"}
    /\ proxy[c].age >= timeout_seconds(c)
    /\ fail_reverse_proxy_attempt(c)

\* expire_if_timed_out
AttemptTimesOut(c) ==
    /\ proxy[c].stage \in Attempting
    /\ proxy[c].age >= timeout_seconds(c)
    /\ fail_reverse_proxy_attempt(c)

failure_answer(p) ==
    IF ~p.attempted /\ p.skipped_open_circuit THEN "service_unavailable" ELSE "bad_gateway"

\* finish_reverse_proxy_failure_response
FinishFailure(c) ==
    /\ proxy[c].stage = "selecting" /\ proxy[c].left = <<>>
    /\ proxy' = [proxy EXCEPT ![c] = [@ EXCEPT !.stage = "answered", !.socket = NoUpstream,
                                               !.answer = failure_answer(proxy[c])]]
    /\ UNCHANGED <<circuit_breakers, next_proxy_upstream, history>>

\* Faulty variant: the pooled connection object keeps its upstream socket.
CloseConnectionKeepsSocket(c) ==
    /\ proxy[c].stage \notin {"idle", "selecting"}
    /\ proxy[c].kind # "event" => proxy[c].stage \notin Attempting
    /\ proxy' = [proxy EXCEPT ![c] = [Idle EXCEPT !.socket = proxy[c].socket]]
    /\ UNCHANGED <<circuit_breakers, next_proxy_upstream, history>>

\* close_now or prepare_for_pool: the upstream hangs up without a readable byte,
\* the tunnel ends, the response has been written or the worker lets its clients go.
\* Nothing closes a connection while its attempt blocks the worker.
CloseConnection(c) ==
    /\ proxy[c].stage \notin {"idle", "selecting"}
    /\ proxy[c].kind # "event" => proxy[c].stage \notin Attempting
    /\ proxy' = [proxy EXCEPT ![c] = Idle]
    /\ UNCHANGED <<circuit_breakers, next_proxy_upstream, history>>

Older(p) == IF p.stage \in Attempting THEN [p EXCEPT !.age = Min({@ + 1, MaxAge})] ELSE p

\* A second passes.
Tick ==
    /\ proxy' = [c \in Conns |-> Older(proxy[c])]
    /\ circuit_breakers' = [u \in Upstreams |-> aged(circuit_breakers[u])]
    /\ shunned' = [u \in Upstreams |-> IF shunned[u] > 0 THEN shunned[u] - 1 ELSE 0]
    /\ UNCHANGED <<next_proxy_upstream, absolved>>

\* What the worker of c does without waiting for anyone.
Advance(c) ==
    \/ SkipUpstream(c) \/ BeginAttempt(c) \/ FinishFailure(c) \/ AttemptTimesOut(c)
    \/ TunnelOpens(c) \/ RegistrationFails(c)

Next ==
    \/ \E c \in Conns :
         \/ \E kind \in Kinds : StartForwarding(c, kind)
         \/ Advance(c)
         \/ TcpConnected(c) \/ TlsConnected(c) \/ RequestSent(c)
         \/ connect_tcp_upstream(c) \/ connect_tls_upstream(c) \/ write_all(c)
         \/ read_until_close(c)
         \/ AttemptSucceeds(c) \/ AttemptFails(c) \/ CloseConnection(c)
    \/ Tick

Safety == Init /\ [][Next]_vars

\* Fairness: the workers run and time passes.  Nothing is assumed of an upstream.
Fairness == WF_vars(Tick) /\ \A c \in Conns : WF_vars(Advance(c))

Spec == Safety /\ Fairness

----------------------------------------------------------------------------
(* Properties.                                                             *)

(***************************************************************************)
(* An open circuit keeps requests away: whatever the attempts that were    *)
(* under way when a circuit opened still report, in whatever order, and    *)
(* however often requests ask for the upstream, no attempt at it begins    *)
(* before the cooldown of the last failure that opened its circuit has     *)
(* passed, unless the upstream has succeeded since.                        *)
(***************************************************************************)
OpenCircuitShields ==
    [][\A c \in Conns :
         (proxy[c].stage = "selecting" /\ proxy'[c].stage = "connecting")
            => \/ shunned[proxy'[c].current] = 0
               \/ proxy'[c].current \in absolved]_vars

(***************************************************************************)
(* The answer tells what happened.  502: at least one upstream was tried,  *)
(* every one that was tried failed and was reported to the breaker.  503:  *)
(* none was tried.  No upstream is tried twice, unless it is the only one  *)
(* or listed twice, and no more are tried than the retries allow.          *)
(***************************************************************************)
AnswerTellsTruth ==
    \A c \in Conns :
      LET p == proxy[c]
      IN  /\ p.answer = "bad_gateway" => p.failed > 0 /\ p.failed = Len(p.tried)
          /\ p.answer = "service_unavailable" => p.tried = <<>>
          /\ p.answer = "upstream" => p.failed = Len(p.tried) - 1
          /\ Len(p.tried) <= retry_count + 1
          /\ Len(upstreams) > 1 /\ IsInjective(upstreams) => IsInjective(p.tried)

(***************************************************************************)
(* Upstream sockets are not leaked: a connection holds one exactly while   *)
(* it attempts or tunnels, and it is the socket of its current upstream,   *)
(* through failures, failovers, timeouts and closed clients.               *)
(***************************************************************************)
SocketsAccounted ==
    \A c \in Conns :
      proxy[c].socket = IF proxy[c].stage \in Attempting \cup {"registering", "tunnel"}
                          THEN proxy[c].current ELSE NoUpstream

(***************************************************************************)
(* A forwarded request does not hang: whatever the upstreams do, it is     *)
(* answered, tunnelled or dropped.                                         *)
(***************************************************************************)
ForwardingEnds ==
    \A c \in Conns :
      proxy[c].stage \in Attempting \cup {"selecting", "registering"}
         ~> proxy[c].stage \in {"idle", "answered", "tunnel"}

(***************************************************************************)
(* An open circuit does not stay open for ever, although failures of       *)
(* attempts that were under way prolong it and requests keep asking.       *)
(***************************************************************************)
OpenCircuitRecovers ==
    \A u \in Upstreams : opened(circuit_breakers[u]) ~> ~opened(circuit_breakers[u])

(***************************************************************************)
(* docs/DECISIONS.md:525: "It is passive: upstreams are reopened only      *)
(* after cooldown, not by active probing."  No attempt at an upstream      *)
(* begins before the cooldown its last failure gave it has passed.         *)
(***************************************************************************)
ReopenedOnlyAfterCooldown ==
    [][\A c \in Conns :
         (proxy[c].stage = "selecting" /\ proxy'[c].stage = "connecting")
            => shunned[proxy'[c].current] = 0]_vars
=============================================================================
