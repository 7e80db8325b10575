------------------------- MODULE ReverseProxyProofs -------------------------
(***************************************************************************)
(* Proofs about ReverseProxy for every list of upstreams, every number of  *)
(* connections, and every setting of the policy, the retries, the timeouts *)
(* and the circuit breaker.                                                *)
(***************************************************************************)
EXTENDS ReverseProxy, SequenceTheorems, TLAPS

USE DEF history

----------------------------------------------------------------------------
(* The operators the model is built from.                                  *)

LEMMA MinOfTwo ==
    ASSUME NEW a \in Int, NEW b \in Int
    PROVE  /\ Min({a, b}) \in {a, b}
           /\ Min({a, b}) <= a /\ Min({a, b}) <= b
  <1>1. \E x \in {a, b} : \A y \in {a, b} : x =< y
    OBVIOUS
  <1>2. QED
    BY <1>1 DEF Min

LEMMA MaxOfTwo ==
    ASSUME NEW a \in Int, NEW b \in Int
    PROVE  /\ Max({a, b}) \in {a, b}
           /\ Max({a, b}) >= a /\ Max({a, b}) >= b
  <1>1. \E x \in {a, b} : \A y \in {a, b} : x >= y
    OBVIOUS
  <1>2. QED
    BY <1>1 DEF Max

LEMMA MaxAgeType == MaxAge \in Nat
  <1>1. connect_timeout_seconds \in Int /\ read_timeout_seconds \in Int
    BY ProxyAssumption
  <1>2. MaxAge \in {connect_timeout_seconds, read_timeout_seconds}
    BY <1>1, MaxOfTwo, Zenon DEF MaxAge
  <1>3. QED
    BY <1>2, ProxyAssumption

\* At least one attempt is planned, and no more than the retries allow.
LEMMA AttemptsBounded ==
    bounded_proxy_attempts \in Nat \ {0} /\ bounded_proxy_attempts <= retry_count + 1
  <1>1. Len(upstreams) \in Nat \ {0}
    BY ProxyAssumption
  <1>2. retry_count + 1 \in Nat \ {0} /\ max_proxy_attempts \in Nat \ {0}
    BY ProxyAssumption DEF max_proxy_attempts
  <1>3. ASSUME NEW a \in Nat \ {0}, NEW b \in Nat \ {0}
        PROVE  Min({a, b}) \in Nat \ {0} /\ Min({a, b}) <= a /\ Min({a, b}) <= b
    BY MinOfTwo
  <1> DEFINE requested == Min({retry_count + 1, max_proxy_attempts})
  <1>4. requested \in Nat \ {0} /\ requested <= retry_count + 1
    BY <1>2, <1>3, Zenon
  <1>5. Min({Len(upstreams), requested}) \in Nat \ {0} /\ Min({Len(upstreams), requested}) <= requested
    BY <1>1, <1>3, <1>4, Zenon
  <1>6. bounded_proxy_attempts \in {requested, Min({Len(upstreams), requested})}
    BY Zenon DEF bounded_proxy_attempts
  <1> HIDE DEF requested
  <1>7. QED
    BY <1>4, <1>5, <1>6, ProxyAssumption

\* The remainder by the number of upstreams is an index.
LEMMA Wraps == \A a \in Nat : a % Len(upstreams) \in 0 .. Len(upstreams) - 1
  <1>1. Len(upstreams) \in Nat \ {0}
    BY ProxyAssumption
  <1>2. QED
    BY <1>1

LEMMA OrderType ==
    ASSUME NEW start \in Nat
    PROVE  /\ ordered_reverse_proxy_upstreams(start) \in Seq(Upstreams)
           /\ Len(ordered_reverse_proxy_upstreams(start)) = bounded_proxy_attempts
  <1>1. ASSUME NEW k \in 1 .. bounded_proxy_attempts
        PROVE  upstreams[((start + k - 1) % Len(upstreams)) + 1] \in Upstreams
    <2>1. (start + k - 1) \in Nat
      BY AttemptsBounded
    <2>2. (start + k - 1) % Len(upstreams) \in 0 .. Len(upstreams) - 1
      BY <2>1, Wraps
    <2> DEFINE i == (start + k - 1) % Len(upstreams)
    <2>3. i + 1 \in 1 .. Len(upstreams)
      BY <2>2, ProxyAssumption
    <2>4. QED
      BY <2>3, ProxyAssumption
  <1>2. QED
    BY <1>1, AttemptsBounded DEF ordered_reverse_proxy_upstreams

LEMMA EntryTypes ==
    ASSUME NEW e \in CircuitBreakerEntry
    PROVE  /\ after_query(e) \in CircuitBreakerEntry
           /\ after_success(e) \in CircuitBreakerEntry
           /\ after_failure(e) \in CircuitBreakerEntry
           /\ aged(e) \in CircuitBreakerEntry
  BY BreakerAssumption
  DEF CircuitBreakerEntry, after_query, after_success, after_failure, aged, opened,
      no_entry, Unset

----------------------------------------------------------------------------
(* Type correctness.                                                       *)

LEMMA IdleType == Idle \in Proxy
  BY MaxAgeType DEF Idle, Proxy, Stages, Answers, Kinds

LEMMA InitTypeOK == Init => TypeOK
  <1>1. no_entry \in CircuitBreakerEntry
    BY BreakerAssumption DEF no_entry, CircuitBreakerEntry, Unset
  <1>2. 0 \in 0 .. Len(upstreams) - 1
    BY ProxyAssumption
  <1>3. 0 \in 0 .. circuit_breaker_cooldown_seconds
    BY BreakerAssumption
  <1>4. QED
    BY <1>1, <1>2, <1>3, IdleType DEF Init, TypeOK

\* What Next does for one connection.
ConnStep(c) ==
    \/ \E kind \in Kinds : StartForwarding(c, kind)
    \/ SkipUpstream(c) \/ BeginAttempt(c) \/ FinishFailure(c) \/ TunnelOpens(c)
    \/ TcpDone(c) \/ TlsDone(c) \/ RequestDone(c)
    \/ ResponseDone(c) \/ CloseConnection(c)
    \/ /\ proxy[c].stage \in Attempting \cup {"registering"}
       /\ fail_reverse_proxy_attempt(c)

LEMMA NextCases == Next => Tick \/ \E c \in Conns : ConnStep(c)
  BY DEF Next, Advance, ConnStep, AttemptTimesOut, AttemptFails, RegistrationFails,
         TcpConnected, TlsConnected, RequestSent, AttemptSucceeds, connect_tcp_upstream,
         connect_tls_upstream, write_all, read_until_close

LEMMA StartsType == TypeOK => Starts \subseteq Nat
  <1> SUFFICES ASSUME TypeOK PROVE Starts \subseteq Nat
    OBVIOUS
  <1>1. next_proxy_upstream \in Nat /\ 0 .. Len(upstreams) - 1 \subseteq Nat
    BY DEF TypeOK
  <1>2. QED
    BY <1>1, ProxyAssumption DEF Starts

\* Who has an upstream socket knows whose it is.
Engaged == Attempting \cup {"registering", "tunnel"}

CurrentKnown == \A c \in Conns : proxy[c].stage \in Engaged => proxy[c].current \in Upstreams

LEMMA ConnStepCurrentKnown ==
    ASSUME TypeOK, CurrentKnown, NEW c \in Conns, ConnStep(c)
    PROVE  CurrentKnown'
  <1>0. proxy[c] \in Proxy /\ proxy \in [Conns -> Proxy]
    BY DEF TypeOK
  <1> USE DEF Proxy, CurrentKnown, Engaged, Attempting
  <1>1. ASSUME NEW kind \in Kinds, StartForwarding(c, kind) PROVE CurrentKnown'
    BY <1>0, <1>1 DEF StartForwarding, Idle
  <1>2. CASE SkipUpstream(c)
    BY <1>0, <1>2 DEF SkipUpstream, Asks
  <1>3. CASE BeginAttempt(c)
    BY <1>0, <1>3 DEF BeginAttempt, Asks
  <1>4. CASE FinishFailure(c)
    BY <1>0, <1>4 DEF FinishFailure
  <1>5. CASE TunnelOpens(c) \/ TcpDone(c) \/ TlsDone(c) \/ RequestDone(c)
    <2>1. PICK s \in Engaged : Enter(c, s)
      BY <1>5 DEF TunnelOpens, TcpDone, TlsDone, RequestDone
    <2>2. proxy[c].stage \in Engaged
      BY <1>5 DEF TunnelOpens, TcpDone, TlsDone, RequestDone
    <2>3. QED
      BY <1>0, <2>1, <2>2 DEF Enter
  <1>6. CASE ResponseDone(c)
    BY <1>0, <1>6 DEF ResponseDone
  <1>7. CASE CloseConnection(c)
    BY <1>0, <1>7 DEF CloseConnection, Idle
  <1>8. CASE fail_reverse_proxy_attempt(c)
    BY <1>0, <1>8 DEF fail_reverse_proxy_attempt
  <1>9. QED
    BY <1>1, <1>2, <1>3, <1>4, <1>5, <1>6, <1>7, <1>8 DEF ConnStep

LEMMA ConnStepTypeOK ==
    ASSUME TypeOK, CurrentKnown, NEW c \in Conns, ConnStep(c)
    PROVE  TypeOK'
  <1>0. /\ proxy[c] \in Proxy /\ proxy \in [Conns -> Proxy]
        /\ circuit_breakers \in [Upstreams -> CircuitBreakerEntry]
        /\ shunned \in [Upstreams -> 0 .. circuit_breaker_cooldown_seconds]
        /\ absolved \in SUBSET Upstreams
        /\ next_proxy_upstream \in 0 .. Len(upstreams) - 1
    BY DEF TypeOK
  <1> USE DEF Proxy, Stages, Attempting, Answers
  <1>a. 0 \in 0 .. MaxAge
    BY MaxAgeType
  <1>1. ASSUME NEW kind \in Kinds, StartForwarding(c, kind) PROVE TypeOK'
    <2>1. PICK start \in Starts :
            proxy' = [proxy EXCEPT ![c] =
              [Idle EXCEPT !.stage = "selecting", !.kind = kind,
                           !.left = ordered_reverse_proxy_upstreams(start)]]
      BY <1>1 DEF StartForwarding
    <2>2. ordered_reverse_proxy_upstreams(start) \in Seq(Upstreams)
      BY StartsType, OrderType
    <2>3. proxy' \in [Conns -> Proxy]
      BY <1>0, <2>1, <2>2, IdleType
    <2>4. next_proxy_upstream' \in 0 .. Len(upstreams) - 1
      BY <1>0, <1>1, Wraps DEF StartForwarding
    <2>5. UNCHANGED <<circuit_breakers, shunned, absolved>>
      BY <1>1 DEF StartForwarding
    <2>6. QED
      BY <1>0, <2>3, <2>4, <2>5 DEF TypeOK
  <1>2. CASE SkipUpstream(c)
    <2>1. Head(proxy[c].left) \in Upstreams /\ Tail(proxy[c].left) \in Seq(Upstreams)
      BY <1>0, <1>2 DEF SkipUpstream, Asks
    <2>2. QED
      BY <1>0, <1>2, <2>1, EntryTypes DEF SkipUpstream, TypeOK
  <1>3. CASE BeginAttempt(c)
    <2>1. /\ Head(proxy[c].left) \in Upstreams /\ Tail(proxy[c].left) \in Seq(Upstreams)
          /\ Append(proxy[c].tried, Head(proxy[c].left)) \in Seq(Upstreams)
      BY <1>0, <1>3 DEF BeginAttempt, Asks
    <2>2. circuit_breakers' \in [Upstreams -> CircuitBreakerEntry]
      BY <1>0, <1>3, <2>1, EntryTypes DEF BeginAttempt
    <2>3. proxy' \in [Conns -> Proxy]
      BY <1>0, <1>a, <1>3, <2>1 DEF BeginAttempt
    <2>4. QED
      BY <1>0, <1>3, <2>2, <2>3 DEF BeginAttempt, TypeOK
  <1>4. CASE FinishFailure(c)
    BY <1>0, <1>4 DEF FinishFailure, failure_answer, TypeOK
  <1>5. CASE TunnelOpens(c) \/ TcpDone(c) \/ TlsDone(c) \/ RequestDone(c)
    <2>1. PICK s \in Stages : Enter(c, s)
      BY <1>5 DEF TunnelOpens, TcpDone, TlsDone, RequestDone
    <2>2. proxy' \in [Conns -> Proxy]
      BY <1>0, <1>a, <2>1 DEF Enter
    <2>3. UNCHANGED <<circuit_breakers, next_proxy_upstream, history>>
      BY <1>5 DEF TunnelOpens, TcpDone, TlsDone, RequestDone
    <2>4. QED
      BY <1>0, <2>2, <2>3 DEF TypeOK
  <1>6. CASE ResponseDone(c)
    <2>1. circuit_breakers' \in [Upstreams -> CircuitBreakerEntry]
      BY <1>0, <1>6, EntryTypes DEF ResponseDone
    <2>2. proxy' \in [Conns -> Proxy]
      BY <1>0, <1>a, <1>6 DEF ResponseDone
    <2>3. absolved' \in SUBSET Upstreams
      BY <1>0, <1>6 DEF ResponseDone, CurrentKnown, Engaged
    <2>4. QED
      BY <1>0, <1>6, <2>1, <2>2, <2>3 DEF ResponseDone, TypeOK
  <1>7. CASE CloseConnection(c)
    BY <1>0, <1>7, IdleType DEF CloseConnection, TypeOK
  <1>8. CASE proxy[c].stage \in Attempting \cup {"registering"} /\ fail_reverse_proxy_attempt(c)
    <2>0. proxy[c].current \in Upstreams
      BY <1>8 DEF CurrentKnown, Engaged
    <2>1. circuit_breakers' \in [Upstreams -> CircuitBreakerEntry]
      BY <1>0, <1>8, EntryTypes DEF fail_reverse_proxy_attempt
    <2>2. shunned' \in [Upstreams -> 0 .. circuit_breaker_cooldown_seconds]
      <3>1. PICK t \in {circuit_breaker_cooldown_seconds, shunned[proxy[c].current]} :
              shunned' = [shunned EXCEPT ![proxy[c].current] = t]
        BY <1>8 DEF fail_reverse_proxy_attempt
      <3>2. QED
        BY <1>0, <3>1, <2>0, BreakerAssumption
    <2>3. proxy' \in [Conns -> Proxy]
      <3>1. proxy' = [proxy EXCEPT ![c] =
               [proxy[c] EXCEPT !.stage = "selecting", !.age = 0, !.socket = NoUpstream,
                                !.failed = proxy[c].failed + 1]]
        BY <1>8 DEF fail_reverse_proxy_attempt
      <3>2. proxy[c].failed + 1 \in Nat
        BY <1>0
      <3>3. QED
        BY <1>0, <1>a, <3>1, <3>2
    <2>4. QED
      BY <1>0, <1>8, <2>1, <2>2, <2>3 DEF fail_reverse_proxy_attempt, TypeOK
  <1>9. QED
    BY <1>1, <1>2, <1>3, <1>4, <1>5, <1>6, <1>7, <1>8 DEF ConnStep

LEMMA TickTypeOK ==
    ASSUME TypeOK, Tick
    PROVE  TypeOK'
  <1>1. ASSUME NEW p \in Proxy PROVE Older(p) \in Proxy
    <2>1. p.age \in Nat /\ p.age + 1 \in Nat
      BY MaxAgeType DEF Proxy
    <2> DEFINE m == Min({p.age + 1, MaxAge})
    <2>2. p.age + 1 \in Int /\ MaxAge \in Int
      BY <2>1, MaxAgeType
    <2>3. m \in {p.age + 1, MaxAge} /\ m <= MaxAge
      BY <2>2, MinOfTwo, Zenon
    <2> HIDE DEF m
    <2>6. m \in 0 .. MaxAge
      BY <2>1, <2>3, MaxAgeType
    <2>4. Older(p) = IF p.stage \in Attempting THEN [p EXCEPT !.age = m] ELSE p
      BY DEF Older, m
    <2>5. QED
      BY <2>4, <2>6 DEF Proxy
  <1>2. proxy' \in [Conns -> Proxy]
    BY <1>1 DEF Tick, TypeOK
  <1>3. circuit_breakers' \in [Upstreams -> CircuitBreakerEntry]
    BY EntryTypes DEF Tick, TypeOK
  <1>4. shunned' \in [Upstreams -> 0 .. circuit_breaker_cooldown_seconds]
    BY BreakerAssumption DEF Tick, TypeOK
  <1>5. QED
    BY <1>2, <1>3, <1>4 DEF Tick, TypeOK

LEMMA TypedAndKnown == Safety => [](TypeOK /\ CurrentKnown)
  <1>1. TypeOK /\ CurrentKnown /\ [Next]_vars => (TypeOK /\ CurrentKnown)'
    <2>1. ASSUME TypeOK, CurrentKnown, UNCHANGED vars PROVE (TypeOK /\ CurrentKnown)'
      BY <2>1 DEF vars, TypeOK, CurrentKnown
    <2>2. ASSUME TypeOK, CurrentKnown, Tick PROVE CurrentKnown'
      BY <2>2 DEF Tick, Older, CurrentKnown, TypeOK, Proxy
    <2>3. QED
      BY <2>1, <2>2, NextCases, ConnStepCurrentKnown, ConnStepTypeOK, TickTypeOK
  <1>2. Init => CurrentKnown
    BY DEF Init, Idle, CurrentKnown, Engaged, Attempting
  <1>3. QED
    BY <1>1, <1>2, InitTypeOK, PTL DEF Safety

\* Every variable keeps its type, whatever the upstreams do.
THEOREM ProxyTypeCorrect == Safety => []TypeOK
  BY TypedAndKnown, PTL

----------------------------------------------------------------------------
(* Upstream sockets.                                                       *)

\* A connection holds an upstream's socket exactly while it attempts or tunnels, for
\* every order of failures, failovers, timeouts and closings.
THEOREM SocketsAreAccounted == Safety => []SocketsAccounted
  <1>1. Init => SocketsAccounted
    BY DEF Init, Idle, SocketsAccounted, Attempting
  <1>2. TypeOK /\ SocketsAccounted /\ [Next]_vars => SocketsAccounted'
    <2> SUFFICES ASSUME TypeOK, SocketsAccounted, [Next]_vars PROVE SocketsAccounted'
      OBVIOUS
    <2>0. proxy \in [Conns -> Proxy]
      BY DEF TypeOK
    <2> USE DEF Proxy, SocketsAccounted, Attempting
    <2>1. ASSUME NEW c \in Conns, ConnStep(c) PROVE SocketsAccounted'
      <3>0. proxy[c] \in Proxy
        BY <2>0
      <3>1. ASSUME NEW kind \in Kinds, StartForwarding(c, kind)
            PROVE  SocketsAccounted'
        BY <2>0, <3>0, <3>1 DEF StartForwarding, Idle
      <3>2. CASE SkipUpstream(c)
        BY <2>0, <3>0, <3>2 DEF SkipUpstream, Asks
      <3>3. CASE BeginAttempt(c)
        BY <2>0, <3>0, <3>3 DEF BeginAttempt, Asks
      <3>4. CASE FinishFailure(c)
        BY <2>0, <3>0, <3>4 DEF FinishFailure
      <3>5. CASE TunnelOpens(c) \/ TcpDone(c) \/ TlsDone(c) \/ RequestDone(c)
        <4>1. PICK s \in Engaged : Enter(c, s)
          BY <3>5 DEF TunnelOpens, TcpDone, TlsDone, RequestDone, Engaged
        <4>2. proxy[c].stage \in Engaged
          BY <3>5 DEF TunnelOpens, TcpDone, TlsDone, RequestDone, Engaged
        <4>3. QED
          BY <2>0, <3>0, <4>1, <4>2 DEF Enter, Engaged
      <3>6. CASE ResponseDone(c)
        BY <2>0, <3>0, <3>6 DEF ResponseDone
      <3>7. CASE CloseConnection(c)
        BY <2>0, <3>0, <3>7 DEF CloseConnection, Idle
      <3>8. CASE fail_reverse_proxy_attempt(c)
        BY <2>0, <3>0, <3>8 DEF fail_reverse_proxy_attempt
      <3>9. QED
        BY <2>1, <3>1, <3>2, <3>3, <3>4, <3>5, <3>6, <3>7, <3>8 DEF ConnStep
    <2>2. CASE Tick
      BY <2>0, <2>2 DEF Tick, Older
    <2>3. CASE UNCHANGED vars
      BY <2>3 DEF vars
    <2>4. QED
      BY <2>1, <2>2, <2>3, NextCases
  <1>3. QED
    BY <1>1, <1>2, ProxyTypeCorrect, PTL DEF Safety

----------------------------------------------------------------------------
(* The circuit breaker.                                                    *)

(***************************************************************************)
(* The breaker remembers what the history says: an entry that was ever     *)
(* opened has as many failures as the threshold asks for, so that every    *)
(* further failure gives it a full cooldown, and an upstream that is       *)
(* shunned and not absolved has an entry that stays open as long.          *)
(***************************************************************************)
BreakerInv ==
    \A u \in Upstreams :
      LET e == circuit_breakers[u]
      IN  /\ e.opened_for # Unset => e.failure_count >= threshold
          /\ ~circuit_breaker_enabled => e = no_entry
          /\ shunned[u] > 0 /\ u \notin absolved => e.opened_for = shunned[u]

LEMMA BreakerStep ==
    ASSUME TypeOK, BreakerInv, CurrentKnown, NEW c \in Conns, ConnStep(c)
    PROVE  BreakerInv'
  <1>0. /\ circuit_breakers \in [Upstreams -> CircuitBreakerEntry]
        /\ shunned \in [Upstreams -> 0 .. circuit_breaker_cooldown_seconds]
        /\ absolved \in SUBSET Upstreams
        /\ proxy[c] \in Proxy
    BY DEF TypeOK
  <1> USE BreakerAssumption
  <1> USE DEF BreakerInv, CircuitBreakerEntry, Unset, no_entry, Proxy
  <1>1. CASE UNCHANGED <<circuit_breakers, history>>
    BY <1>1
  <1>2. CASE SkipUpstream(c) \/ BeginAttempt(c)
    <2> DEFINE u == Head(proxy[c].left)
    <2>0. proxy[c].left # <<>> /\ proxy[c].left \in Seq(Upstreams)
      BY <1>0, <1>2 DEF SkipUpstream, BeginAttempt, Asks
    <2>1. /\ u \in Upstreams /\ UNCHANGED history
          /\ circuit_breakers' = [circuit_breakers EXCEPT ![u] = after_query(circuit_breakers[u])]
      BY <1>2, <2>0 DEF SkipUpstream, BeginAttempt
    <2> HIDE DEF u
    <2>2. QED
      BY <1>0, <2>1 DEF after_query
  <1>3. CASE ResponseDone(c)
    <2> DEFINE u == proxy[c].current
    <2>1. /\ u \in Upstreams /\ UNCHANGED shunned /\ absolved' = absolved \cup {u}
          /\ circuit_breakers' = [circuit_breakers EXCEPT ![u] = after_success(circuit_breakers[u])]
      BY <1>3 DEF ResponseDone, CurrentKnown, Engaged, Attempting
    <2> HIDE DEF u
    <2>2. QED
      BY <1>0, <2>1 DEF after_success
  <1>4. CASE proxy[c].stage \in Attempting \cup {"registering"} /\ fail_reverse_proxy_attempt(c)
    <2> DEFINE u == proxy[c].current
               entry == after_failure(circuit_breakers[u])
    <2>1. /\ u \in Upstreams
          /\ circuit_breakers' = [circuit_breakers EXCEPT ![u] = entry]
          /\ shunned' = [shunned EXCEPT ![u] = IF opened(entry) THEN circuit_breaker_cooldown_seconds
                                               ELSE shunned[u]]
          /\ absolved' = IF opened(entry) THEN absolved \ {u} ELSE absolved
      BY <1>4 DEF fail_reverse_proxy_attempt, CurrentKnown, Engaged
    <2>2. /\ entry \in CircuitBreakerEntry
          /\ entry.opened_for # Unset => entry.failure_count >= threshold
          /\ ~circuit_breaker_enabled => entry = no_entry
          /\ opened(entry) => entry.opened_for = circuit_breaker_cooldown_seconds
          /\ opened(circuit_breakers[u]) => opened(entry) \/ circuit_breaker_cooldown_seconds = 0
      <3> DEFINE e == circuit_breakers[u]
      <3>1. /\ e \in CircuitBreakerEntry
            /\ e.opened_for # Unset => e.failure_count >= threshold
            /\ ~circuit_breaker_enabled => e = no_entry
        BY <1>0, <2>1
      <3>2. threshold \in Nat
        BY DEF threshold
      <3> HIDE DEF e
      <3>3. entry = after_failure(e)
        BY DEF e
      <3> HIDE DEF entry
      <3>4. CASE ~circuit_breaker_enabled
        BY <3>1, <3>3, <3>4 DEF after_failure, opened, e
      <3>5. CASE circuit_breaker_enabled
        <4>1. /\ entry.failure_count = e.failure_count + 1
              /\ entry.opened_for = IF e.failure_count + 1 >= threshold
                                      THEN circuit_breaker_cooldown_seconds ELSE e.opened_for
          BY <3>3, <3>5 DEF after_failure
        <4>2. entry \in CircuitBreakerEntry
          BY <3>1, <3>3, EntryTypes
        <4>3. QED
          BY <3>1, <3>2, <3>5, <4>1, <4>2 DEF opened, e
      <3>6. QED
        BY <3>4, <3>5
    <2> HIDE DEF u, entry
    <2>3. QED
      BY <1>0, <2>1, <2>2 DEF opened
  <1>5. QED
    BY <1>1, <1>2, <1>3, <1>4
    DEF ConnStep, StartForwarding, FinishFailure, TunnelOpens, TcpDone, TlsDone,
        RequestDone, CloseConnection

LEMMA BreakerTick ==
    ASSUME TypeOK, BreakerInv, Tick
    PROVE  BreakerInv'
  BY BreakerAssumption
  DEF BreakerInv, TypeOK, Tick, aged, opened, CircuitBreakerEntry, Unset, no_entry

\* No attempt begins at an upstream before the cooldown of its last opening failure has
\* passed, unless the upstream has succeeded since.
THEOREM OpenCircuitsShield == Safety => OpenCircuitShields
  <1>1. Init => BreakerInv
    BY BreakerAssumption DEF Init, BreakerInv, no_entry, Unset
  <1>2. TypeOK /\ CurrentKnown /\ BreakerInv /\ [Next]_vars => BreakerInv'
    <2>1. ASSUME BreakerInv, UNCHANGED vars PROVE BreakerInv'
      BY <2>1 DEF vars, BreakerInv
    <2>2. QED
      BY <2>1, NextCases, BreakerStep, BreakerTick
  <1> DEFINE Shields == \A c \in Conns :
         (proxy[c].stage = "selecting" /\ proxy'[c].stage = "connecting")
            => \/ shunned[proxy'[c].current] = 0
               \/ proxy'[c].current \in absolved
  <1>3. TypeOK /\ BreakerInv /\ [Next]_vars => [Shields]_vars
    <2> SUFFICES ASSUME TypeOK, BreakerInv, Next,
                        NEW d \in Conns,
                        proxy[d].stage = "selecting", proxy'[d].stage = "connecting"
                 PROVE  \/ shunned[proxy'[d].current] = 0
                        \/ proxy'[d].current \in absolved
      OBVIOUS
    <2>0. proxy \in [Conns -> Proxy] /\ proxy[d] \in Proxy
      BY DEF TypeOK
    <2>1. BeginAttempt(d)
      <3>1. ~Tick
        <4>1. Older(proxy[d]).stage = proxy[d].stage
          BY <2>0 DEF Older, Proxy
        <4>2. ASSUME Tick PROVE proxy'[d] = Older(proxy[d])
          BY <4>2 DEF Tick
        <4>3. QED
          BY <4>1, <4>2
      <3>2. PICK c \in Conns : ConnStep(c)
        BY <3>1, NextCases
      <3>3. c = d
        BY <2>0, <3>2
        DEF ConnStep, StartForwarding, SkipUpstream, BeginAttempt, FinishFailure, TunnelOpens,
            TcpDone, TlsDone, RequestDone, Enter, ResponseDone, CloseConnection,
            fail_reverse_proxy_attempt
      <3>4. proxy[c].stage = "selecting" /\ proxy'[c].stage = "connecting"
        BY <3>3
      <3>5. ~SkipUpstream(c)
        <4>1. ASSUME NEW l, proxy' = [proxy EXCEPT ![c].left = l, ![c].skipped_open_circuit = TRUE]
              PROVE  proxy'[c].stage = proxy[c].stage
          BY <2>0, <4>1 DEF Proxy
        <4>2. QED
          BY <3>4, <4>1, Zenon DEF SkipUpstream
      <3>6. ~FinishFailure(c)
        <4>1. ASSUME NEW a, proxy' = [proxy EXCEPT ![c] =
                       [@ EXCEPT !.stage = "answered", !.socket = NoUpstream, !.answer = a]]
              PROVE  proxy'[c].stage = "answered"
          BY <2>0, <4>1 DEF Proxy
        <4>2. ASSUME FinishFailure(c) PROVE proxy'[c].stage = "answered"
          BY <4>1, <4>2, Zenon DEF FinishFailure
        <4>3. QED
          BY <3>4, <4>2
      <3>7. QED
        BY <3>2, <3>3, <3>4, <3>5, <3>6
        DEF ConnStep, StartForwarding, TunnelOpens, TcpDone, TlsDone, RequestDone,
            ResponseDone, CloseConnection, Attempting
    <2> DEFINE u == Head(proxy[d].left)
    <2>2. u \in Upstreams /\ proxy'[d].current = u /\ available(circuit_breakers[u])
      BY <2>0, <2>1 DEF BeginAttempt, Asks, Proxy
    <2> HIDE DEF u
    <2>3. ~opened(circuit_breakers[u])
      BY <2>2, BreakerAssumption DEF available, opened, BreakerInv, no_entry, Unset
    <2>4. QED
      BY <2>2, <2>3, BreakerAssumption DEF opened, BreakerInv, TypeOK
  <1>4. QED
    BY <1>1, <1>2, <1>3, TypedAndKnown, PTL DEF Safety, OpenCircuitShields

----------------------------------------------------------------------------
(* The answers.                                                            *)

LEMMA WrapsOnce ==
    ASSUME NEW n \in Nat \ {0}, NEW a \in Nat, a < 2 * n
    PROVE  a % n = IF a < n THEN a ELSE a - n
  <1>1. CASE a < n
    BY <1>1
  <1>2. CASE n <= a
    BY <1>2
  <1>3. QED
    BY <1>1, <1>2

Distinct == Len(upstreams) > 1 /\ IsInjective(upstreams)

\* The order of the upstreams names none twice.
LEMMA OrderInjective ==
    ASSUME Distinct, NEW start \in 0 .. Len(upstreams) - 1
    PROVE  \A i, j \in 1 .. bounded_proxy_attempts :
             ordered_reverse_proxy_upstreams(start)[i] = ordered_reverse_proxy_upstreams(start)[j]
               => i = j
  <1> DEFINE n == Len(upstreams)
             index(k) == ((start + k - 1) % n) + 1
  <1>0. n = Len(upstreams)
    OBVIOUS
  <1>1. n \in Nat \ {0} /\ n > 1 /\ start \in 0 .. n - 1
    BY ProxyAssumption DEF Distinct
  <1>a. upstreams \in [1 .. n -> Upstreams]
    BY ProxyAssumption
  <1> HIDE DEF n
  <1>2. bounded_proxy_attempts <= n
    <2> DEFINE requested == Min({retry_count + 1, max_proxy_attempts})
    <2>1. retry_count + 1 \in Int /\ max_proxy_attempts \in Int
      BY ProxyAssumption DEF max_proxy_attempts
    <2>2. requested \in {retry_count + 1, max_proxy_attempts}
      BY <2>1, MinOfTwo, Zenon
    <2>3. requested \in Int
      BY <2>1, <2>2
    <2> HIDE DEF requested
    <2>4. n \in Int
      BY <1>1
    <2>5. Min({n, requested}) <= n
      BY <2>3, <2>4, MinOfTwo, Zenon
    <2>6. bounded_proxy_attempts = Min({n, requested})
      <3>1. n # 1
        BY <1>1
      <3>2. QED
        BY <1>0, <3>1, Zenon DEF bounded_proxy_attempts, requested
    <2>7. QED
      BY <2>5, <2>6
  <1>3. ASSUME NEW k \in 1 .. bounded_proxy_attempts
        PROVE  /\ index(k) \in 1 .. n
               /\ index(k) = IF start + k - 1 < n THEN start + k ELSE start + k - n
               /\ k <= n
               /\ ordered_reverse_proxy_upstreams(start)[k] = upstreams[index(k)]
    <2>1. k \in Nat /\ k >= 1 /\ k <= n
      BY <1>1, <1>2, AttemptsBounded
    <2> DEFINE a == start + k - 1
    <2>2. a \in Nat /\ a < 2 * n
      BY <1>1, <2>1
    <2>3. index(k) = (a % n) + 1
      OBVIOUS
    <2>4. ordered_reverse_proxy_upstreams(start)[k] = upstreams[index(k)]
      BY <1>0 DEF ordered_reverse_proxy_upstreams
    <2> HIDE DEF index, a
    <2>5. a % n = IF a < n THEN a ELSE a - n
      BY <1>1, <2>2, WrapsOnce
    <2> DEFINE m == a % n
    <2>6. m = IF a < n THEN a ELSE a - n
      BY <2>5
    <2>7. index(k) = m + 1
      BY <2>3
    <2> HIDE DEF m
    <2>8. QED
      BY <1>1, <2>1, <2>2, <2>4, <2>6, <2>7 DEF a
  <1> HIDE DEF index
  <1>4. SUFFICES ASSUME NEW i \in 1 .. bounded_proxy_attempts,
                        NEW j \in 1 .. bounded_proxy_attempts,
                        ordered_reverse_proxy_upstreams(start)[i]
                          = ordered_reverse_proxy_upstreams(start)[j]
                 PROVE  i = j
    OBVIOUS
  <1>5. upstreams[index(i)] = upstreams[index(j)]
    BY <1>3, <1>4
  <1>6. index(i) = index(j)
    <2>1. index(i) \in DOMAIN upstreams /\ index(j) \in DOMAIN upstreams
      BY <1>3, <1>a
    <2>2. QED
      BY <1>5, <2>1 DEF Distinct, IsInjective
  <1>7. i \in Int /\ j \in Int
    BY AttemptsBounded
  <1>8. QED
    BY <1>1, <1>3, <1>6, <1>7

(***************************************************************************)
(* What a connection knows about the request it forwards: the upstreams it *)
(* tried have failed except the one it is engaged with, those still left   *)
(* are others, and both together are no more than were planned.            *)
(***************************************************************************)
Truthful(p) ==
    /\ p.stage = "selecting" => p.failed = Len(p.tried)
    /\ p.stage \in Engaged => p.failed = Len(p.tried) - 1
    /\ p.stage # "answered" => p.answer = "none"
    /\ p.attempted => Len(p.tried) > 0
    /\ ~p.attempted => Len(p.tried) = 0
    /\ p.stage = "selecting" /\ ~p.attempted /\ ~p.skipped_open_circuit => p.left # <<>>
    /\ p.answer = "bad_gateway" => p.failed > 0 /\ p.failed = Len(p.tried)
    /\ p.answer = "service_unavailable" => Len(p.tried) = 0
    /\ p.answer = "upstream" => p.failed = Len(p.tried) - 1

NoneTwice(p) ==
    /\ Len(p.tried) + Len(p.left) <= bounded_proxy_attempts
    /\ Distinct =>
         /\ \A i, j \in 1 .. Len(p.tried) : p.tried[i] = p.tried[j] => i = j
         /\ \A i, j \in 1 .. Len(p.left) : p.left[i] = p.left[j] => i = j
         /\ \A i \in 1 .. Len(p.tried) : \A j \in 1 .. Len(p.left) : p.tried[i] # p.left[j]

AnswerInv == \A c \in Conns : Truthful(proxy[c]) /\ NoneTwice(proxy[c])

\* One upstream fewer to go.
LEMMA TailFacts ==
    ASSUME NEW s \in Seq(Upstreams), s # <<>>
    PROVE  /\ Len(s) \in Nat \ {0} /\ Len(Tail(s)) = Len(s) - 1
           /\ Head(s) = s[1] /\ Head(s) \in Upstreams
           /\ \A i \in 1 .. Len(Tail(s)) : Tail(s)[i] = s[i + 1]
  OBVIOUS

LEMMA AppendFacts ==
    ASSUME NEW s \in Seq(Upstreams), NEW u \in Upstreams
    PROVE  /\ Len(Append(s, u)) = Len(s) + 1
           /\ \A i \in 1 .. Len(s) + 1 : Append(s, u)[i] = IF i = Len(s) + 1 THEN u ELSE s[i]
  OBVIOUS

LEMMA SamePlan ==
    ASSUME NEW p, NEW q, NoneTwice(p), q.tried = p.tried, q.left = p.left
    PROVE  NoneTwice(q)
  BY Zenon DEF NoneTwice

\* Asking for the next upstream, whether it is skipped or tried.
LEMMA NoneTwiceStep ==
    ASSUME NEW p \in Proxy, NoneTwice(p), p.left # <<>>,
           NEW q \in Proxy, q.left = Tail(p.left),
           \/ q.tried = p.tried
           \/ q.tried = Append(p.tried, Head(p.left))
    PROVE  NoneTwice(q)
  <1>0. p.left \in Seq(Upstreams) /\ p.tried \in Seq(Upstreams)
    BY DEF Proxy
  <1>1. /\ Len(p.left) \in Nat \ {0} /\ Len(q.left) = Len(p.left) - 1
        /\ Head(p.left) = p.left[1] /\ Head(p.left) \in Upstreams
        /\ \A i \in 1 .. Len(q.left) : q.left[i] = p.left[i + 1]
    BY <1>0, TailFacts
  <1>2. bounded_proxy_attempts \in Nat /\ Len(p.tried) \in Nat
    BY <1>0, AttemptsBounded
  <1>a. Len(p.tried) + Len(p.left) <= bounded_proxy_attempts
    BY Zenon DEF NoneTwice
  <1>b. ASSUME NEW t \in Nat, NEW l \in Nat \ {0}, NEW b \in Nat, t + l <= b
        PROVE  t + (l - 1) <= b /\ (t + 1) + (l - 1) <= b
    BY <1>b
  <1>c. /\ Len(p.tried) + (Len(p.left) - 1) <= bounded_proxy_attempts
        /\ (Len(p.tried) + 1) + (Len(p.left) - 1) <= bounded_proxy_attempts
    BY <1>1, <1>2, <1>a, <1>b, Zenon
  <1>3. CASE q.tried = p.tried
    <2>1. Len(q.tried) + Len(q.left) <= bounded_proxy_attempts
      BY <1>1, <1>3, <1>c, Zenon
    <2>2. ASSUME Distinct, NEW i \in 1 .. Len(q.left), NEW j \in 1 .. Len(q.left),
                 q.left[i] = q.left[j]
          PROVE  i = j
      BY <1>1, <2>2 DEF NoneTwice
    <2>3. ASSUME Distinct, NEW i \in 1 .. Len(q.tried), NEW j \in 1 .. Len(q.left)
          PROVE  q.tried[i] # q.left[j]
      BY <1>1, <1>3, <2>3 DEF NoneTwice
    <2>4. QED
      BY <1>3, <2>1, <2>2, <2>3 DEF NoneTwice
  <1>4. CASE q.tried = Append(p.tried, Head(p.left))
    <2>1. /\ Len(q.tried) = Len(p.tried) + 1
          /\ \A i \in 1 .. Len(p.tried) + 1 :
               q.tried[i] = IF i = Len(p.tried) + 1 THEN p.left[1] ELSE p.tried[i]
      BY <1>0, <1>1, <1>4, AppendFacts
    <2>2. Len(q.tried) + Len(q.left) <= bounded_proxy_attempts
      BY <1>1, <1>c, <2>1, Zenon
    <2>3. ASSUME Distinct, NEW i \in 1 .. Len(q.left), NEW j \in 1 .. Len(q.left),
                 q.left[i] = q.left[j]
          PROVE  i = j
      BY <1>1, <2>3 DEF NoneTwice
    <2>4. ASSUME Distinct, NEW i \in 1 .. Len(q.tried), NEW j \in 1 .. Len(q.left)
          PROVE  q.tried[i] # q.left[j]
      BY <1>1, <1>2, <2>1, <2>4 DEF NoneTwice
    <2>5. ASSUME Distinct, NEW i \in 1 .. Len(q.tried), NEW j \in 1 .. Len(q.tried),
                 q.tried[i] = q.tried[j]
          PROVE  i = j
      <3>1. \A k \in 1 .. Len(p.tried) : p.tried[k] # p.left[1]
        BY <1>1, <2>5 DEF NoneTwice
      <3>2. \A k, l \in 1 .. Len(p.tried) : p.tried[k] = p.tried[l] => k = l
        BY <2>5, Zenon DEF NoneTwice
      <3>3. QED
        BY <1>2, <2>1, <2>5, <3>1, <3>2
    <2>6. QED
      BY <2>2, <2>3, <2>4, <2>5 DEF NoneTwice
  <1>5. QED
    BY <1>3, <1>4

LEMMA StartsInRange == TypeOK => Starts \subseteq 0 .. Len(upstreams) - 1
  BY ProxyAssumption DEF TypeOK, Starts

LEMMA AnswerStep ==
    ASSUME TypeOK, CurrentKnown, AnswerInv, NEW c \in Conns, ConnStep(c)
    PROVE  Truthful(proxy'[c]) /\ NoneTwice(proxy'[c])
  <1> DEFINE p == proxy[c]
             q == proxy'[c]
  <1>0. p \in Proxy /\ proxy \in [Conns -> Proxy] /\ Truthful(p) /\ NoneTwice(p)
    BY DEF TypeOK, AnswerInv
  <1>a. q \in Proxy
    BY ConnStepTypeOK DEF TypeOK
  <1>b. /\ p.left \in Seq(Upstreams) /\ p.tried \in Seq(Upstreams)
        /\ Len(p.tried) \in Nat /\ p.failed \in Nat /\ p.attempted \in BOOLEAN
    BY <1>0 DEF Proxy
  <1>c. ASSUME q.tried = p.tried, q.left = p.left PROVE NoneTwice(q)
    BY <1>0, <1>c, SamePlan
  <1>1. ASSUME NEW kind \in Kinds, StartForwarding(c, kind)
        PROVE  Truthful(q) /\ NoneTwice(q)
    <2>1. PICK start \in Starts :
            proxy' = [proxy EXCEPT ![c] =
              [Idle EXCEPT !.stage = "selecting", !.kind = kind,
                           !.left = ordered_reverse_proxy_upstreams(start)]]
      BY <1>1 DEF StartForwarding
    <2> DEFINE order == ordered_reverse_proxy_upstreams(start)
    <2>2. start \in 0 .. Len(upstreams) - 1 /\ start \in Nat
      BY StartsInRange, StartsType
    <2>3. order \in Seq(Upstreams) /\ Len(order) = bounded_proxy_attempts /\ order # <<>>
      BY <2>2, OrderType, AttemptsBounded
    <2>4. Distinct => \A i, j \in 1 .. bounded_proxy_attempts : order[i] = order[j] => i = j
      BY <2>2, OrderInjective
    <2> HIDE DEF order
    <2>5. /\ q.stage = "selecting" /\ q.tried = <<>> /\ q.left = order /\ q.failed = 0
          /\ q.attempted = FALSE /\ q.answer = "none"
      BY <1>0, <2>1 DEF Idle, order
    <2>6. Truthful(q)
      BY <2>3, <2>5 DEF Truthful, Engaged, Attempting
    <2>7. NoneTwice(q)
      BY <2>3, <2>4, <2>5, AttemptsBounded DEF NoneTwice
    <2>8. QED
      BY <2>6, <2>7
  <1>2. CASE SkipUpstream(c)
    <2>1. /\ p.stage = "selecting" /\ p.left # <<>>
          /\ q = [p EXCEPT !.left = Tail(p.left), !.skipped_open_circuit = TRUE]
      BY <1>0, <1>2 DEF SkipUpstream, Asks
    <2>2. /\ q.left = Tail(p.left) /\ q.tried = p.tried /\ q.skipped_open_circuit = TRUE
          /\ q.stage = "selecting" /\ q.failed = p.failed /\ q.attempted = p.attempted
          /\ q.answer = p.answer
      BY <1>0, <2>1 DEF Proxy
    <2>3. Truthful(q)
      BY <1>0, <1>b, <2>1, <2>2 DEF Truthful, Engaged, Attempting
    <2>4. NoneTwice(q)
      BY <1>0, <1>a, <2>1, <2>2, NoneTwiceStep
    <2>5. QED
      BY <2>3, <2>4
  <1>3. CASE BeginAttempt(c)
    <2>1. /\ p.stage = "selecting" /\ p.left # <<>>
          /\ q.left = Tail(p.left) /\ q.tried = Append(p.tried, Head(p.left))
          /\ q.stage = "connecting" /\ q.failed = p.failed /\ q.attempted = TRUE
          /\ q.answer = p.answer
      BY <1>0, <1>3 DEF BeginAttempt, Asks, Proxy
    <2>2. Len(q.tried) = Len(p.tried) + 1
      BY <1>b, <2>1, TailFacts, AppendFacts
    <2>3. Truthful(q)
      BY <1>0, <1>b, <2>1, <2>2 DEF Truthful, Engaged, Attempting
    <2>4. NoneTwice(q)
      BY <1>0, <1>a, <2>1, NoneTwiceStep
    <2>5. QED
      BY <2>3, <2>4
  <1>4. CASE FinishFailure(c)
    <2>1. /\ p.stage = "selecting" /\ p.left = <<>>
          /\ q.left = p.left /\ q.tried = p.tried /\ q.stage = "answered"
          /\ q.failed = p.failed /\ q.attempted = p.attempted
          /\ q.answer = IF ~p.attempted /\ p.skipped_open_circuit THEN "service_unavailable"
                        ELSE "bad_gateway"
      BY <1>0, <1>4 DEF FinishFailure, failure_answer, Proxy
    <2>2. Truthful(q)
      BY <1>0, <1>b, <2>1 DEF Truthful, Engaged, Attempting
    <2>3. QED
      BY <1>c, <2>1, <2>2
  <1>5. CASE TunnelOpens(c) \/ TcpDone(c) \/ TlsDone(c) \/ RequestDone(c)
    <2>1. PICK s \in Engaged : Enter(c, s)
      BY <1>5 DEF TunnelOpens, TcpDone, TlsDone, RequestDone, Engaged, Attempting
    <2>2. p.stage \in Engaged
      BY <1>5 DEF TunnelOpens, TcpDone, TlsDone, RequestDone, Engaged, Attempting
    <2>3. /\ q.left = p.left /\ q.tried = p.tried /\ q.stage \in Engaged
          /\ q.failed = p.failed /\ q.attempted = p.attempted /\ q.answer = p.answer
      BY <1>0, <2>1 DEF Enter, Proxy
    <2>4. Truthful(q)
      BY <1>0, <1>b, <2>2, <2>3 DEF Truthful, Engaged, Attempting
    <2>5. QED
      BY <1>c, <2>3, <2>4
  <1>6. CASE ResponseDone(c)
    <2>1. /\ p.stage = "reading_response"
          /\ q.left = p.left /\ q.tried = p.tried
          /\ q.failed = p.failed /\ q.attempted = p.attempted
          /\ \/ q.stage = "registering" /\ q.answer = p.answer
             \/ q.stage = "answered" /\ q.answer = "upstream"
      BY <1>0, <1>6 DEF ResponseDone, Proxy
    <2>2. Truthful(q)
      BY <1>0, <1>b, <2>1 DEF Truthful, Engaged, Attempting
    <2>3. QED
      BY <1>c, <2>1, <2>2
  <1>7. CASE CloseConnection(c)
    <2>1. q = Idle
      BY <1>0, <1>7 DEF CloseConnection
    <2>2. QED
      BY <2>1, AttemptsBounded DEF Idle, Truthful, NoneTwice, Engaged, Attempting
  <1>8. CASE p.stage \in Attempting \cup {"registering"} /\ fail_reverse_proxy_attempt(c)
    <2>1. /\ q.left = p.left /\ q.tried = p.tried /\ q.stage = "selecting"
          /\ q.failed = p.failed + 1 /\ q.attempted = p.attempted /\ q.answer = p.answer
      BY <1>0, <1>8 DEF fail_reverse_proxy_attempt, Proxy
    <2>2. Truthful(q)
      BY <1>0, <1>8, <1>b, <2>1 DEF Truthful, Engaged, Attempting
    <2>3. QED
      BY <1>c, <2>1, <2>2
  <1>9. QED
    BY <1>1, <1>2, <1>3, <1>4, <1>5, <1>6, <1>7, <1>8 DEF ConnStep

\* The answers tell what happened: 502 after failures only, 503 after no attempt at all,
\* no upstream twice and no more attempts than the retries allow.
THEOREM AnswersTellTruth == Safety => []AnswerTellsTruth
  <1>1. Init => AnswerInv
    BY AttemptsBounded
    DEF Init, Idle, AnswerInv, Truthful, NoneTwice, Engaged, Attempting
  <1>2. TypeOK /\ CurrentKnown /\ AnswerInv /\ [Next]_vars => AnswerInv'
    <2> SUFFICES ASSUME TypeOK, CurrentKnown, AnswerInv, [Next]_vars PROVE AnswerInv'
      OBVIOUS
    <2>0. proxy \in [Conns -> Proxy]
      BY DEF TypeOK
    <2>1. ASSUME NEW c \in Conns, ConnStep(c) PROVE AnswerInv'
      <3>1. \A d \in Conns \ {c} : proxy'[d] = proxy[d]
        BY <2>0, <2>1
        DEF ConnStep, StartForwarding, SkipUpstream, BeginAttempt, FinishFailure, TunnelOpens,
            TcpDone, TlsDone, RequestDone, Enter, ResponseDone, CloseConnection,
            fail_reverse_proxy_attempt
      <3>2. Truthful(proxy'[c]) /\ NoneTwice(proxy'[c])
        BY <2>1, AnswerStep
      <3>3. QED
        BY <3>1, <3>2 DEF AnswerInv
    <2>2. CASE Tick
      <3>1. ASSUME NEW c \in Conns PROVE Truthful(proxy'[c]) /\ NoneTwice(proxy'[c])
        <4>1. \A f \in {"stage", "tried", "left", "failed", "answer", "attempted",
                        "skipped_open_circuit"} : proxy'[c][f] = proxy[c][f]
          BY <2>0, <2>2 DEF Tick, Older, Proxy
        <4>2. Truthful(proxy[c]) /\ NoneTwice(proxy[c])
          BY DEF AnswerInv
        <4>3. /\ proxy'[c].stage = proxy[c].stage /\ proxy'[c].tried = proxy[c].tried
              /\ proxy'[c].left = proxy[c].left /\ proxy'[c].failed = proxy[c].failed
              /\ proxy'[c].answer = proxy[c].answer
              /\ proxy'[c].attempted = proxy[c].attempted
              /\ proxy'[c].skipped_open_circuit = proxy[c].skipped_open_circuit
          BY <4>1
        <4>4. QED
          <5>1. Truthful(proxy'[c])
            BY <4>2, <4>3 DEF Truthful
          <5>2. NoneTwice(proxy'[c])
            BY <4>2, <4>3, SamePlan
          <5>3. QED
            BY <5>1, <5>2
      <3>2. QED
        BY <3>1 DEF AnswerInv
    <2>3. CASE UNCHANGED vars
      BY <2>3 DEF vars, AnswerInv
    <2>4. QED
      BY <2>1, <2>2, <2>3, NextCases
  <1>3. TypeOK /\ AnswerInv => AnswerTellsTruth
    <2> SUFFICES ASSUME TypeOK, AnswerInv, NEW c \in Conns
                 PROVE  LET p == proxy[c]
                        IN  /\ p.answer = "bad_gateway" => p.failed > 0 /\ p.failed = Len(p.tried)
                            /\ p.answer = "service_unavailable" => p.tried = <<>>
                            /\ p.answer = "upstream" => p.failed = Len(p.tried) - 1
                            /\ Len(p.tried) <= retry_count + 1
                            /\ Len(upstreams) > 1 /\ IsInjective(upstreams) => IsInjective(p.tried)
      BY DEF AnswerTellsTruth
    <2>1. Truthful(proxy[c]) /\ NoneTwice(proxy[c])
      BY DEF AnswerInv
    <2>2. proxy[c].tried \in Seq(Upstreams) /\ proxy[c].left \in Seq(Upstreams)
      BY DEF TypeOK, Proxy
    <2>3. Len(proxy[c].tried) <= retry_count + 1
      <3>1. Len(proxy[c].tried) + Len(proxy[c].left) <= bounded_proxy_attempts
        BY <2>1, Zenon DEF NoneTwice
      <3>2. ASSUME NEW a \in Nat, NEW b \in Nat, NEW n \in Nat, NEW m \in Nat, a + b <= n, n <= m + 1
            PROVE  a <= m + 1
        BY <3>2
      <3>3. Len(proxy[c].tried) \in Nat /\ Len(proxy[c].left) \in Nat /\ retry_count \in Nat
        BY <2>2, ProxyAssumption
      <3>4. QED
        BY <3>1, <3>2, <3>3, AttemptsBounded
    <2>4. Distinct => IsInjective(proxy[c].tried)
      <3>1. DOMAIN proxy[c].tried = 1 .. Len(proxy[c].tried)
        BY <2>2
      <3>2. QED
        BY <2>1, <3>1, Zenon DEF NoneTwice, IsInjective
    <2>5. Len(proxy[c].tried) = 0 => proxy[c].tried = <<>>
      BY <2>2
    <2>6. QED
      BY <2>1, <2>3, <2>4, <2>5, Zenon DEF Truthful, Distinct
  <1>4. QED
    BY <1>1, <1>2, <1>3, TypedAndKnown, PTL DEF Safety
=============================================================================
