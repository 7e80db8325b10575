--------------------------- MODULE CircuitBreaker ---------------------------
(***************************************************************************)
(* The passive circuit breaker of virtual_host.cpp: one entry per          *)
(* upstream, in a map all workers share; each operation runs under         *)
(* circuit_breaker_mutex and is one atomic step of its caller.             *)
(*                                                                         *)
(* opened_for is the time left until opened_until: Unset for time_point    *)
(* {}, 0 once it has passed.  no_entry also stands for a key that is not   *)
(* in the map.                                                             *)
(***************************************************************************)
EXTENDS Integers

CONSTANTS
    circuit_breaker_enabled,
    circuit_breaker_failure_threshold,
    circuit_breaker_cooldown_seconds

ASSUME BreakerAssumption ==
    /\ circuit_breaker_enabled \in BOOLEAN
    /\ circuit_breaker_failure_threshold \in Nat
    /\ circuit_breaker_cooldown_seconds \in Nat

Unset == -1

CircuitBreakerEntry ==
    [failure_count : Nat, opened_for : Unset .. circuit_breaker_cooldown_seconds]

no_entry == [failure_count |-> 0, opened_for |-> Unset]

\* now < opened_until
opened(entry) == entry.opened_for > 0

\* Faulty variant: an entry is only looked at once its count says it is open.
available_by_count(entry) ==
    \/ ~circuit_breaker_enabled
    \/ entry.failure_count <= circuit_breaker_failure_threshold

\* What reverse_proxy_upstream_available answers ...
available(entry) == ~circuit_breaker_enabled \/ ~opened(entry)

\* Faulty variant: asking for an open upstream starts its cooldown again.
after_query_restarts(entry) ==
    IF ~circuit_breaker_enabled THEN entry
    ELSE IF opened(entry)
      THEN [entry EXCEPT !.opened_for = circuit_breaker_cooldown_seconds]
    ELSE IF entry.opened_for = 0 THEN no_entry ELSE entry

\* ... and what it leaves behind: an entry whose cooldown has passed is erased.
after_query(entry) ==
    IF circuit_breaker_enabled /\ entry.opened_for = 0 THEN no_entry ELSE entry

\* record_reverse_proxy_upstream_success
after_success(entry) == IF circuit_breaker_enabled THEN no_entry ELSE entry

threshold ==
    IF circuit_breaker_failure_threshold > 1 THEN circuit_breaker_failure_threshold ELSE 1

\* record_reverse_proxy_upstream_failure
after_failure(entry) ==
    IF ~circuit_breaker_enabled THEN entry
    ELSE [failure_count |-> entry.failure_count + 1,
          opened_for |-> IF entry.failure_count + 1 >= threshold
                           THEN circuit_breaker_cooldown_seconds ELSE entry.opened_for]

\* A second later.
aged(entry) == IF opened(entry) THEN [entry EXCEPT !.opened_for = @ - 1] ELSE entry
=============================================================================
