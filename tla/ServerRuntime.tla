--------------------------- MODULE ServerRuntime ---------------------------
(***************************************************************************)
(* The process of rimau-server as its threads see it: Server::run on the   *)
(* main thread (signals, live reload, shutdown), one Worker::run per       *)
(* worker thread (event loop, accept, dispatch, release, timeouts, drain)  *)
(* and the RuntimeControl they share (server.cpp).                         *)
(*                                                                         *)
(* What a connection does between accept and close is the subject of       *)
(* ClientConnection; here a handler either leaves its connection open or   *)
(* leaves it closed.                                                       *)
(***************************************************************************)
EXTENDS SecurityState, FiniteSets

CONSTANTS
    Workers,        \* The worker threads.
    NoWorker,       \* Owner of a connection that is not connected.
    Conns,          \* The TCP connections clients may open, again and again.
    IpOf,           \* IpOf[c]: the client address of c.
    MaxVersion,     \* The database goes through versions 0 .. MaxVersion.
    MaxReloads,     \* Bound: SIGHUP is not sent once this many reloads have been published (0: never).
    MaxCert,        \* The certificate files go through contents 0 .. MaxCert.
    Config,         \* Config[v]: the configuration version v of the database holds.
    TlsEnabled,     \* tls_enabled, which a live reload cannot change.
    PoolSize        \* connection_pool_size, which a live reload cannot change.

Versions == 0 .. MaxVersion
Certs == 0 .. MaxCert

(***************************************************************************)
(* valid   load_config_from_database returns (it throws otherwise)         *)
(* pinned  the values of the keys live_reload_blockers compares            *)
(* tls     the values of the keys tls_runtime_settings_changed compares    *)
(* builds  the TlsContext constructor returns (it throws otherwise)        *)
(***************************************************************************)
ConfigType ==
    [valid : BOOLEAN, pinned : Nat, tls : Nat, builds : BOOLEAN,
     global_connection_limit : Nat, per_ip_connection_limit : Nat,
     ip_blocklist : SUBSET Ips, ip_allowlist : SUBSET Ips]

ASSUME ConstantsAssumption ==
    /\ IsFiniteSet(Workers) /\ NoWorker \notin Workers
    /\ IsFiniteSet(Conns)
    /\ IpOf \in [Conns -> Ips]
    /\ MaxVersion \in Nat /\ MaxReloads \in Nat /\ MaxCert \in Nat /\ PoolSize \in Nat
    /\ Config \in [Versions -> ConfigType]
    /\ Config[0].valid      \* main() has loaded it before Server::run
    /\ TlsEnabled \in BOOLEAN

VARIABLES
    \* The outside world.
    db,                 \* the version the SQLite database holds
    cert_on_disk,       \* the content behind the configured certificate paths
    \* The main thread.
    main,               \* where Server::run is
    config_,            \* Server::config_
    loaded,             \* next_config: the version loaded last
    cert_at_load,       \* history: cert_on_disk when it was loaded
    reload_signal,      \* g_reload_signal_requested
    shutdown_signal,    \* g_shutdown_signal_requested
    \* RuntimeControl.
    live_config, live_tls, generation, shutdown_requested, worker_failed,
    security,
    \* The workers.
    pc,                 \* where Worker::run is
    draining,
    deadline,           \* shutdown_deadline: none, armed or passed
    config_generation,  \* Worker::config_generation_
    seen,               \* the generation refresh_client_configs_if_needed has read
    snapshot,           \* the configuration accept_ready_clients holds
    pool,               \* number of idle objects in the ConnectionPool
    \* The connections.
    conn

world == <<db, cert_on_disk>>
signals == <<reload_signal, shutdown_signal>>
mainVars == <<main, config_, loaded, cert_at_load>>
published == <<live_config, live_tls, generation>>
control == <<shutdown_requested, worker_failed>>
loopVars == <<draining, deadline, config_generation, seen>>
acceptVars == <<snapshot, pool>>
vars == <<world, signals, mainVars, published, control, security, pc, loopVars,
          acceptVars, conn>>

TlsContext == [ver : Versions, cert : Certs]

MainSteps == {"install", "boot", "loop", "load", "tls", "publish", "bump",
              "check", "join", "done"}

WorkerSteps == {"unborn", "starting", "top", "wait", "refresh", "refreshing",
                "accept", "admit", "open", "handle", "release", "expire",
                "release_expired", "closing", "stopped", "failed"}

(***************************************************************************)
(* idle      not connected                                                 *)
(* backlog   in the accept queue of a worker's listener                    *)
(* accepted  returned by accept4, not admitted yet                         *)
(* admitted  counted by try_open_connection, not in clients_ yet           *)
(* open      in clients_                                                   *)
(* closed    in clients_, in phase closed                                  *)
(* leaked    its worker failed: the socket is gone, the count is not       *)
(***************************************************************************)
ConnStates == {"idle", "backlog", "accepted", "admitted", "open", "closed", "leaked"}

Connection == [st : ConnStates, owner : Workers \cup {NoWorker},
               cfg : Versions, tls : TlsContext]

NoTls == [ver |-> 0, cert |-> 0]
Vacant == [st |-> "idle", owner |-> NoWorker, cfg |-> 0, tls |-> NoTls]

TypeOK ==
    /\ db \in Versions /\ cert_on_disk \in Certs
    /\ main \in MainSteps
    /\ config_ \in Versions /\ loaded \in Versions /\ cert_at_load \in Certs
    /\ reload_signal \in BOOLEAN /\ shutdown_signal \in BOOLEAN
    /\ live_config \in Versions /\ live_tls \in TlsContext /\ generation \in Nat
    /\ shutdown_requested \in BOOLEAN /\ worker_failed \in BOOLEAN
    /\ security \in Counters
    /\ pc \in [Workers -> WorkerSteps]
    /\ draining \in [Workers -> BOOLEAN]
    /\ deadline \in [Workers -> {"none", "armed", "passed"}]
    /\ config_generation \in [Workers -> Nat]
    /\ seen \in [Workers -> Nat]
    /\ snapshot \in [Workers -> Versions]
    /\ pool \in [Workers -> 0 .. PoolSize]
    /\ conn \in [Conns -> Connection]

Init ==
    /\ db = 0 /\ cert_on_disk = 0
    /\ main = "install" /\ config_ = 0 /\ loaded = 0 /\ cert_at_load = 0
    /\ reload_signal = FALSE /\ shutdown_signal = FALSE
    /\ live_config = 0 /\ live_tls = NoTls /\ generation = 0
    /\ shutdown_requested = FALSE /\ worker_failed = FALSE
    /\ security = no_connections
    /\ pc = [w \in Workers |-> "unborn"]
    /\ draining = [w \in Workers |-> FALSE]
    /\ deadline = [w \in Workers |-> "none"]
    /\ config_generation = [w \in Workers |-> 0]
    /\ seen = [w \in Workers |-> 0]
    /\ snapshot = [w \in Workers |-> 0]
    /\ pool = [w \in Workers |-> 0]
    /\ conn = [c \in Conns |-> Vacant]

----------------------------------------------------------------------------
(* The outside world: an administrator, the signals, the clients, time.    *)

UpdateDatabase ==
    /\ db < MaxVersion
    /\ db' = db + 1
    /\ UNCHANGED <<cert_on_disk, signals, mainVars, published, control, security,
                   pc, loopVars, acceptVars, conn>>

RotateCertificate ==
    /\ cert_on_disk < MaxCert
    /\ cert_on_disk' = cert_on_disk + 1
    /\ UNCHANGED <<db, signals, mainVars, published, control, security, pc,
                   loopVars, acceptVars, conn>>

\* handle_runtime_signal
SendSighup ==
    /\ main # "done" /\ MaxReloads > 0 /\ generation <= MaxReloads
    /\ reload_signal' = TRUE
    /\ UNCHANGED <<world, shutdown_signal, mainVars, published, control, security,
                   pc, loopVars, acceptVars, conn>>

SendSigterm ==
    /\ main # "done"
    /\ shutdown_signal' = TRUE
    /\ UNCHANGED <<world, reload_signal, mainVars, published, control, security,
                   pc, loopVars, acceptVars, conn>>

\* The listener of w is bound from create_listener to stop_accepting.
Listening(w) == ~draining[w] /\ pc[w] \notin {"unborn", "starting", "stopped", "failed"}

Connect(c, w) ==
    /\ conn[c].st = "idle"
    /\ Listening(w)
    /\ conn' = [conn EXCEPT ![c] = [Vacant EXCEPT !.st = "backlog", !.owner = w]]
    /\ UNCHANGED <<world, signals, mainVars, published, control, security, pc,
                   loopVars, acceptVars>>

DeadlinePasses(w) ==
    /\ deadline[w] = "armed"
    /\ deadline' = [deadline EXCEPT ![w] = "passed"]
    /\ UNCHANGED <<world, signals, mainVars, published, control, security, pc,
                   draining, config_generation, seen, acceptVars, conn>>

----------------------------------------------------------------------------
(* The main thread: Server::run.                                           *)

MainGoto(from, to) == main = from /\ main' = to

\* The flags are zeroed after the handlers are installed.
ZeroSignalFlags ==
    /\ MainGoto("install", "boot")
    /\ reload_signal' = FALSE /\ shutdown_signal' = FALSE
    /\ UNCHANGED <<world, config_, loaded, cert_at_load, published, control,
                   security, pc, loopVars, acceptVars, conn>>

\* No other thread exists until the workers are created at the end of this step.
StartServing ==
    /\ MainGoto("boot", "loop")
    /\ live_config' = config_
    /\ generation' = generation + 1
    /\ live_tls' = IF TlsEnabled THEN [ver |-> config_, cert |-> cert_on_disk] ELSE NoTls
    /\ pc' = [w \in Workers |-> "starting"]
    /\ UNCHANGED <<world, signals, config_, loaded, cert_at_load, control, security,
                   loopVars, acceptVars, conn>>

\* The head of the 100 ms loop.  The flag is cleared before the database is read.
TakeReload ==
    /\ ~shutdown_requested /\ reload_signal
    /\ MainGoto("loop", "load")
    /\ reload_signal' = FALSE
    /\ UNCHANGED <<world, shutdown_signal, config_, loaded, cert_at_load, published,
                   control, security, pc, loopVars, acceptVars, conn>>

NoReload ==
    /\ ~shutdown_requested /\ ~reload_signal
    /\ MainGoto("loop", "check")
    /\ UNCHANGED <<world, signals, config_, loaded, cert_at_load, published, control,
                   security, pc, loopVars, acceptVars, conn>>

LeaveLoop ==
    /\ shutdown_requested
    /\ MainGoto("loop", "join")
    /\ UNCHANGED <<world, signals, config_, loaded, cert_at_load, published, control,
                   security, pc, loopVars, acceptVars, conn>>

\* load_config_from_database: every key, and the keys together, are acceptable.
loads(version) == Config[version].valid

live_reload_blocked(current, next) == Config[current].pinned # Config[next].pinned

tls_runtime_settings_changed(current, next) == Config[current].tls # Config[next].tls

\* Faulty variant: the configuration is published before the TLS context is built.
LoadConfigPublishesEarly ==
    LET next == db
    IN  /\ main = "load"
        /\ loaded' = next /\ cert_at_load' = cert_on_disk
        /\ IF ~loads(next) \/ live_reload_blocked(config_, next)
             THEN main' = "check" /\ UNCHANGED live_config
             ELSE /\ main' = IF TlsEnabled /\ tls_runtime_settings_changed(config_, next)
                               THEN "tls" ELSE "publish"
                  /\ live_config' = next
        /\ UNCHANGED <<world, signals, config_, live_tls, generation, control, security,
                       pc, loopVars, acceptVars, conn>>

\* load_config_from_database, then live_reload_blockers.
LoadConfig ==
    LET next == db
    IN  /\ main = "load"
        /\ loaded' = next /\ cert_at_load' = cert_on_disk
        /\ main' = IF ~loads(next) \/ live_reload_blocked(config_, next) THEN "check"
                   ELSE IF TlsEnabled /\ tls_runtime_settings_changed(config_, next) THEN "tls"
                   ELSE "publish"
        /\ UNCHANGED <<world, signals, config_, published, control, security, pc,
                       loopVars, acceptVars, conn>>

PublishTls ==
    /\ Config[loaded].builds
    /\ MainGoto("tls", "publish")
    /\ live_tls' = [ver |-> loaded, cert |-> cert_on_disk]
    /\ UNCHANGED <<world, signals, config_, loaded, cert_at_load, live_config,
                   generation, control, security, pc, loopVars, acceptVars, conn>>

\* Faulty variant: the exception is caught around the TLS context alone.
BuildTlsFailsGoesOn ==
    /\ ~Config[loaded].builds
    /\ MainGoto("tls", "publish")
    /\ UNCHANGED <<world, signals, config_, loaded, cert_at_load, published, control,
                   security, pc, loopVars, acceptVars, conn>>

\* The TlsContext constructor throws: nothing has been published yet.
BuildTlsFails ==
    /\ ~Config[loaded].builds
    /\ MainGoto("tls", "check")
    /\ UNCHANGED <<world, signals, config_, loaded, cert_at_load, published, control,
                   security, pc, loopVars, acceptVars, conn>>

\* publish_config, first half: the store of live_config.
PublishConfig ==
    /\ MainGoto("publish", "bump")
    /\ config_' = loaded
    /\ live_config' = loaded
    /\ UNCHANGED <<world, signals, loaded, cert_at_load, live_tls, generation,
                   control, security, pc, loopVars, acceptVars, conn>>

\* Faulty variant: publish_config does not tell the workers.
BumpGenerationMissing ==
    /\ MainGoto("bump", "check")
    /\ UNCHANGED <<world, signals, config_, loaded, cert_at_load, published, control,
                   security, pc, loopVars, acceptVars, conn>>

\* publish_config, second half: the increment of config_generation.
BumpGeneration ==
    /\ MainGoto("bump", "check")
    /\ generation' = generation + 1
    /\ UNCHANGED <<world, signals, config_, loaded, cert_at_load, live_config, live_tls,
                   control, security, pc, loopVars, acceptVars, conn>>

RequestShutdown ==
    /\ shutdown_signal
    /\ MainGoto("check", "join")
    /\ shutdown_requested' = TRUE
    /\ UNCHANGED <<world, signals, config_, loaded, cert_at_load, published,
                   worker_failed, security, pc, loopVars, acceptVars, conn>>

\* Faulty variant: both flags are reset on every round.
SleepResetsFlags ==
    /\ ~shutdown_signal
    /\ MainGoto("check", "loop")
    /\ reload_signal' = FALSE
    /\ UNCHANGED <<world, shutdown_signal, config_, loaded, cert_at_load, published,
                   control, security, pc, loopVars, acceptVars, conn>>

Sleep ==
    /\ ~shutdown_signal
    /\ MainGoto("check", "loop")
    /\ UNCHANGED <<world, signals, config_, loaded, cert_at_load, published, control,
                   security, pc, loopVars, acceptVars, conn>>

\* The jthreads are joined when run returns.
JoinWorkers ==
    /\ \A w \in Workers : pc[w] \in {"stopped", "failed"}
    /\ MainGoto("join", "done")
    /\ UNCHANGED <<world, signals, config_, loaded, cert_at_load, published, control,
                   security, pc, loopVars, acceptVars, conn>>

Main ==
    \/ ZeroSignalFlags \/ StartServing
    \/ TakeReload \/ NoReload \/ LeaveLoop
    \/ LoadConfig \/ PublishTls \/ BuildTlsFails \/ PublishConfig \/ BumpGeneration
    \/ RequestShutdown \/ Sleep \/ JoinWorkers

----------------------------------------------------------------------------
(* A worker thread: Worker::run.                                           *)

Goto(w, from, to) == pc[w] = from /\ pc' = [pc EXCEPT ![w] = to]

clients_(w) == {c \in Conns : conn[c].owner = w /\ conn[c].st \in {"open", "closed"}}

\* The connections of w after its listener has been closed.
WithoutBacklog(w) ==
    [c \in Conns |-> IF conn[c].owner = w /\ conn[c].st = "backlog" THEN Vacant ELSE conn[c]]

\* epoll_create1 and create_listener succeed.
StartWorker(w) ==
    /\ Goto(w, "starting", "top")
    /\ UNCHANGED <<world, signals, mainVars, published, control, security, loopVars,
                   acceptVars, conn>>

\* Faulty variant: the catch clause of the thread only notes the failure.
WorkerFailsAlone(w) ==
    /\ pc[w] \in {"starting", "wait", "handle", "expire"}
    /\ pc' = [pc EXCEPT ![w] = "failed"]
    /\ worker_failed' = TRUE
    /\ conn' = [c \in Conns |-> IF c \in clients_(w) THEN [conn[c] EXCEPT !.st = "leaked"]
                                ELSE WithoutBacklog(w)[c]]
    /\ UNCHANGED <<world, signals, mainVars, published, shutdown_requested, security,
                   loopVars, acceptVars>>

\* An exception leaves Worker::run: from its start, from epoll_wait or from a
\* handler.  The thread's catch clause stops the server; ~Worker closes the
\* sockets in clients_ without telling SecurityState.
WorkerFails(w) ==
    /\ pc[w] \in {"starting", "wait", "handle", "expire"}
    /\ pc' = [pc EXCEPT ![w] = "failed"]
    /\ worker_failed' = TRUE /\ shutdown_requested' = TRUE
    /\ conn' = [c \in Conns |-> IF c \in clients_(w) THEN [conn[c] EXCEPT !.st = "leaked"]
                                ELSE WithoutBacklog(w)[c]]
    /\ UNCHANGED <<world, signals, mainVars, published, security, loopVars, acceptVars>>

\* Faulty variant: shutdown_deadline keeps its initial value, time_point::max().
BeginDrainingWithoutDeadline(w) ==
    /\ pc[w] = "top" /\ shutdown_requested /\ ~draining[w]
    /\ draining' = [draining EXCEPT ![w] = TRUE]
    /\ conn' = WithoutBacklog(w)
    /\ UNCHANGED <<world, signals, mainVars, published, control, security, pc,
                   deadline, config_generation, seen, acceptVars>>

\* The head of the loop, in four cases.  stop_requested() implies
\* shutdown_requested, so only the latter is read here.
BeginDraining(w) ==
    /\ pc[w] = "top" /\ shutdown_requested /\ ~draining[w]
    /\ draining' = [draining EXCEPT ![w] = TRUE]
    /\ deadline' = [deadline EXCEPT ![w] = "armed"]
    /\ conn' = WithoutBacklog(w)
    /\ UNCHANGED <<world, signals, mainVars, published, control, security, pc,
                   config_generation, seen, acceptVars>>

\* Both ways out of the loop lead to close_all_clients.
StopDrained(w) ==
    /\ draining[w] /\ clients_(w) = {}
    /\ Goto(w, "top", "closing")
    /\ UNCHANGED <<world, signals, mainVars, published, control, security, loopVars,
                   acceptVars, conn>>

CloseAtDeadline(w) ==
    /\ draining[w] /\ clients_(w) # {} /\ deadline[w] = "passed"
    /\ Goto(w, "top", "closing")
    /\ UNCHANGED <<world, signals, mainVars, published, control, security, loopVars,
                   acceptVars, conn>>

EnterWait(w) ==
    /\ IF draining[w] THEN clients_(w) # {} /\ deadline[w] # "passed"
                      ELSE ~shutdown_requested
    /\ Goto(w, "top", "wait")
    /\ UNCHANGED <<world, signals, mainVars, published, control, security, loopVars,
                   acceptVars, conn>>

\* epoll_wait returns a number of events, 0 on its timeout.
EpollReturns(w) ==
    /\ Goto(w, "wait", "refresh")
    /\ UNCHANGED <<world, signals, mainVars, published, control, security, loopVars,
                   acceptVars, conn>>

EpollInterrupted(w) ==
    /\ Goto(w, "wait", "top")
    /\ UNCHANGED <<world, signals, mainVars, published, control, security, loopVars,
                   acceptVars, conn>>

\* A draining worker skips the listener events.
AfterRefresh(w) == IF draining[w] THEN "handle" ELSE "accept"

\* refresh_client_configs_if_needed: nothing new.
RefreshSkipped(w) ==
    /\ config_generation[w] = generation
    /\ Goto(w, "refresh", AfterRefresh(w))
    /\ UNCHANGED <<world, signals, mainVars, published, control, security, loopVars,
                   acceptVars, conn>>

\* refresh_client_configs_if_needed reads the generation first ...
RefreshBegins(w) ==
    /\ config_generation[w] # generation
    /\ Goto(w, "refresh", "refreshing")
    /\ seen' = [seen EXCEPT ![w] = generation]
    /\ UNCHANGED <<world, signals, mainVars, published, control, security, draining,
                   deadline, config_generation, acceptVars, conn>>

\* ... and the configuration after it.
RefreshApplies(w) ==
    /\ Goto(w, "refreshing", AfterRefresh(w))
    /\ conn' = [c \in Conns |-> IF c \in clients_(w) THEN [conn[c] EXCEPT !.cfg = live_config]
                                ELSE conn[c]]
    /\ config_generation' = [config_generation EXCEPT ![w] = seen[w]]
    /\ seen' = [seen EXCEPT ![w] = 0]
    /\ UNCHANGED <<world, signals, mainVars, published, control, security, draining,
                   deadline, acceptVars>>

\* accept_ready_clients: accept4 returns a socket, and config_snapshot() is taken.
AcceptClient(w, c) ==
    /\ conn[c].st = "backlog" /\ conn[c].owner = w
    /\ Goto(w, "accept", "admit")
    /\ snapshot' = [snapshot EXCEPT ![w] = live_config]
    /\ conn' = [conn EXCEPT ![c].st = "accepted"]
    /\ UNCHANGED <<world, signals, mainVars, published, control, security, loopVars, pool>>

\* accept4 would block, fails, or no listener event was reported.
AcceptEnds(w) ==
    /\ Goto(w, "accept", "handle")
    /\ UNCHANGED <<world, signals, mainVars, published, control, security, loopVars,
                   acceptVars, conn>>

\* Faulty variant: the decision is taken by a configuration that is read again.
AdmitByLiveConfig(w, c) ==
    /\ conn[c].st = "accepted" /\ conn[c].owner = w
    /\ admits(security, IpOf[c], Config[live_config])
    /\ Goto(w, "admit", "open")
    /\ security' = open_connection(security, IpOf[c])
    /\ conn' = [conn EXCEPT ![c].st = "admitted"]
    /\ UNCHANGED <<world, signals, mainVars, published, control, loopVars, acceptVars>>

\* try_open_connection, under the mutex of SecurityState.
Admit(w, c) ==
    /\ conn[c].st = "accepted" /\ conn[c].owner = w
    /\ admits(security, IpOf[c], Config[snapshot[w]])
    /\ Goto(w, "admit", "open")
    /\ security' = open_connection(security, IpOf[c])
    /\ conn' = [conn EXCEPT ![c].st = "admitted"]
    /\ UNCHANGED <<world, signals, mainVars, published, control, loopVars, acceptVars>>

Reject(w, c) ==
    /\ conn[c].st = "accepted" /\ conn[c].owner = w
    /\ ~admits(security, IpOf[c], Config[snapshot[w]])
    /\ Goto(w, "admit", "accept")
    /\ snapshot' = [snapshot EXCEPT ![w] = 0]
    /\ conn' = [conn EXCEPT ![c] = Vacant]
    /\ UNCHANGED <<world, signals, mainVars, published, control, security, loopVars, pool>>

acquire(n) == IF n = 0 THEN 0 ELSE n - 1

\* Faulty variant: max_idle_ is not enforced.
release_unbounded(n) == n + 1

release(n) == IF n < PoolSize THEN n + 1 ELSE n

\* connection_pool_.acquire(), reset() with the TLS context of this moment,
\* add_client_to_epoll, emplace.
OpenClient(w, c) ==
    /\ conn[c].st = "admitted" /\ conn[c].owner = w
    /\ Goto(w, "open", "accept")
    /\ conn' = [conn EXCEPT ![c] = [st |-> "open", owner |-> w, cfg |-> snapshot[w],
                                    tls |-> live_tls]]
    /\ snapshot' = [snapshot EXCEPT ![w] = 0]
    /\ pool' = [pool EXCEPT ![w] = acquire(@)]
    /\ UNCHANGED <<world, signals, mainVars, published, control, security, loopVars>>

\* Faulty variant: the catch clause forgets the counters.
OpenFailsKeepsCount(w, c) ==
    /\ conn[c].st = "admitted" /\ conn[c].owner = w
    /\ Goto(w, "open", "accept")
    /\ conn' = [conn EXCEPT ![c] = Vacant]
    /\ snapshot' = [snapshot EXCEPT ![w] = 0]
    /\ pool' = [pool EXCEPT ![w] = release(acquire(@))]
    /\ UNCHANGED <<world, signals, mainVars, published, control, security, loopVars>>

\* SSL_new or epoll_ctl throws, and the catch clause of accept_ready_clients runs.
OpenFails(w, c) ==
    /\ conn[c].st = "admitted" /\ conn[c].owner = w
    /\ Goto(w, "open", "accept")
    /\ security' = close_connection(security, IpOf[c])
    /\ conn' = [conn EXCEPT ![c] = Vacant]
    /\ snapshot' = [snapshot EXCEPT ![w] = 0]
    /\ pool' = [pool EXCEPT ![w] = release(acquire(@))]
    /\ UNCHANGED <<world, signals, mainVars, published, control, loopVars>>

\* handle or handle_upstream leaves the connection closed.
HandlerCloses(w, c) ==
    /\ pc[w] = "handle"
    /\ conn[c].st = "open" /\ conn[c].owner = w
    /\ conn' = [conn EXCEPT ![c].st = "closed"]
    /\ UNCHANGED <<world, signals, mainVars, published, control, security, pc,
                   loopVars, acceptVars>>

HandleEnds(w) ==
    /\ Goto(w, "handle", "release")
    /\ UNCHANGED <<world, signals, mainVars, published, control, security, loopVars,
                   acceptVars, conn>>

\* enforce_client_timeouts: expire_if_timed_out leaves the connection closed.
TimeoutCloses(w, c) ==
    /\ pc[w] = "expire"
    /\ conn[c].st = "open" /\ conn[c].owner = w
    /\ conn' = [conn EXCEPT ![c].st = "closed"]
    /\ UNCHANGED <<world, signals, mainVars, published, control, security, pc,
                   loopVars, acceptVars>>

ExpireEnds(w) ==
    /\ Goto(w, "expire", "release_expired")
    /\ UNCHANGED <<world, signals, mainVars, published, control, security, loopVars,
                   acceptVars, conn>>

\* release_client for a closed client, or for any client from close_all_clients.
ReleaseClient(w, c) ==
    /\ \/ pc[w] \in {"release", "release_expired"} /\ conn[c].st = "closed"
       \/ pc[w] = "closing" /\ conn[c].st \in {"open", "closed"}
    /\ conn[c].owner = w
    /\ security' = close_connection(security, IpOf[c])
    /\ conn' = [conn EXCEPT ![c] = Vacant]
    /\ pool' = [pool EXCEPT ![w] = release(@)]
    /\ UNCHANGED <<world, signals, mainVars, published, control, pc, loopVars, snapshot>>

ReleaseEnds(w) ==
    /\ \A c \in clients_(w) : conn[c].st # "closed"
    /\ Goto(w, "release", "expire")
    /\ UNCHANGED <<world, signals, mainVars, published, control, security, loopVars,
                   acceptVars, conn>>

ReleaseExpiredEnds(w) ==
    /\ \A c \in clients_(w) : conn[c].st # "closed"
    /\ Goto(w, "release_expired", "top")
    /\ UNCHANGED <<world, signals, mainVars, published, control, security, loopVars,
                   acceptVars, conn>>

\* Faulty variant: close_all_clients may leave clients in the map.
CloseAllStopsShort(w) ==
    /\ Goto(w, "closing", "stopped")
    /\ UNCHANGED <<world, signals, mainVars, published, control, security, loopVars,
                   acceptVars, conn>>

CloseAllEnds(w) ==
    /\ clients_(w) = {}
    /\ Goto(w, "closing", "stopped")
    /\ UNCHANGED <<world, signals, mainVars, published, control, security, loopVars,
                   acceptVars, conn>>

\* The steps a worker takes on its own, without a failure.
WorkerStep(w) ==
    \/ StartWorker(w) \/ BeginDraining(w) \/ StopDrained(w) \/ CloseAtDeadline(w)
    \/ EnterWait(w) \/ EpollReturns(w)
    \/ RefreshSkipped(w) \/ RefreshBegins(w) \/ RefreshApplies(w)
    \/ AcceptEnds(w) \/ HandleEnds(w) \/ ExpireEnds(w)
    \/ ReleaseEnds(w) \/ ReleaseExpiredEnds(w) \/ CloseAllEnds(w)
    \/ \E c \in Conns :
         \/ AcceptClient(w, c) \/ Admit(w, c) \/ Reject(w, c)
         \/ OpenClient(w, c) \/ OpenFails(w, c) \/ ReleaseClient(w, c)

Worker(w) ==
    \/ WorkerStep(w)
    \/ EpollInterrupted(w) \/ WorkerFails(w)
    \/ \E c \in Conns : HandlerCloses(w, c) \/ TimeoutCloses(w, c)

Environment ==
    \/ UpdateDatabase \/ RotateCertificate \/ SendSighup \/ SendSigterm
    \/ \E w \in Workers : DeadlinePasses(w) \/ \E c \in Conns : Connect(c, w)

\* The process has ended.
Terminated == main = "done" /\ UNCHANGED vars

Next == Main \/ (\E w \in Workers : Worker(w)) \/ Environment \/ Terminated

Safety == Init /\ [][Next]_vars

(***************************************************************************)
(* Fairness: the threads keep running, the clock does not stop, and the    *)
(* clients do not connect faster than accept4 returns them for ever, so    *)
(* that every accept loop ends.  Nothing is assumed of signals, clients,   *)
(* the administrator, failures or interrupted waits, except that           *)
(* epoll_wait is not interrupted for ever.                                 *)
(***************************************************************************)
Fairness ==
    /\ WF_vars(Main)
    /\ \A w \in Workers :
         /\ WF_vars(WorkerStep(w))
         /\ SF_vars(AcceptEnds(w))
         /\ SF_vars(EpollReturns(w))
         /\ WF_vars(DeadlinePasses(w))

Spec == Safety /\ Fairness

----------------------------------------------------------------------------
(* Properties.                                                             *)

\* The connections try_open_connection has counted and nobody has given back.
Counted == {c \in Conns : conn[c].st \in {"admitted", "open", "closed", "leaked"}}

CountedFrom(ip) == {c \in Counted : IpOf[c] = ip}

(***************************************************************************)
(* The counters of SecurityState are exact: whatever the interleaving of   *)
(* workers accepting, failing to register, releasing, timing out and       *)
(* draining, every admitted connection is given back exactly once.  Only   *)
(* the connections of a failed worker stay counted.                        *)
(***************************************************************************)
CountersExact ==
    /\ security.total = Cardinality(Counted)
    /\ \A ip \in Ips : security.by_ip[ip] = Cardinality(CountedFrom(ip))

(***************************************************************************)
(* Workers that admit at the same time never take the server past the      *)
(* largest limit any version of the configuration has allowed, in total or *)
(* for one address: the check and the increment of try_open_connection are *)
(* one critical section.                                                   *)
(***************************************************************************)
LimitsRespected ==
    /\ Counted # {} =>
         \E v \in Versions : Cardinality(Counted) <= Config[v].global_connection_limit
    /\ \A ip \in Ips : CountedFrom(ip) # {} =>
         \E v \in Versions :
            Cardinality(CountedFrom(ip)) <= Config[v].per_ip_connection_limit

\* The connections between accept4 and try_open_connection, each with the
\* configuration accept_ready_clients holds for it.
Undecided ==
    {r \in Conns \X Versions : conn[r[1]].st = "accepted" /\ snapshot[conn[r[1]].owner] = r[2]}

(***************************************************************************)
(* The workers together are one AdmissionControl: although each takes its  *)
(* snapshot of the configuration, decides and gives back on its own while  *)
(* the main thread publishes others, a connection is taken or turned away  *)
(* exactly as the configuration of its arrival says of the connections     *)
(* that are live when it is decided.                                       *)
(***************************************************************************)
Admission == INSTANCE AdmissionControl WITH
    policy <- live_config, waiting <- Undecided, live <- Counted

ImplementsAdmissionControl == Admission!Spec

(***************************************************************************)
(* A stale client is a noticed one: when a client of a worker holds        *)
(* another configuration than the live one, the worker's generation is     *)
(* behind, or is about to be (publish_config stores the configuration      *)
(* first and bumps the generation second; the worker reads them in the     *)
(* opposite order).                                                        *)
(***************************************************************************)
StaleClientsNoticed ==
    \A w \in Workers :
       (config_generation[w] = generation /\ main # "bump")
          => \A c \in clients_(w) : conn[c].cfg = live_config

(***************************************************************************)
(* A live reload is all or nothing: the configuration in force is one that *)
(* loads and differs from the initial one in no key that needs a restart,  *)
(* and outside the two publishing steps the TLS context in force was built *)
(* from its TLS settings.                                                  *)
(***************************************************************************)
ReloadAllOrNothing ==
    main \notin {"install", "boot"} =>
      /\ Config[live_config].valid
      /\ Config[live_config].pinned = Config[0].pinned
      /\ TlsEnabled /\ main # "publish" => Config[live_tls.ver].tls = Config[live_config].tls

\* The context t was built from the TLS settings of version v or from a later version.
TlsCovers(t, v) == t.ver > v \/ Config[t.ver].tls = Config[v].tls

(***************************************************************************)
(* A connection never starts with a TLS context older than the             *)
(* configuration it starts with, although accept_ready_clients reads the   *)
(* two at different times while the main thread replaces both.             *)
(***************************************************************************)
TlsNotOlderThanConfig ==
    [][\A c \in Conns :
         (TlsEnabled /\ conn[c].st = "admitted" /\ conn'[c].st = "open")
            => TlsCovers(conn'[c].tls, conn'[c].cfg)]_vars

(***************************************************************************)
(* A shutdown without a failed worker gives every connection back and      *)
(* leaves no client behind in the accept queue of a dead listener.         *)
(***************************************************************************)
CleanShutdown ==
    main = "done" =>
      /\ \A c \in Conns : conn[c].st \in {"idle", "leaked"}
      /\ ~worker_failed => security = no_connections

(***************************************************************************)
(* A SIGHUP that finds the main loop running is never lost: a database     *)
(* version at least as new as the one the signal was sent for is loaded,   *)
(* unless the server is stopping.                                          *)
(***************************************************************************)
ReloadHandled ==
    \A v \in Versions :
      (reload_signal /\ db = v /\ main \notin {"install", "boot"})
         ~> (loaded >= v \/ shutdown_requested)

(***************************************************************************)
(* Every connected client of a worker that keeps running gets the live     *)
(* configuration, in spite of further reloads and of the connections the   *)
(* worker accepts meanwhile.                                               *)
(***************************************************************************)
ClientsLearnConfig ==
    \A c \in Conns :
      (conn[c].st = "open" /\ conn[c].cfg # live_config)
         ~> (conn[c].st # "open" \/ conn[c].cfg = live_config)

(***************************************************************************)
(* A shutdown that has been requested ends: every worker drains or reaches *)
(* its deadline, whatever its clients do, and the main thread joins them.  *)
(***************************************************************************)
ShutdownCompletes == shutdown_requested ~> main = "done"

(***************************************************************************)
(* A worker that dies takes the whole server down instead of leaving it    *)
(* running with one listener less.                                         *)
(***************************************************************************)
FailureStopsServer == worker_failed ~> main = "done"

(***************************************************************************)
(* docs/plans/022-production-certificate-management.md:111-114 rotates a   *)
(* certificate by switching a symlink behind the configured paths and      *)
(* sending SIGHUP: an accepted reload would serve the files' content.      *)
(***************************************************************************)
AcceptedReloadServesCertificate ==
    [][(TlsEnabled /\ main = "bump" /\ main' = "check") => live_tls.cert >= cert_at_load]_vars
============================================================================
