------------------------- MODULE MCRuntimeLiveness -------------------------
(***************************************************************************)
(* Two small servers for the liveness properties: one worker whose         *)
(* configuration is reloaded, as the constants say, or two workers that    *)
(* run until a signal or the failure of one of them stops the server.      *)
(***************************************************************************)
EXTENDS MCServerRuntime

VARIABLE instance

MCVars == <<instance, vars>>

Pair == INSTANCE ServerRuntime WITH
    Workers <- {w1, w2}, MaxVersion <- 0, MaxReloads <- 0, MaxCert <- 0,
    TlsEnabled <- FALSE, Config <- [v \in {0} |-> BaseConfig]

MCInit ==
    \/ instance = "reloads" /\ Init
    \/ instance = "pair" /\ Pair!Init

MCNext ==
    \/ instance = "reloads" /\ Next /\ UNCHANGED instance
    \/ instance = "pair" /\ Pair!Next /\ UNCHANGED instance

\* The step of the server that runs: A of the first or B of the second one.
Of(A, B) == (instance = "reloads" /\ A) \/ (instance = "pair" /\ B)

\* The Fairness of the server that runs.
MCFairness ==
    /\ WF_vars(Of(Main, Pair!Main))
    /\ \A w \in {w1, w2} :
         /\ WF_vars(Of(w \in Workers /\ WorkerStep(w), Pair!WorkerStep(w)))
         /\ SF_vars(Of(w \in Workers /\ AcceptEnds(w), Pair!AcceptEnds(w)))
         /\ SF_vars(Of(w \in Workers /\ EpollReturns(w), Pair!EpollReturns(w)))
         /\ WF_vars(Of(w \in Workers /\ DeadlinePasses(w), Pair!DeadlinePasses(w)))

MCSpec == MCInit /\ [][MCNext]_MCVars /\ MCFairness
=============================================================================
