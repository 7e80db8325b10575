--------------------------- MODULE DuplexChannel ---------------------------
(***************************************************************************)
(* What the WebSocket tunnel promises: two streams, one each way, between  *)
(* the client and the one upstream it is linked to.  Every unit arrives    *)
(* once and in the order it was sent; nothing sent by an upstream that was *)
(* given up reaches the client, and nothing is delivered once the channel  *)
(* has been closed.  A channel may be closed at any time, and what has not *)
(* been delivered by then is lost.  Closing is complete when the handler   *)
(* that closes has ended.                                                  *)
(***************************************************************************)
EXTENDS Integers, Sequences

CONSTANTS
    Upstreams,
    NoUpstream

VARIABLES
    link,           \* the upstream the client is linked to
    sent,           \* sent[p]: the number of units party p has sent
    delivered,      \* delivered[side]: the units that have been passed on to that side
    open

vars == <<link, sent, delivered, open>>

Parties == {"client"} \cup Upstreams
Sides == {"client", "upstream"}

\* Who sends what is delivered to a side.
Source(side) == IF side = "client" THEN link ELSE "client"

\* The first n units a party sends.
Stream(p, n) == [i \in 1 .. n |-> <<p, i>>]

Init ==
    /\ link \in Upstreams \cup {NoUpstream}
    /\ sent \in [Parties -> Nat]
    /\ delivered = [side \in Sides |-> <<>>]
    /\ open = TRUE

Send(p) ==
    /\ sent' = [sent EXCEPT ![p] = sent[p] + 1]
    /\ UNCHANGED <<link, delivered, open>>

\* A party is chosen, or given up, before anything has been delivered.
Link(u) ==
    /\ open /\ \A side \in Sides : delivered[side] = <<>>
    /\ link' = u
    /\ UNCHANGED <<sent, delivered, open>>

Deliver(side) ==
    /\ open /\ link # NoUpstream
    /\ \E n \in Len(delivered[side]) + 1 .. sent[Source(side)] :
         delivered' = [delivered EXCEPT ![side] = Stream(Source(side), n)]
    /\ UNCHANGED <<link, sent, open>>

Close ==
    /\ open /\ open' = FALSE
    /\ UNCHANGED <<link, sent, delivered>>

Next ==
    \/ \E p \in Parties : Send(p)
    \/ \E u \in Upstreams \cup {NoUpstream} : Link(u)
    \/ \E side \in Sides : Deliver(side)
    \/ Close

Spec == Init /\ [][Next]_vars
============================================================================
