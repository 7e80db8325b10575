--------------------------- MODULE MCReverseProxy ---------------------------
(* Small instances of ReverseProxy.                                        *)
EXTENDS ReverseProxy

CONSTANTS u1, u2

MCUpstreams == <<u1, u2>>
=============================================================================
