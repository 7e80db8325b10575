---------------------------- MODULE MCConnection ----------------------------
(***************************************************************************)
(* An HTTP/1.1 connection in two grains: the whole connection with units   *)
(* for bytes (ClientConnection), or the bytes of one chunked body          *)
(* (ChunkedBody).                                                          *)
(***************************************************************************)
EXTENDS ClientConnection, ChunkedBody

VARIABLE grain

MCVars == <<grain, vars, body_vars>>

OneBody == chunks = <<>> /\ trailer = <<>> /\ BodyInit

MCInit ==
    \/ grain = "units" /\ Init /\ OneBody
    \/ grain = "bytes" /\ Init /\ ~tls /\ BodyInit

MCNext ==
    \/ grain = "units" /\ Next /\ UNCHANGED <<grain, body_vars>>
    \/ grain = "bytes" /\ BodyNext /\ UNCHANGED <<grain, vars>>

MCSpec == MCInit /\ [][MCNext]_MCVars /\ (grain = "bytes" \/ Fairness)

\* Data that ends a line, or looks like the end of the body.
LineEnd == <<"CR", "LF">>
LooksLast == <<"0", "CR", "LF", "CR", "LF", "x">>

MCChunks ==
    [form : {"proper"}, line : {<<"1">>, <<"SP", "0", "1">>, <<"1", "LF">>}, data : {<<"x">>}]
      \cup {[form |-> "proper", line |-> <<"2">>, data |-> LineEnd],
            [form |-> "proper", line |-> <<"6">>, data |-> LooksLast],
            [form |-> "proper", line |-> <<"6", ";", "x">>, data |-> LooksLast],
            [form |-> "no_size", line |-> <<"x">>, data |-> <<>>],
            [form |-> "no_end", line |-> <<"1">>, data |-> <<"x">>],
            [form |-> "no_end", line |-> <<"6">>, data |-> LooksLast]}

MCTrailers ==
    {<<>>, <<"x", "CR", "LF">>, <<"x", "CR", "LF", "x", "CR", "LF">>,
     <<"x", "x", "x", "x", "x", "CR", "LF">>, <<"x", "LF", "CR", "LF">>}
=============================================================================
