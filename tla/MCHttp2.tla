----------------------------- MODULE MCHttp2 -----------------------------
EXTENDS Http2Session

MCSize == [field \in Fields |-> IF field = "good" THEN 2 ELSE 1]

Unfinished(type) ==
    [Frame(type, 1) EXCEPT !.end_headers = FALSE, !.block = <<Plain("good")>>]

MCStrays ==
    {<<Frame("push_promise", 1)>>, <<Frame("malformed", 0)>>, <<Frame("ping", 0)>>,
     <<Frame("goaway", 0)>>, <<Frame("window_update", 0)>>, <<Frame("headers", 2)>>,
     <<Frame("continuation", 1)>>,
     <<Unfinished("headers"), Frame("ping", 0)>>,
     <<Unfinished("headers"), [Unfinished("continuation") EXCEPT !.block = <<>>]>>,
     <<[Frame("headers", 1) EXCEPT !.bad_padding = TRUE]>>,
     <<[Frame("data", 1) EXCEPT !.bad_padding = TRUE]>>,
     <<[Frame("data", 1) EXCEPT !.data = InitialWindow + 1]>>}

ASSUME MCStraysSayNothing == StraysSayNothing
==========================================================================
