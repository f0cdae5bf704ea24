-------------------------------- MODULE MCHttp --------------------------------
(* The HTTP client and server for TLC. *)
EXTENDS Http, TLC

Asks(t, m, c, b) == [type |-> t, minor |-> m, conn |-> c, bad |-> b]

\* A POST on a connection that may persist, and behind it a GET whose URI is
\* malformed; or a GET of an HTTP/1.0 client that keeps the connection, whose
\* callback asks for something nobody serves.
MCScenario ==
    {[ask |-> <<Asks("POST", 1, "none", FALSE), Asks("GET", 1, "close", TRUE)>>,
      next |-> <<0, 0>>, served |-> {1}],
     [ask |-> <<Asks("GET", 0, "keep-alive", FALSE), Asks("GET", 0, "none", FALSE)>>,
      next |-> <<2, 0>>, served |-> {1}]}
\* One request to a server that does not answer.
OneRequest ==
    {[ask |-> <<Asks("GET", 1, "none", FALSE)>>, next |-> <<0>>, served |-> {}]}
Unlimited == -1
=============================================================================
