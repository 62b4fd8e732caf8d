--------------------------- MODULE MCHttpServer ---------------------------
\* One request of every kind the server tells apart.
EXTENDS HttpServer

Asks(t, f, n) == [target |-> t, fault |-> f, size |-> n]
SomeRequests == {Asks("static", "none", 0), Asks("operation", "none", 0), Asks("operation", "none", 1),
                 Asks("operation", "framing", 0), Asks("operation", "credential", 0), Asks("operation", "body", 1)}
=============================================================================
