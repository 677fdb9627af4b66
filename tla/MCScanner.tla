----------------------------- MODULE MCScanner -----------------------------
EXTENDS Scanner

CONSTANTS dns, web     \* a name server and a web server
MCKind == [h \in Hosts |-> [source |-> IF h = dns THEN "ns" ELSE "gen",
                         name |-> IF h = web THEN "www" ELSE "other"]]
=============================================================================
