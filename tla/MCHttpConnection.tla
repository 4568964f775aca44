-------------------------- MODULE MCHttpConnection --------------------------
\* One connection: the server keeps nothing in common between two but a table
\* with one entry for each.
EXTENDS HttpConnection

MCConn == {"a"}
=============================================================================
