-------------------------- MODULE MCNodeConnections --------------------------
\* An instance of NodeConnections for TLC.
EXTENDS NodeConnections

\* One client uploads and sends a second request without waiting for the answer to the first, or
\* less of that; two only connect.
ThePlan == <<<<"put", "body", "get">>, <<>>, <<>>>>
================================================================================
