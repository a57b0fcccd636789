-------------------------- MODULE MCPendingScripts --------------------------
\* The instance TLC checks: two calls over two scripts, one of them of a turn
\* that no conversation stores.
EXTENDS PendingScripts

CONSTANTS s1, s2, r1, r2

MCScripts == {s1, s2}
MCConversed == {s1}
MCRequests == {r1, r2}
=============================================================================
