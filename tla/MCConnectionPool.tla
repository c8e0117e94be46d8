-------------------------- MODULE MCConnectionPool --------------------------
(* Small instance of ConnectionPool for TLC: one of each way to wait.      *)
EXTENDS ConnectionPool

\* Together they may hold five of six connections while they wait.
TheKind == [r1 |-> "leave", r2 |-> "day", r3 |-> "credited",
            r4 |-> "payroll", r5 |-> "query", r6 |-> "query"]
TheRequests == DOMAIN TheKind
=============================================================================
