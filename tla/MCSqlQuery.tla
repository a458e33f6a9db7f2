----------------------------- MODULE MCSqlQuery -----------------------------
(* A small instance of SqlQuery.                                            *)
EXTENDS SqlQuery

\* A number that makes Sleep return at once, a short wait and a long one.
MCRetryAfter == {-1, 1, 3}
=============================================================================
