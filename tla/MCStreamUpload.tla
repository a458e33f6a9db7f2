--------------------------- MODULE MCStreamUpload ---------------------------
(* Small instances of StreamUpload.                                         *)
EXTENDS StreamUpload, TLC

CONSTANTS ipA, ipB, prt, s1, s2

On(id, ip) == [id |-> id, ip |-> ip, port |-> prt]

\* One slot on either server, two slots on one server, and the first slot gone:
\* rescheduling, growth, shrinking and a slot that has left the list.
MCRoutes == {<<On(s1, ipA)>>, <<On(s1, ipB)>>, <<On(s1, ipB), On(s2, ipA)>>,
             <<On(s2, ipB)>>}
MCRoutesLive == {<<On(s1, ipA)>>, <<On(s1, ipB)>>}

Symm == Permutations(Writers) \cup Permutations(Records)
=============================================================================
