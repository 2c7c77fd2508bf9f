------------------------ MODULE MCPersistenceClient ------------------------
(* Bounded instances of PersistenceClient: a queue of two and more callers  *)
(* than it takes, two of whom call close().                                 *)
EXTENDS PersistenceClient

CONSTANTS r1, r2, x1, x2

MCRequests == {r1, r2, x1, x2}
MCClosers == {x1, x2}

\* A request and a close() that overlap.
FewRequests == {r1, x1}
FewClosers == {x1}
=============================================================================
