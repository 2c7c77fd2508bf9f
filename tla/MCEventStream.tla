--------------------------- MODULE MCEventStream ---------------------------
(* Bounded instance of EventStream: fewer retained notifications and fewer  *)
(* buffered frames than are published, and two consumers whose lost         *)
(* connections compete with their new ones for the two streams.             *)
EXTENDS EventStream

CONSTANTS c1, c2

TwoClients == {c1, c2}
=============================================================================
