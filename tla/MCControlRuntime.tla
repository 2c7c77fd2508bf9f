-------------------------- MODULE MCControlRuntime -------------------------
(* Bounded instance of ControlRuntime: two runtimes, one of them spawned by *)
(* a start command, follow and overlap each other and one that has crashed, *)
(* all on one port, beside a client that stops what it finds.               *)
EXTENDS ControlRuntime, TLC

CONSTANTS i1, i2, i3, k1, k2, p1

ThreeRuntimes == {i1, i2, i3}
TwoClients == {k1, k2}
OneStarter == {k1}
Spawn == k1 :> i1
OnePort == {p1}
Crashed == {i3}
=============================================================================
