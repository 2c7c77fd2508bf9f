------------------------ MODULE MCPersistenceStartup ------------------------
(* Two workers on one data root.                                            *)
EXTENDS PersistenceStartup
CONSTANTS w1, w2
=============================================================================
