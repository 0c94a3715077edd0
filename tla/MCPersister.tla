---------------------------- MODULE MCPersister ----------------------------
(***************************************************************************)
(* Instances of Persister for TLC.                                         *)
(***************************************************************************)
EXTENDS PersisterInv
=============================================================================
