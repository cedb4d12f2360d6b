---------------------------- MODULE MCBrainStore ----------------------------
(***************************************************************************)
(* Bounded instance of BrainStore.                                         *)
(***************************************************************************)
EXTENDS BrainStore

=============================================================================
