---------------------------- MODULE MCBlockStore ----------------------------
(***************************************************************************)
(* The block store with the bounds of its configuration.                   *)
(***************************************************************************)
EXTENDS BlockStore
=============================================================================
